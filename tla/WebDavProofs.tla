---------------------------- MODULE WebDavProofs ----------------------------
(***************************************************************************)
(* Theorems about the file storage of WebDav.tla, for every set of         *)
(* requests, names and sizes.                                              *)
(***************************************************************************)
EXTENDS WebDav, FiniteSetTheorems, WellFoundedInduction, TLAPS

\* An upload that has looked its name's row up and has not committed its own.
LookedUp(r) == At(r, "found") \/ Writing(r) \/ At(r, "orphaned")
Served == {"found", "torn", "written", "orphaned", "unlink", "reading"}
Named == {"queued", "locked", "checked", "picked"} \cup Served

Job == [pc : Steps, name : Names \cup {None}, size : Sizes \cup {0}, quota : Quotas \cup {0},
        token : Requests \cup {None}, body : Requests \cup {Absent, Torn, None}]

\* What a request under way knows has its type.
JobsOK ==
    \A r \in Requests :
        /\ job[r].pc \in Named => job[r].name \in Names
        /\ job[r].pc \in Served => job[r].token \in Requests
        /\ At(r, "queued") \/ Locked(r) \/ At(r, "orphaned") => job[r].size \in Sizes

\* QUOTA_LOCK is held once.
Exclusive == \A r, q \in Requests : Locked(r) /\ Locked(q) => r = q

\* A row's token is that of a request which is over.
RowTokensOld == \A n \in Names : rows[n] # NoRow => At(rows[n].token, "done")

\* The token an upload writes under is its own or an old one, and no other name's,
\* of rows and of uploads.
UploadTokens ==
    \A r \in Requests : LookedUp(r) =>
        /\ job[r].token = r \/ At(job[r].token, "done")
        /\ \A n \in Names : rows[n] # NoRow /\ rows[n].token = job[r].token => n = job[r].name
        /\ \A q \in Requests : LookedUp(q) /\ job[q].token = job[r].token => job[q].name = job[r].name

\* Between truncation and upsert the name has no acknowledged content, and the bytes
\* written are the upload's, or gone with a row that was deleted meanwhile.
Writes ==
    \A r \in Requests :
        /\ Writing(r) => latest[job[r].name] = None
        /\ At(r, "written") =>
             \/ disk[job[r].token] = r
             \/ disk[job[r].token] = Absent /\ job[r].name \in harmed

\* A file about to be removed belongs to nobody but names recorded in harmed.
Unlinks ==
    \A q \in Requests : At(q, "unlink") =>
        /\ At(job[q].token, "done")
        /\ \A n \in Names : rows[n] # NoRow /\ rows[n].token = job[q].token => n \in harmed
        /\ \A r \in Requests : LookedUp(r) /\ job[r].token = job[q].token => job[r].name \in harmed

IInv ==
    /\ TypeOK /\ JobsOK /\ Exclusive /\ RowTokensOld
    /\ UploadTokens /\ Writes /\ Unlinks /\ AcknowledgedIsKept

-----------------------------------------------------------------------------

\* The initial state satisfies the invariant.
LEMMA InitInv == Init => IInv
<1> SUFFICES ASSUME Init PROVE IInv
  OBVIOUS
<1>1. /\ \A r \in Requests : job[r].pc = "idle" /\ disk[r] = Absent
      /\ \A n \in Names : rows[n] = NoRow /\ latest[n] = None
  BY DEF Init, NoJob
<1>2. TypeOK
  <2>1. \A m, n \in Names :
          rows[m] # NoRow /\ rows[n] # NoRow /\ rows[m].token = rows[n].token => m = n
    BY <1>1
  <2>2. job \in [Requests -> Job]
    BY DEF Init, NoJob, Job, Steps
  <2>3. disk \in [Requests -> Requests \cup {Absent, Torn}]
    BY DEF Init
  <2>4. setting \in [enabled : BOOLEAN, max : Limits, quota : Quotas]
    BY DEF Init
  <2> QED BY <2>1, <2>2, <2>3, <2>4, WebDavAssumption DEF Init, TypeOK, Job
<1> QED
  BY <1>1, <1>2 DEF IInv, JobsOK, Exclusive, RowTokensOld, UploadTokens, Writes, Unlinks,
     AcknowledgedIsKept, At, Locked, Writing, LookedUp, Named, Served

-----------------------------------------------------------------------------
(* Steps that leave rows and files alone.                                  *)

\* No request moves.
LEMMA FrameInv ==
  ASSUME IInv, TypeOK', UNCHANGED <<rows, disk, job, latest, harmed>>
  PROVE  IInv'
BY DEF IInv, JobsOK, Exclusive, RowTokensOld, UploadTokens, Writes, Unlinks,
     AcknowledgedIsKept, At, Locked, Writing, LookedUp, Named, Served

\* One request moves, to a step in which it has no claim on a file.
LEMMA QuietInv ==
  ASSUME IInv, TypeOK', UNCHANGED <<rows, disk, latest, harmed>>,
         NEW r \in Requests, ~At(r, "done"),
         \A q \in Requests \ {r} : job'[q] = job[q],
         job'[r].pc \notin {"found", "torn", "written", "orphaned", "unlink"},
         job'[r].pc \in Named => job'[r].name \in Names,
         job'[r].pc = "reading" => job'[r].token \in Requests,
         job'[r].pc \in {"queued", "locked", "checked"} => job'[r].size \in Sizes,
         job'[r].pc \in {"locked", "checked"} => QuotaLockFree \/ Locked(r)
  PROVE  IInv'
<1>1. \A m \in Names : rows[m] # NoRow => rows[m].token \in Requests
  BY DEF IInv, TypeOK, Row
<1>2. JobsOK' /\ RowTokensOld'
  BY <1>1 DEF IInv, At, JobsOK, RowTokensOld, Locked, Writing, Named, Served
<1>3. Exclusive'
  BY DEF IInv, Exclusive, Locked, Writing, QuotaLockFree
<1>4. UploadTokens'
  BY <1>1 DEF IInv, At, JobsOK, UploadTokens, Writing, LookedUp, Served
<1>5. Writes' /\ Unlinks'
  BY <1>1 DEF IInv, At, JobsOK, Writes, Unlinks, Writing, LookedUp, Served
<1>6. AcknowledgedIsKept'
  BY DEF IInv, AcknowledgedIsKept
<1> QED BY <1>2, <1>3, <1>4, <1>5, <1>6 DEF IInv

LEMMA ReceiveInv ==
  ASSUME IInv, TypeOK', NEW r \in Requests, NEW n \in Names, NEW s \in Sizes, Receive(r, n, s)
  PROVE  IInv'
<1>1. /\ ~At(r, "done") /\ \A q \in Requests \ {r} : job'[q] = job[q]
      /\ job'[r].pc = "queued" /\ job'[r].name = n /\ job'[r].size = s
  BY DEF IInv, TypeOK, Receive, At, NoJob
<1> QED BY <1>1, QuietInv DEF Receive, history

LEMMA TakeQuotaLockInv ==
  ASSUME IInv, TypeOK', NEW r \in Requests, TakeQuotaLock(r) PROVE IInv'
<1>1. /\ ~At(r, "done") /\ \A q \in Requests \ {r} : job'[q] = job[q]
      /\ job'[r].pc = "locked" /\ job'[r].name \in Names /\ job'[r].size \in Sizes
  BY DEF IInv, TypeOK, JobsOK, TakeQuotaLock, At, Move, Named
<1> QED BY <1>1, QuietInv DEF TakeQuotaLock, history

\* A request that is over.
LEMMA FinishInv ==
  ASSUME IInv, TypeOK', UNCHANGED <<rows, disk, latest, harmed>>,
         NEW r \in Requests, ~At(r, "done"), Finish(r)
  PROVE  IInv'
<1>1. job'[r].pc = "done" /\ \A q \in Requests \ {r} : job'[q] = job[q]
  BY DEF IInv, TypeOK, Finish, Over, NoJob
<1> QED BY <1>1, QuietInv DEF Named, Served

LEMMA CheckQuotaInv ==
  ASSUME IInv, TypeOK', NEW r \in Requests, CheckQuota(r) PROVE IInv'
<1>1. CASE OverQuota(r)
  BY <1>1, FinishInv DEF CheckQuota, At, history
<1>2. CASE ~OverQuota(r)
  <2>1. /\ ~At(r, "done") /\ Locked(r) /\ \A q \in Requests \ {r} : job'[q] = job[q]
        /\ job'[r].pc = "checked" /\ job'[r].name \in Names /\ job'[r].size \in Sizes
    BY <1>2 DEF IInv, TypeOK, JobsOK, CheckQuota, At, Move, Named, Locked
  <2> QED BY <2>1, QuietInv DEF CheckQuota, history
<1> QED BY <1>1, <1>2

LEMMA WriteFailsInv ==
  ASSUME IInv, TypeOK', NEW r \in Requests, WriteFails(r) PROVE IInv'
BY FinishInv DEF WriteFails, At, history

LEMMA PickRowInv ==
  ASSUME IInv, TypeOK', NEW r \in Requests, NEW n \in Names, PickRow(r, n) PROVE IInv'
<1>1. /\ ~At(r, "done") /\ \A q \in Requests \ {r} : job'[q] = job[q]
      /\ job'[r].pc = "picked" /\ job'[r].name = n
  BY DEF IInv, TypeOK, PickRow, At, NoJob
<1> QED BY <1>1, QuietInv DEF PickRow, history

LEMMA FindRowInv ==
  ASSUME IInv, TypeOK', NEW r \in Requests, NEW n \in Names, FindRow(r, n) PROVE IInv'
<1>1. /\ ~At(r, "done") /\ \A q \in Requests \ {r} : job'[q] = job[q]
      /\ job'[r].pc = "reading" /\ job'[r].name = n /\ job'[r].token \in Requests
  BY DEF IInv, TypeOK, FindRow, At, NoJob, get_webdav_file, Row
<1> QED BY <1>1, QuietInv DEF FindRow

LEMMA ServeFileInv ==
  ASSUME IInv, TypeOK', NEW r \in Requests, serve_file(r) PROVE IInv'
<1>1. ~At(r, "done") /\ job'[r].pc = "done" /\ \A q \in Requests \ {r} : job'[q] = job[q]
  BY DEF IInv, TypeOK, serve_file, At
<1> QED BY <1>1, QuietInv DEF serve_file, history, Named, Served

LEMMA RestartInv == ASSUME IInv, TypeOK', Restart PROVE IInv'
<1>1. /\ UNCHANGED <<rows, disk, latest, harmed>>
      /\ \A q \in Requests : job'[q].pc \in {"idle", "done"} /\ (At(q, "done") => At(q, "done")')
  BY DEF IInv, TypeOK, Restart, Over, NoJob, At, history
<1>2. \A m \in Names : rows[m] # NoRow => rows[m].token \in Requests
  BY DEF IInv, TypeOK, Row
<1> QED
  BY <1>1, <1>2 DEF IInv, JobsOK, Exclusive, RowTokensOld, UploadTokens, Writes, Unlinks,
     AcknowledgedIsKept, At, Locked, Writing, LookedUp, Named, Served

-----------------------------------------------------------------------------
(* Steps of an upload that has looked its row up.                          *)

LEMMA LookUpTokenInv ==
  ASSUME IInv, TypeOK', NEW r \in Requests, LookUpToken(r) PROVE IInv'
<1> DEFINE n == job[r].name
           t == TokenFor(r, n)
<1>1. /\ job[r].pc = "checked" /\ n \in Names
      /\ job'[r].pc = "found" /\ job'[r].name = n /\ job'[r].token = t
      /\ job'[r].size = job[r].size
      /\ \A q \in Requests \ {r} : job'[q] = job[q]
      /\ UNCHANGED <<rows, disk, latest, harmed>>
  BY DEF IInv, LookUpToken, At, TypeOK, JobsOK, Named, history
<1>2. \A m \in Names : rows[m] # NoRow => rows[m].token \in Requests
  BY DEF IInv, TypeOK, Row
<1>3. /\ t \in Requests
      /\ t = r \/ (rows[n] # NoRow /\ t = rows[n].token)
  BY <1>1, <1>2 DEF TokenFor, get_webdav_file
<1>4. \A m, k \in Names :
        rows[m] # NoRow /\ rows[k] # NoRow /\ rows[m].token = rows[k].token => m = k
  BY DEF IInv, TypeOK
<1> HIDE DEF t
<1>5. JobsOK' /\ RowTokensOld'
  BY <1>1, <1>2, <1>3 DEF IInv, At, JobsOK, RowTokensOld, Locked, Writing, Named, Served
<1>6. Exclusive'
  BY <1>1 DEF IInv, Exclusive, Locked, Writing
<1>7. UploadTokens'
  BY <1>1, <1>2, <1>3, <1>4
     DEF IInv, At, JobsOK, RowTokensOld, UploadTokens, Writing, LookedUp, Served
<1>8. Writes'
  BY <1>1 DEF IInv, At, Writes, Writing
<1>9. Unlinks'
  BY <1>1, <1>2, <1>3 DEF IInv, At, JobsOK, Unlinks, LookedUp, Writing, Served
<1>10. AcknowledgedIsKept'
  BY <1>1 DEF IInv, AcknowledgedIsKept
<1> QED BY <1>5, <1>6, <1>7, <1>8, <1>9, <1>10 DEF IInv

LEMMA TruncateInv == ASSUME IInv, TypeOK', NEW r \in Requests, Truncate(r) PROVE IInv'
<1> DEFINE n == job[r].name
           t == job[r].token
<1>1. /\ job[r].pc = "found" /\ n \in Names /\ t \in Requests
      /\ job'[r].pc = "torn" /\ job'[r].name = n /\ job'[r].token = t /\ job'[r].size = job[r].size
      /\ \A q \in Requests \ {r} : job'[q] = job[q]
  BY DEF IInv, Truncate, At, Move, TypeOK, JobsOK, Named, Served
<1>2. /\ rows' = rows /\ harmed' = harmed
      /\ disk'[t] = Torn /\ \A u \in Requests \ {t} : disk'[u] = disk[u]
      /\ latest'[n] = None /\ \A m \in Names \ {n} : latest'[m] = latest[m]
  BY <1>1 DEF IInv, Truncate, TypeOK
<1>3. \A m \in Names : rows[m] # NoRow => rows[m].token \in Requests
  BY DEF IInv, TypeOK, Row
<1>4. JobsOK' /\ Exclusive' /\ RowTokensOld'
  BY <1>1, <1>2, <1>3
     DEF IInv, At, JobsOK, Exclusive, RowTokensOld, Locked, Writing, Named, Served
<1>5. UploadTokens'
  BY <1>1, <1>2, <1>3 DEF IInv, At, JobsOK, UploadTokens, Locked, Writing, LookedUp, Served
<1>6. Writes'
  BY <1>1, <1>2, <1>3 DEF IInv, At, JobsOK, Writes, Exclusive, Locked, Writing, Served
<1>7. Unlinks'
  BY <1>1, <1>2, <1>3 DEF IInv, At, JobsOK, Unlinks, LookedUp, Writing, Served
<1>8. AcknowledgedIsKept'
  BY <1>1, <1>2, <1>3 DEF IInv, AcknowledgedIsKept, UploadTokens, LookedUp, At
<1> QED BY <1>4, <1>5, <1>6, <1>7, <1>8 DEF IInv

LEMMA WriteBytesInv == ASSUME IInv, TypeOK', NEW r \in Requests, WriteBytes(r) PROVE IInv'
<1> DEFINE n == job[r].name
           t == job[r].token
<1>1. /\ job[r].pc = "torn" /\ n \in Names /\ t \in Requests
      /\ job'[r].pc = "written" /\ job'[r].name = n /\ job'[r].token = t
      /\ job'[r].size = job[r].size
      /\ \A q \in Requests \ {r} : job'[q] = job[q]
  BY DEF IInv, WriteBytes, At, Move, TypeOK, JobsOK, Named, Served
<1>2. /\ rows' = rows /\ harmed' = harmed /\ latest' = latest
      /\ disk'[t] = r /\ \A u \in Requests \ {t} : disk'[u] = disk[u]
  BY <1>1 DEF IInv, WriteBytes, TypeOK, history
<1>3. \A m \in Names : rows[m] # NoRow => rows[m].token \in Requests
  BY DEF IInv, TypeOK, Row
<1>4. JobsOK' /\ Exclusive' /\ RowTokensOld'
  BY <1>1, <1>2, <1>3
     DEF IInv, At, JobsOK, Exclusive, RowTokensOld, Locked, Writing, Named, Served
<1>5. UploadTokens'
  BY <1>1, <1>2, <1>3 DEF IInv, At, JobsOK, UploadTokens, Locked, Writing, LookedUp, Served
<1>6. Writes'
  BY <1>1, <1>2, <1>3 DEF IInv, At, JobsOK, Writes, Exclusive, Locked, Writing, Served
<1>7. Unlinks'
  BY <1>1, <1>2, <1>3 DEF IInv, At, JobsOK, Unlinks, LookedUp, Writing, Served
<1>8. AcknowledgedIsKept'
  BY <1>1, <1>2, <1>3 DEF IInv, AcknowledgedIsKept, UploadTokens, Writes, LookedUp, Writing
<1> QED BY <1>4, <1>5, <1>6, <1>7, <1>8 DEF IInv

LEMMA UpsertInv == ASSUME IInv, TypeOK', NEW r \in Requests, upsert_webdav_file(r) PROVE IInv'
<1> DEFINE n == job[r].name
           t == job[r].token
<1>1. /\ job[r].pc \in {"written", "orphaned"} /\ n \in Names /\ t \in Requests /\ LookedUp(r)
      /\ job'[r].pc = "done"
      /\ \A q \in Requests \ {r} : job'[q] = job[q]
  BY DEF IInv, upsert_webdav_file, At, Orphaned, Finish, Over, NoJob, TypeOK, JobsOK, Named,
         Served, LookedUp, Writing
<1>2. /\ disk' = disk /\ harmed' = harmed
      /\ rows'[n].token = t /\ rows'[n] # NoRow
      /\ \A m \in Names \ {n} : rows'[m] = rows[m]
      /\ latest'[n] = IF job[r].pc = "orphaned" THEN None ELSE r
      /\ \A m \in Names \ {n} : latest'[m] = latest[m]
  BY <1>1, WebDavAssumption
     DEF IInv, upsert_webdav_file, Orphaned, At, Upserted, TypeOK, NoRow
<1>3. \A m \in Names : rows[m] # NoRow => rows[m].token \in Requests
  BY DEF IInv, TypeOK, Row
<1>4. JobsOK'
  BY <1>1 DEF IInv, At, JobsOK, Locked, Writing, Named, Served
<1>5. Exclusive'
  BY <1>1 DEF IInv, Exclusive, Locked, Writing
<1>6. RowTokensOld'
  BY <1>1, <1>2, <1>3 DEF IInv, At, RowTokensOld, UploadTokens
<1>7. \A q \in Requests : LookedUp(q)' => LookedUp(q) /\ q # r /\ job'[q] = job[q] /\ job[q].token \in Requests
  BY <1>1 DEF LookedUp, Writing, At, IInv, JobsOK, Served
<1>8. UploadTokens'
  <2> SUFFICES ASSUME NEW q \in Requests, LookedUp(q)'
               PROVE  /\ (job[q].token = q \/ At(job[q].token, "done"))'
                      /\ \A m \in Names :
                           rows'[m] # NoRow /\ rows'[m].token = job'[q].token => m = job'[q].name
                      /\ \A k \in Requests :
                           LookedUp(k)' /\ job'[k].token = job'[q].token => job'[k].name = job'[q].name
    BY DEF UploadTokens
  <2>1. LookedUp(q) /\ q # r /\ job'[q] = job[q] /\ job[q].token \in Requests
    BY <1>7
  <2>2. (job[q].token = q \/ At(job[q].token, "done"))'
    BY <1>1, <2>1 DEF IInv, UploadTokens, At
  <2>3. \A m \in Names : rows'[m] # NoRow /\ rows'[m].token = job[q].token => m = job[q].name
    BY <1>1, <1>2, <2>1 DEF IInv, UploadTokens
  <2>4. \A k \in Requests : LookedUp(k)' /\ job'[k].token = job[q].token => job'[k].name = job[q].name
    BY <1>7, <2>1 DEF IInv, UploadTokens
  <2> QED BY <2>1, <2>2, <2>3, <2>4
<1>9. Writes'
  <2> SUFFICES ASSUME NEW q \in Requests, Writing(q)'
               PROVE  /\ latest'[job'[q].name] = None
                      /\ At(q, "written")' =>
                           \/ disk'[job'[q].token] = q
                           \/ disk'[job'[q].token] = Absent /\ job'[q].name \in harmed'
    BY DEF Writes, Writing, At
  <2>1. Writing(q) /\ q # r /\ job'[q] = job[q] /\ job[q].name \in Names
    BY <1>1 DEF Writing, IInv, JobsOK, Named, Served
  <2>2. job[r].pc = "orphaned"
    BY <1>1, <2>1 DEF IInv, Exclusive, Locked, Writing
  <2> QED BY <1>2, <2>1, <2>2 DEF IInv, Writes, At
<1>10. Unlinks'
  <2> SUFFICES ASSUME NEW q \in Requests, At(q, "unlink")'
               PROVE  /\ At(job[q].token, "done")'
                      /\ \A m \in Names :
                           rows'[m] # NoRow /\ rows'[m].token = job[q].token => m \in harmed
                      /\ \A k \in Requests :
                           LookedUp(k)' /\ job'[k].token = job[q].token => job'[k].name \in harmed
                      /\ job'[q] = job[q]
    BY <1>2 DEF Unlinks
  <2>1. q # r /\ job'[q] = job[q] /\ At(q, "unlink") /\ job[q].token \in Requests
    BY <1>1 DEF IInv, At, JobsOK, Served
  <2>2. At(job[q].token, "done")'
    BY <1>1, <2>1 DEF IInv, Unlinks, At
  <2>3. \A m \in Names : rows'[m] # NoRow /\ rows'[m].token = job[q].token => m \in harmed
    BY <1>1, <1>2, <2>1 DEF IInv, Unlinks
  <2>4. \A k \in Requests : LookedUp(k)' /\ job'[k].token = job[q].token => job'[k].name \in harmed
    BY <1>7, <2>1 DEF IInv, Unlinks
  <2> QED BY <2>1, <2>2, <2>3, <2>4
<1>11. AcknowledgedIsKept'
  BY <1>1, <1>2, WebDavAssumption DEF IInv, AcknowledgedIsKept, Writes, At
<1> QED BY <1>4, <1>5, <1>6, <1>8, <1>9, <1>10, <1>11 DEF IInv

LEMMA UpsertFailsInv == ASSUME IInv, TypeOK', NEW r \in Requests, UpsertFails(r) PROVE IInv'
<1> DEFINE n == job[r].name
           t == job[r].token
<1>0. CASE At(r, "orphaned")
  BY <1>0, FinishInv DEF UpsertFails, Orphaned, At, history
<1>00. CASE ~At(r, "orphaned")
  <2>1. /\ job[r].pc = "written" /\ n \in Names /\ t \in Requests
        /\ job'[r].pc = "done"
        /\ \A q \in Requests \ {r} : job'[q] = job[q]
    BY <1>00 DEF IInv, UpsertFails, Orphaned, At, Finish, Over, NoJob, TypeOK, JobsOK, Named, Served
  <2>2. /\ rows' = rows /\ harmed' = harmed /\ latest' = latest
        /\ disk'[t] = Absent /\ \A u \in Requests \ {t} : disk'[u] = disk[u]
    BY <2>1, <1>00 DEF IInv, UpsertFails, Orphaned, TypeOK, history
  <2>3. \A m \in Names : rows[m] # NoRow => rows[m].token \in Requests
    BY DEF IInv, TypeOK, Row
  <2>4. JobsOK' /\ Exclusive' /\ RowTokensOld'
    BY <2>1, <2>2, <2>3
       DEF IInv, At, JobsOK, Exclusive, RowTokensOld, Locked, Writing, Named, Served
  <2>5. UploadTokens'
    BY <2>1, <2>2, <2>3 DEF IInv, At, JobsOK, UploadTokens, Writing, LookedUp, Served
  <2>6. Writes'
    BY <2>1 DEF IInv, Exclusive, Locked, Writing, Writes, At
  <2>7. Unlinks'
    BY <2>1, <2>2, <2>3 DEF IInv, At, JobsOK, Unlinks, LookedUp, Writing, Served
  <2>8. AcknowledgedIsKept'
    BY <2>1, <2>2, <2>3 DEF IInv, AcknowledgedIsKept, UploadTokens, Writes, LookedUp, Writing
  <2> QED BY <2>4, <2>5, <2>6, <2>7, <2>8 DEF IInv
<1> QED BY <1>0, <1>00

\* A client that leaves frees the lock; its upload may still commit under its token.
LEMMA ClientLeavesInv == ASSUME IInv, TypeOK', NEW r \in Requests, ClientLeaves(r) PROVE IInv'
<1>1. CASE Finish(r) /\ ~At(r, "done")
  BY <1>1, FinishInv DEF ClientLeaves, history
<1>2. CASE At(r, "written") /\ Move(r, "orphaned")
  <2>1. /\ job[r].pc = "written" /\ job'[r].pc = "orphaned" /\ LookedUp(r)
        /\ job'[r].name = job[r].name /\ job'[r].token = job[r].token /\ job'[r].size = job[r].size
        /\ \A q \in Requests \ {r} : job'[q] = job[q]
        /\ UNCHANGED <<rows, disk, latest, harmed>>
    BY <1>2 DEF IInv, TypeOK, ClientLeaves, Move, At, history, LookedUp, Writing
  <2>2. \A q \in Requests :
          LookedUp(q)' => LookedUp(q) /\ job'[q].token = job[q].token /\ job'[q].name = job[q].name
    BY <2>1 DEF LookedUp, Writing, At
  <2>3. \A m \in Names : rows[m] # NoRow => rows[m].token \in Requests
    BY DEF IInv, TypeOK, Row
  <2>4. JobsOK' /\ Exclusive' /\ RowTokensOld'
    BY <2>1, <2>3 DEF IInv, At, JobsOK, Exclusive, RowTokensOld, Locked, Writing, Named, Served
  <2>5. \A u \in Requests : At(u, "done") => At(u, "done")'
    BY <2>1 DEF At
  <2>6. UploadTokens'
    BY <2>1, <2>2, <2>5 DEF IInv, UploadTokens, At, LookedUp, Writing, JobsOK, Served
  <2>7. Writes'
    BY <2>1 DEF IInv, Writes, Writing, At
  <2>8. Unlinks'
    BY <2>1, <2>2, <2>5 DEF IInv, Unlinks, At, JobsOK, Served
  <2>9. AcknowledgedIsKept'
    BY <2>1 DEF IInv, AcknowledgedIsKept
  <2> QED BY <2>4, <2>6, <2>7, <2>8, <2>9 DEF IInv
<1> QED BY <1>1, <1>2 DEF ClientLeaves, At

-----------------------------------------------------------------------------
(* Steps of a deletion.                                                    *)

LEMMA RemoveRowInv ==
  ASSUME IInv, TypeOK', NEW r \in Requests, NEW n \in Names, ~At(r, "done"), ~Locked(r),
         rows[n] # NoRow, RemoveRow(r, n)
  PROVE  IInv'
<1> DEFINE t == rows[n].token
<1>1. /\ t \in Requests /\ At(t, "done")
      /\ job'[r].pc = "unlink" /\ job'[r].name = n /\ job'[r].token = t
      /\ \A q \in Requests \ {r} : job'[q] = job[q]
  BY DEF IInv, RemoveRow, TypeOK, Row, RowTokensOld, NoJob
<1>2. /\ rows'[n] = NoRow /\ \A m \in Names \ {n} : rows'[m] = rows[m]
      /\ latest'[n] = None /\ \A m \in Names \ {n} : latest'[m] = latest[m]
      /\ disk' = disk /\ harmed \subseteq harmed'
      /\ \A q \in Requests : LookedUp(q) /\ job[q].name = n => n \in harmed'
  BY DEF IInv, RemoveRow, TypeOK, Overlapped, LookedUp, Orphaned, At
<1>3. \A m \in Names : rows[m] # NoRow => rows[m].token \in Requests
  BY DEF IInv, TypeOK, Row
<1>4. \A m, k \in Names :
        rows[m] # NoRow /\ rows[k] # NoRow /\ rows[m].token = rows[k].token => m = k
  BY DEF IInv, TypeOK
<1>5. JobsOK' /\ Exclusive' /\ RowTokensOld'
  BY <1>1, <1>2, <1>3
     DEF IInv, At, JobsOK, Exclusive, RowTokensOld, Locked, Writing, Named, Served
<1>6. UploadTokens'
  BY <1>1, <1>2, <1>3 DEF IInv, At, JobsOK, UploadTokens, Locked, Writing, LookedUp, Served
<1>7. Writes'
  BY <1>1, <1>2, <1>3 DEF IInv, At, JobsOK, Writes, Locked, Writing, Served, Named
<1>8. Unlinks'
  <2> SUFFICES ASSUME NEW q \in Requests, At(q, "unlink")'
               PROVE  /\ At(job[q].token, "done")'
                      /\ \A m \in Names :
                           rows'[m] # NoRow /\ rows'[m].token = job'[q].token => m \in harmed'
                      /\ \A k \in Requests :
                           LookedUp(k)' /\ job'[k].token = job'[q].token => job'[k].name \in harmed'
    BY DEF Unlinks
  <2>1. \A k \in Requests : LookedUp(k)' => k # r /\ LookedUp(k) /\ job'[k] = job[k]
    BY <1>1 DEF LookedUp, Writing, At
  <2>2. CASE q = r
    <3>1. \A k \in Requests : LookedUp(k) /\ job[k].token = t => job[k].name = n
      BY DEF IInv, UploadTokens
    <3> QED BY <1>1, <1>2, <1>4, <2>1, <2>2, <3>1 DEF At
  <2>3. CASE q # r
    BY <1>1, <1>2, <2>1, <2>3 DEF IInv, Unlinks, At, JobsOK, Served
  <2> QED BY <2>2, <2>3
<1>9. AcknowledgedIsKept'
  BY <1>1, <1>2 DEF IInv, AcknowledgedIsKept
<1> QED BY <1>5, <1>6, <1>7, <1>8, <1>9 DEF IInv

LEMMA DeleteInv ==
  ASSUME IInv, TypeOK', NEW r \in Requests, NEW n \in Names, Delete(r, n) PROVE IInv'
BY RemoveRowInv DEF Delete, At, Locked, Writing, get_webdav_file

LEMMA DeleteWebdavFileInv ==
  ASSUME IInv, TypeOK', NEW r \in Requests, delete_webdav_file(r) PROVE IInv'
<1>1. job[r].name \in Names /\ ~At(r, "done") /\ ~Locked(r)
  BY DEF IInv, delete_webdav_file, At, JobsOK, Named, Locked, Writing
<1> QED BY <1>1, RemoveRowInv, FinishInv DEF delete_webdav_file, get_webdav_file, history

LEMMA RemoveFileInv ==
  ASSUME IInv, TypeOK', NEW r \in Requests, RemoveFile(r) PROVE IInv'
<1> DEFINE t == job[r].token
<1>1. /\ job[r].pc = "unlink" /\ t \in Requests
      /\ job'[r].pc = "done"
      /\ \A q \in Requests \ {r} : job'[q] = job[q]
  BY DEF IInv, RemoveFile, At, Finish, Over, NoJob, TypeOK, JobsOK, Named, Served
<1>2. /\ rows' = rows /\ harmed' = harmed /\ latest' = latest
      /\ disk'[t] = Absent /\ \A u \in Requests \ {t} : disk'[u] = disk[u]
  BY <1>1 DEF IInv, RemoveFile, TypeOK, history
<1>3. \A m \in Names : rows[m] # NoRow => rows[m].token \in Requests
  BY DEF IInv, TypeOK, Row
<1>4. JobsOK' /\ Exclusive' /\ RowTokensOld'
  BY <1>1, <1>2, <1>3
     DEF IInv, At, JobsOK, Exclusive, RowTokensOld, Locked, Writing, Named, Served
<1>5. UploadTokens'
  BY <1>1, <1>2, <1>3 DEF IInv, At, JobsOK, UploadTokens, Locked, Writing, LookedUp, Served
<1>6. Writes'
  BY <1>1, <1>2, <1>3 DEF IInv, At, JobsOK, Writes, Unlinks, LookedUp, Writing, Served
<1>7. Unlinks'
  BY <1>1, <1>2, <1>3 DEF IInv, At, JobsOK, Unlinks, LookedUp, Writing, Served
<1>8. AcknowledgedIsKept'
  BY <1>1, <1>2, <1>3 DEF IInv, AcknowledgedIsKept, Unlinks, At
<1> QED BY <1>4, <1>5, <1>6, <1>7, <1>8 DEF IInv

-----------------------------------------------------------------------------
(* Types, and the tokens of rows.                                          *)

\* Tokens stay distinct: only an upsert gives a row a token.
LEMMA TokensStayDistinct ==
  ASSUME IInv, NEW r \in Requests, upsert_webdav_file(r)
  PROVE  \A m, n \in Names :
           rows'[m] # NoRow /\ rows'[n] # NoRow /\ rows'[m].token = rows'[n].token => m = n
<1>1. /\ LookedUp(r) /\ job[r].name \in Names
      /\ rows'[job[r].name].token = job[r].token
      /\ \A m \in Names \ {job[r].name} : rows'[m] = rows[m]
  BY DEF IInv, upsert_webdav_file, Orphaned, Upserted, TypeOK, JobsOK, At, Named, Served,
         LookedUp, Writing
<1>2. \A m \in Names : rows[m] # NoRow /\ rows[m].token = job[r].token => m = job[r].name
  BY <1>1 DEF IInv, UploadTokens
<1> QED BY <1>1, <1>2 DEF IInv, TypeOK

LEMMA OverType == ASSUME TypeOK, NEW r \in Requests PROVE Over(r) \in Job
BY DEF TypeOK, Over, NoJob, Job, Steps

LEMMA MoveType ==
  ASSUME TypeOK, NEW r \in Requests, NEW step \in Steps
  PROVE  [job EXCEPT ![r].pc = step] \in [Requests -> Job]
BY DEF TypeOK, Job

LEMMA FoundType ==
  ASSUME NEW j \in Job, NEW t \in Requests PROVE [j EXCEPT !.pc = "found", !.token = t] \in Job
BY DEF Job, Steps

LEMMA ServedType ==
  ASSUME NEW j \in Job, NEW b \in Requests \cup {Absent, Torn}
  PROVE  [j EXCEPT !.pc = "done", !.body = b] \in Job
BY DEF Job, Steps

LEMMA FaultType == ASSUME faults \in 0..MaxFaults, faults < MaxFaults PROVE faults + 1 \in 0..MaxFaults
BY WebDavAssumption

\* Every step keeps the type.
LEMMA TypeInv == ASSUME IInv, [Next]_vars PROVE TypeOK'
<1> USE DEF IInv, TypeOK
<1>1. ASSUME NEW r \in Requests, NEW n \in Names, NEW s \in Sizes, Receive(r, n, s)
      PROVE  TypeOK'
  <2>1. [NoJob EXCEPT !.pc = "queued", !.name = n, !.size = s, !.quota = setting.quota] \in Job
    BY DEF NoJob, Job, Steps
  <2> QED BY <1>1, <2>1 DEF Receive, history, Job
<1>2. ASSUME NEW r \in Requests, Upload(r) PROVE TypeOK'
  <2>1. CASE TakeQuotaLock(r) \/ CheckQuota(r) \/ WriteFails(r)
    <3>1. job' \in [Requests -> Job]
      <4>1. {"locked", "checked"} \subseteq Steps
        BY DEF Steps
      <4>2. CASE \E step \in {"locked", "checked"} : Move(r, step)
        BY <4>1, <4>2, MoveType DEF Move
      <4>3. CASE Finish(r)
        BY <4>3, OverType DEF Finish, Job
      <4> QED BY <2>1, <4>2, <4>3 DEF TakeQuotaLock, CheckQuota, WriteFails
    <3>2. faults' \in 0..MaxFaults
      BY <2>1, FaultType DEF TakeQuotaLock, CheckQuota, WriteFails
    <3> QED BY <2>1, <3>1, <3>2 DEF TakeQuotaLock, CheckQuota, WriteFails, history, Job
  <2>2. CASE LookUpToken(r)
    <3>1. TokenFor(r, job[r].name) \in Requests
      BY <2>2 DEF TokenFor, get_webdav_file, LookUpToken, At, JobsOK, Named, Row
    <3>2. job' = [job EXCEPT ![r] = [job[r] EXCEPT !.pc = "found",
                                                   !.token = TokenFor(r, job[r].name)]]
      BY <2>2 DEF LookUpToken
    <3>3. [job[r] EXCEPT !.pc = "found", !.token = TokenFor(r, job[r].name)] \in Job
      BY <3>1, FoundType DEF Job
    <3> QED BY <2>2, <3>2, <3>3 DEF LookUpToken, history, Job
  <2>3. CASE Truncate(r)
    BY <2>3 DEF Truncate, Move, At, Steps, Readers, JobsOK, Named, Served
  <2>4. CASE WriteBytes(r)
    <3>1. job' \in [Requests -> Job]
      BY <2>4, MoveType DEF WriteBytes, Move, Steps
    <3>2. disk' \in [Requests -> Requests \cup {Absent, Torn}]
      BY <2>4 DEF WriteBytes
    <3> QED BY <2>4, <3>1, <3>2 DEF WriteBytes, history, Job
  <2>5. CASE upsert_webdav_file(r)
    <3>1. Upserted(r) \in Row /\ job[r].name \in Names
      BY <2>5 DEF upsert_webdav_file, Orphaned, Upserted, Row, At, JobsOK, Named, Served, Locked, Writing
    <3>2. job' \in [Requests -> Job]
      BY <2>5, OverType DEF upsert_webdav_file, Finish, Job
    <3>3. rows' \in [Names -> Row \cup {NoRow}]
      BY <2>5, <3>1 DEF upsert_webdav_file
    <3>4. /\ latest' \in [Names -> Requests \cup {None}] /\ damaged' \subseteq Names
          /\ overtaken' \subseteq Requests
      BY <2>5, <3>1 DEF upsert_webdav_file, Overtakes
    <3> QED BY <2>5, <3>2, <3>3, <3>4, TokensStayDistinct DEF upsert_webdav_file, Job
  <2>6. CASE UpsertFails(r)
    BY <2>6, OverType DEF UpsertFails, Finish, history, Job
  <2> QED BY <1>2, <2>1, <2>2, <2>3, <2>4, <2>5, <2>6 DEF Upload
<1>3. ASSUME NEW r \in Requests, NEW n \in Names, rows[n] # NoRow, RemoveRow(r, n)
      PROVE  TypeOK'
  <2>1. [NoJob EXCEPT !.pc = "unlink", !.name = n, !.token = rows[n].token] \in Job
    BY <1>3 DEF NoJob, Job, Steps, Row
  <2>2. job' \in [Requests -> Job] /\ rows' \in [Names -> Row \cup {NoRow}]
    BY <1>3, <2>1 DEF RemoveRow, Job
  <2>3. \A m, k \in Names :
          rows'[m] # NoRow /\ rows'[k] # NoRow /\ rows'[m].token = rows'[k].token => m = k
    BY <1>3 DEF RemoveRow
  <2> QED BY <1>3, <2>2, <2>3 DEF RemoveRow, Job
<1>4. ASSUME NEW r \in Requests, NEW n \in Names, PickRow(r, n) PROVE TypeOK'
  <2>1. [NoJob EXCEPT !.pc = "picked", !.name = n, !.token = rows[n].id] \in Job
    BY <1>4 DEF PickRow, get_webdav_file, NoJob, Job, Steps, Row
  <2> QED BY <1>4, <2>1 DEF PickRow, history, Job
<1>5. ASSUME NEW r \in Requests, delete_webdav_file(r) PROVE TypeOK'
  <2>1. job[r].name \in Names
    BY <1>5 DEF delete_webdav_file, At, JobsOK, Named
  <2> QED
    BY <1>3, <1>5, <2>1, OverType DEF delete_webdav_file, get_webdav_file, Finish, history, Job
<1>6. ASSUME NEW r \in Requests, RemoveFile(r) PROVE TypeOK'
  BY <1>6, OverType DEF RemoveFile, Finish, history, Job
<1>7. ASSUME NEW r \in Requests, NEW n \in Names, FindRow(r, n) PROVE TypeOK'
  <2>1. [NoJob EXCEPT !.pc = "reading", !.name = n, !.size = rows[n].size,
                      !.token = rows[n].token] \in Job
    BY <1>7 DEF FindRow, get_webdav_file, NoJob, Job, Steps, Row
  <2> QED BY <1>7, <2>1 DEF FindRow, Job
<1>8. ASSUME NEW r \in Requests, serve_file(r) PROVE TypeOK'
  <2>1. [job[r] EXCEPT !.pc = "done", !.body = disk[job[r].token]] \in Job
    <3>1. job[r] \in Job /\ disk[job[r].token] \in Requests \cup {Absent, Torn}
      BY <1>8 DEF serve_file, At, JobsOK, Served, Job
    <3> QED BY <3>1, ServedType
  <2>2. job' = [job EXCEPT ![r] = [job[r] EXCEPT !.pc = "done", !.body = disk[job[r].token]]]
    BY <1>8 DEF serve_file
  <2> QED BY <1>8, <2>1, <2>2 DEF serve_file, history, Job
<1>13. ASSUME NEW r \in Requests, ClientLeaves(r) PROVE TypeOK'
  <2>1. job' \in [Requests -> Job]
    <3>1. "orphaned" \in Steps
      BY DEF Steps
    <3>2. CASE Move(r, "orphaned")
      BY <3>1, <3>2, MoveType DEF Move
    <3>3. CASE Finish(r)
      BY <3>3, OverType DEF Finish, Job
    <3> QED BY <1>13, <3>2, <3>3 DEF ClientLeaves
  <2> QED BY <1>13, <2>1 DEF ClientLeaves, history, Job
<1>9. CASE update_settings
  BY <1>9 DEF update_settings, history
<1>10. CASE LoseConnection
  BY <1>10, FaultType DEF LoseConnection, history
<1>11. CASE Restart
  <2>1. job' \in [Requests -> Job]
    BY <1>11, OverType DEF Restart, Job
  <2> QED BY <1>11, <2>1, FaultType DEF Restart, history, Job
<1>12. CASE UNCHANGED vars
  BY <1>12 DEF vars, history
<1> QED
  BY <1>1, <1>2, <1>3, <1>4, <1>5, <1>6, <1>7, <1>8, <1>9, <1>10, <1>11, <1>12,
     <1>13 DEF Next, Put, filelink_upload, Delete, get_webdav_file, admin_delete_file,
         filelink_delete, Get, filelink_download

-----------------------------------------------------------------------------

\* The invariant is inductive.
LEMMA StepInv == ASSUME IInv, [Next]_vars PROVE IInv'
<1>0. TypeOK'
  BY TypeInv
<1>1. CASE update_settings \/ LoseConnection \/ UNCHANGED vars
  BY <1>0, <1>1, FrameInv DEF update_settings, LoseConnection, vars, history
<1>2. CASE Restart
  BY <1>0, <1>2, RestartInv
<1>3. ASSUME NEW r \in Requests,
             \/ \E n \in Names, s \in Sizes : Put(r, n, s) \/ filelink_upload(r, n, s)
             \/ Upload(r)
             \/ \E n \in Names : \/ Delete(r, n) \/ admin_delete_file(r, n)
                                 \/ filelink_delete(r, n) \/ Get(r, n) \/ filelink_download(r, n)
             \/ delete_webdav_file(r) \/ RemoveFile(r) \/ serve_file(r)
             \/ ClientLeaves(r)
      PROVE  IInv'
  <2>1. CASE \E n \in Names, s \in Sizes : Put(r, n, s) \/ filelink_upload(r, n, s)
    BY <1>0, <2>1, ReceiveInv DEF Put, filelink_upload
  <2>2. CASE Upload(r)
    BY <1>0, <2>2, TakeQuotaLockInv, CheckQuotaInv, LookUpTokenInv, TruncateInv, WriteBytesInv,
       WriteFailsInv, UpsertInv, UpsertFailsInv DEF Upload
  <2>3. ASSUME NEW n \in Names,
               \/ Delete(r, n) \/ admin_delete_file(r, n)
               \/ filelink_delete(r, n) \/ Get(r, n) \/ filelink_download(r, n)
        PROVE  IInv'
    BY <1>0, <2>3, DeleteInv, PickRowInv, FindRowInv
       DEF admin_delete_file, filelink_delete, Get, filelink_download
  <2>4. CASE delete_webdav_file(r) \/ RemoveFile(r) \/ serve_file(r) \/ ClientLeaves(r)
    BY <1>0, <2>4, DeleteWebdavFileInv, RemoveFileInv, ServeFileInv, ClientLeavesInv
  <2> QED BY <1>3, <2>1, <2>2, <2>3, <2>4
<1> QED BY <1>1, <1>2, <1>3 DEF Next

\* The inductive invariant holds throughout.
THEOREM Inductive == Spec => []IInv
BY InitInv, StepInv, PTL DEF Spec

\* Types, and the distinct tokens of rows (dav_handler, filelink_upload).
THEOREM TypeCorrect == Spec => []TypeOK
<1>1. IInv => TypeOK
  BY DEF IInv
<1> QED BY Inductive, <1>1, PTL

\* What an upload was told is stored stays stored, row and bytes, for any number of
\* requests, names and faults (dav_handler PUT, filelink_upload and the deletions).
THEOREM AcknowledgedKept == Spec => []AcknowledgedIsKept
<1>1. IInv => AcknowledgedIsKept
  BY DEF IInv
<1> QED BY Inductive, <1>1, PTL

-----------------------------------------------------------------------------
(* The rows, files and locks implement DavStore.                           *)

Uploading ==
    {[upload |-> r, name |-> job[r].name] : r \in {q \in Requests : Locked(q)}}
      \cup {[upload |-> disk[job[r].token], name |-> job[r].name] :
              r \in {q \in Requests : Orphaned(q) /\ disk[job[q].token] \in Requests}}
ShownBy == [n \in Names |-> Shown(n)]

\* What an orphaned upload may still show was pending before.
OrphansBringNothing ==
    \A q \in Requests : Orphaned(q)' /\ disk'[job'[q].token] \in Requests =>
        [upload |-> disk'[job'[q].token], name |-> job'[q].name] \in Uploading

LEMMA OrphansStay ==
  ASSUME IInv, NEW r \in Requests, ~Orphaned(r)', \A q \in Requests \ {r} : job'[q] = job[q],
         \A t \in Requests : disk'[t] = disk[t] \/ disk'[t] \notin Requests
  PROVE  OrphansBringNothing
<1> SUFFICES ASSUME NEW q \in Requests, Orphaned(q)', disk'[job'[q].token] \in Requests
             PROVE  [upload |-> disk'[job'[q].token], name |-> job'[q].name] \in Uploading
  BY DEF OrphansBringNothing
<1>1. job'[q] = job[q] /\ Orphaned(q)
  BY DEF Orphaned, At
<1>2. job[q].token \in Requests
  BY <1>1 DEF IInv, JobsOK, Served, Orphaned, At
<1>3. disk'[job[q].token] = disk[job[q].token]
  BY <1>1, <1>2
<1> QED BY <1>1, <1>3 DEF Uploading

\* No lock is taken: uploads may end, none begins.
LEMMA NothingBegins ==
  ASSUME \A q \in Requests : Locked(q)' => Locked(q) /\ job'[q].name = job[q].name,
         OrphansBringNothing
  PROVE  Uploading' \in SUBSET Uploading
<1> SUFFICES ASSUME NEW a, a \in Uploading' PROVE a \in Uploading
  OBVIOUS
<1>1. CASE a \in {[upload |-> r, name |-> job'[r].name] : r \in {q \in Requests : Locked(q)'}}
  BY <1>1 DEF Uploading
<1>2. CASE a \in {[upload |-> disk'[job'[r].token], name |-> job'[r].name] :
                    r \in {q \in Requests : Orphaned(q)' /\ disk'[job'[q].token] \in Requests}}
  BY <1>2 DEF OrphansBringNothing
<1> QED BY <1>1, <1>2 DEF Uploading

\* What names show goes by rows and files.
LEMMA ShownSame ==
  ASSUME NEW m \in Names, rows'[m] = rows[m],
         rows[m] # NoRow => disk'[rows[m].token] = disk[rows[m].token]
  PROVE  Shown(m)' = Shown(m)
BY DEF Shown

LEMMA StoreEnds ==
  ASSUME \A m \in Names : Shown(m)' = Shown(m), Uploading' \in SUBSET Uploading
  PROVE  [Store!StoreNext]_(Store!svars)
<1>1. ShownBy' = ShownBy
  BY DEF ShownBy
<1> QED BY <1>1 DEF Store!StoreNext, Store!End, ShownBy, Uploading

\* One name changes, to nothing, to a broken file, or to what an upload brings.
LEMMA StoreChanges ==
  ASSUME NEW n \in Names,
         \A m \in Names \ {n} : Shown(m)' = Shown(m),
         \/ Shown(n)' \in {Shown(n), "nothing", "broken"}
         \/ [upload |-> Shown(n)', name |-> n] \in Uploading,
         Uploading' \in SUBSET Uploading
  PROVE  [Store!StoreNext]_(Store!svars)
<1>1. CASE Shown(n)' = Shown(n)
  BY <1>1, StoreEnds
<1>2. CASE Shown(n)' # Shown(n)
  <2>1. ShownBy' = [ShownBy EXCEPT ![n] = Shown(n)']
    BY DEF ShownBy
  <2>2. CASE Shown(n)' \in {"nothing", "broken"}
    BY <2>1, <2>2
       DEF Store!StoreNext, Store!Change, Store!Offered, Store!Nothing, Store!Broken, ShownBy, Uploading
  <2>3. CASE [upload |-> Shown(n)', name |-> n] \in Uploading
    <3>1. Shown(n)' \in {a.upload : a \in {b \in Uploading : b.name = n}}
      <4> DEFINE a == [upload |-> Shown(n)', name |-> n]
      <4>1. a \in Uploading /\ a.name = n /\ a.upload = Shown(n)'
        BY <2>3
      <4> HIDE DEF a
      <4> QED BY <4>1
    <3> QED BY <2>1, <3>1
       DEF Store!StoreNext, Store!Change, Store!Offered, ShownBy, Uploading
  <2> QED BY <1>2, <2>2, <2>3
<1> QED BY <1>1, <1>2

LEMMA QuietStep ==
  ASSUME UNCHANGED <<rows, disk>>,
         \A q \in Requests : Locked(q)' => Locked(q) /\ job'[q].name = job[q].name,
         OrphansBringNothing
  PROVE  [Store!StoreNext]_(Store!svars)
BY NothingBegins, ShownSame, StoreEnds

\* Requests stay as they are, or are over.
LEMMA NoneMoves ==
  ASSUME UNCHANGED <<rows, disk>>,
         \A q \in Requests : job'[q] = job[q] \/ job'[q].pc \in {"idle", "done"}
  PROVE  [Store!StoreNext]_(Store!svars)
<1>1. OrphansBringNothing
  BY DEF OrphansBringNothing, Orphaned, At, Uploading
<1>2. \A q \in Requests : Locked(q)' => Locked(q) /\ job'[q].name = job[q].name
  BY DEF Locked, Writing
<1> QED BY <1>1, <1>2, QuietStep

LEMMA TakeQuotaLockStep ==
  ASSUME IInv, NEW r \in Requests, TakeQuotaLock(r)
  PROVE  [Store!StoreNext]_(Store!svars)
<1>1. /\ job[r].name \in Names /\ job'[r].pc = "locked" /\ job'[r].name = job[r].name
      /\ \A q \in Requests \ {r} : job'[q] = job[q]
      /\ ~Locked(r)
  BY DEF IInv, TypeOK, JobsOK, TakeQuotaLock, Move, At, Named, Locked, Writing
<1>2. Locked(r)' /\ \A q \in Requests \ {r} : Locked(q)' <=> Locked(q)
  BY <1>1 DEF Locked, Writing
<1>3. Uploading' = Uploading \cup {[upload |-> r, name |-> job[r].name]}
  <2> DEFINE Coming == {[upload |-> q, name |-> job[q].name] : q \in {p \in Requests : Locked(p)}}
             Left == {[upload |-> disk[job[q].token], name |-> job[q].name] :
                        q \in {p \in Requests : Orphaned(p) /\ disk[job[p].token] \in Requests}}
  <2>1. Coming' = Coming \cup {[upload |-> r, name |-> job[r].name]}
    BY <1>1, <1>2
  <2>2. disk' = disk /\ \A q \in Requests : Orphaned(q)' <=> Orphaned(q)
    BY <1>1 DEF TakeQuotaLock, Orphaned, At
  <2>3. \A q \in Requests : Orphaned(q) => q # r /\ job'[q] = job[q]
    BY <1>1, <1>2 DEF Orphaned, At, TakeQuotaLock
  <2>4. Left' = Left
    BY <2>2, <2>3
  <2> QED BY <2>1, <2>4 DEF Uploading
<1>4. ShownBy' = ShownBy
  BY DEF ShownBy, Shown, TakeQuotaLock
<1> QED BY <1>1, <1>3, <1>4 DEF Store!StoreNext, Store!Begin, ShownBy, Uploading

LEMMA TruncateStep ==
  ASSUME IInv, NEW r \in Requests, Truncate(r) PROVE [Store!StoreNext]_(Store!svars)
<1> DEFINE n == job[r].name
           t == job[r].token
<1>1. /\ job[r].pc = "found" /\ n \in Names /\ t \in Requests
      /\ job'[r].pc = "torn" /\ job'[r].name = n
      /\ \A q \in Requests \ {r} : job'[q] = job[q]
      /\ rows' = rows /\ disk'[t] = Torn /\ \A u \in Requests \ {t} : disk'[u] = disk[u]
  BY DEF IInv, Truncate, At, Move, TypeOK, JobsOK, Named, Served
<1>2. \A m \in Names : rows[m] # NoRow => rows[m].token \in Requests
  BY DEF IInv, TypeOK, Row
<1>3. \A m \in Names \ {n} : Shown(m)' = Shown(m)
  BY <1>1, <1>2, ShownSame DEF IInv, UploadTokens, LookedUp, At
<1>4. Shown(n)' \in {Shown(n), "broken"}
  BY <1>1, <1>2 DEF Shown
<1>5. Uploading' \in SUBSET Uploading
  <2>1. OrphansBringNothing
    BY <1>1, OrphansStay, WebDavAssumption DEF Orphaned, At
  <2> QED BY <1>1, <2>1, NothingBegins DEF Locked, Writing
<1> QED BY <1>1, <1>3, <1>4, <1>5, StoreChanges

LEMMA WriteBytesStep ==
  ASSUME IInv, NEW r \in Requests, WriteBytes(r) PROVE [Store!StoreNext]_(Store!svars)
<1> DEFINE n == job[r].name
           t == job[r].token
<1>1. /\ job[r].pc = "torn" /\ n \in Names /\ t \in Requests
      /\ job'[r].pc = "written" /\ job'[r].name = n
      /\ \A q \in Requests \ {r} : job'[q] = job[q]
      /\ rows' = rows /\ disk'[t] = r /\ \A u \in Requests \ {t} : disk'[u] = disk[u]
  BY DEF IInv, WriteBytes, At, Move, TypeOK, JobsOK, Named, Served
<1>2. \A m \in Names : rows[m] # NoRow => rows[m].token \in Requests
  BY DEF IInv, TypeOK, Row
<1>3. \A m \in Names \ {n} : Shown(m)' = Shown(m)
  BY <1>1, <1>2, ShownSame DEF IInv, UploadTokens, LookedUp, Writing
<1>4. Shown(n)' = Shown(n) \/ Shown(n)' = r
  BY <1>1, <1>2, WebDavAssumption DEF Shown
<1>5. Locked(r) /\ [upload |-> r, name |-> n] \in Uploading
  BY <1>1 DEF Locked, Writing, Uploading
<1>6. OrphansBringNothing
  <2> SUFFICES ASSUME NEW q \in Requests, Orphaned(q)', disk'[job'[q].token] \in Requests
               PROVE  [upload |-> disk'[job'[q].token], name |-> job'[q].name] \in Uploading
    BY DEF OrphansBringNothing
  <2>1. job'[q] = job[q] /\ Orphaned(q) /\ job[q].token \in Requests
    BY <1>1 DEF Orphaned, At, IInv, JobsOK, Served
  <2>2. CASE job[q].token = t
    <3>1. job[q].name = n
      BY <1>1, <2>1, <2>2 DEF IInv, UploadTokens, LookedUp, Orphaned, Writing
    <3> QED BY <1>1, <1>5, <2>1, <2>2, <3>1
  <2>3. CASE job[q].token # t
    BY <1>1, <2>1, <2>3 DEF Uploading
  <2> QED BY <2>2, <2>3
<1>7. Uploading' \in SUBSET Uploading
  BY <1>1, <1>6, NothingBegins DEF Locked, Writing
<1> QED BY <1>1, <1>3, <1>4, <1>5, <1>7, StoreChanges

LEMMA UpsertStep ==
  ASSUME IInv, NEW r \in Requests, upsert_webdav_file(r) PROVE [Store!StoreNext]_(Store!svars)
<1>0. job[r].pc \in {"written", "orphaned"}
  BY DEF upsert_webdav_file, Orphaned, At
<1>1. PICK n \in Names : n = job[r].name
  BY <1>0 DEF IInv, JobsOK, Named, Served
<1>2. PICK t \in Requests : t = job[r].token
  BY <1>0 DEF IInv, JobsOK, Served
<1>3. /\ job'[r].pc = "done" /\ \A q \in Requests \ {r} : job'[q] = job[q]
      /\ disk' = disk /\ rows'[n].token = t /\ rows'[n] # NoRow
      /\ \A m \in Names \ {n} : rows'[m] = rows[m]
  BY <1>1, <1>2, WebDavAssumption
     DEF IInv, upsert_webdav_file, Upserted, Finish, Over, NoJob, NoRow, At, TypeOK
<1>4. \A m \in Names \ {n} : Shown(m)' = Shown(m)
  BY <1>3, ShownSame
<1>5. Shown(n)' = "broken" \/ [upload |-> Shown(n)', name |-> n] \in Uploading
  <2>1. Shown(n)' = IF disk[t] \in {Absent, Torn} THEN "broken" ELSE disk[t]
    BY <1>3 DEF Shown
  <2>2. CASE disk[t] \in {Absent, Torn}
    BY <2>1, <2>2
  <2>3. CASE job[r].pc = "written" /\ disk[t] = r
    BY <1>1, <2>1, <2>3, WebDavAssumption DEF Uploading, Locked, Writing
  <2>4. CASE job[r].pc = "orphaned" /\ disk[t] \in Requests
    <3>1. Shown(n)' = disk[t]
      BY <2>1, <2>4, WebDavAssumption
    <3> QED BY <1>1, <1>2, <2>4, <3>1 DEF Uploading, Orphaned, At
  <2>5. disk[t] \in Requests \cup {Absent, Torn}
    BY DEF IInv, TypeOK
  <2>6. job[r].pc = "written" => disk[t] = r \/ disk[t] = Absent
    BY <1>2 DEF IInv, Writes, At
  <2> QED BY <1>0, <2>2, <2>3, <2>4, <2>5, <2>6
<1>6. Uploading' \in SUBSET Uploading
  <2>1. OrphansBringNothing
    BY <1>3, OrphansStay DEF Orphaned, At
  <2> QED BY <1>3, <2>1, NothingBegins DEF Locked, Writing
<1> QED BY <1>1, <1>4, <1>5, <1>6, StoreChanges

\* A file is removed: of the one name whose row has its token, if any.
LEMMA FileGone ==
  ASSUME IInv, NEW t \in Requests, rows' = rows, disk' = [disk EXCEPT ![t] = Absent],
         Uploading' \in SUBSET Uploading
  PROVE  [Store!StoreNext]_(Store!svars)
<1>1. \A m \in Names : rows[m] # NoRow => rows[m].token \in Requests
  BY DEF IInv, TypeOK, Row
<1>2. disk'[t] = Absent /\ \A u \in Requests \ {t} : disk'[u] = disk[u]
  BY DEF IInv, TypeOK
<1>3. CASE \A m \in Names : rows[m] # NoRow => rows[m].token # t
  BY <1>1, <1>2, <1>3, ShownSame, StoreEnds
<1>4. ASSUME NEW n \in Names, rows[n] # NoRow, rows[n].token = t
      PROVE  [Store!StoreNext]_(Store!svars)
  <2>1. \A m \in Names \ {n} : rows[m] # NoRow => rows[m].token # t
    BY <1>4 DEF IInv, TypeOK
  <2>2. \A m \in Names \ {n} : Shown(m)' = Shown(m)
    BY <1>1, <1>2, <2>1, ShownSame
  <2>3. Shown(n)' = "broken"
    BY <1>2, <1>4 DEF Shown
  <2> QED BY <2>2, <2>3, StoreChanges
<1> QED BY <1>3, <1>4

\* A request that is over and has removed its file.
LEMMA RemovesFile ==
  ASSUME IInv, NEW r \in Requests, job[r].token \in Requests, Finish(r), rows' = rows,
         disk' = [disk EXCEPT ![job[r].token] = Absent]
  PROVE  [Store!StoreNext]_(Store!svars)
<1>1. job'[r].pc = "done" /\ \A q \in Requests \ {r} : job'[q] = job[q]
  BY DEF IInv, Finish, Over, NoJob, TypeOK
<1>2. OrphansBringNothing
  <2>1. \A t \in Requests : disk'[t] = disk[t] \/ disk'[t] \notin Requests
    BY WebDavAssumption DEF IInv, TypeOK
  <2> QED BY <1>1, <2>1, OrphansStay DEF Orphaned, At
<1> QED BY <1>1, <1>2, NothingBegins, FileGone DEF Locked, Writing

LEMMA UpsertFailsStep ==
  ASSUME IInv, NEW r \in Requests, UpsertFails(r) PROVE [Store!StoreNext]_(Store!svars)
<1>1. job[r].token \in Requests
  BY DEF IInv, UpsertFails, Orphaned, At, JobsOK, Served
<1>2. CASE Orphaned(r)
  <2>1. \A q \in Requests : job'[q] = job[q] \/ job'[q].pc \in {"idle", "done"}
    BY DEF IInv, UpsertFails, Finish, Over, NoJob, TypeOK
  <2> QED BY <1>2, <2>1, NoneMoves DEF UpsertFails
<1> QED BY <1>1, <1>2, RemovesFile DEF UpsertFails

LEMMA RemoveFileStep ==
  ASSUME IInv, NEW r \in Requests, RemoveFile(r) PROVE [Store!StoreNext]_(Store!svars)
<1>1. job[r].token \in Requests
  BY DEF IInv, RemoveFile, At, JobsOK, Served
<1> QED BY <1>1, RemovesFile DEF RemoveFile

\* An abandoned upload was pending, and its content is what its token's file holds.
LEMMA ClientLeavesStep ==
  ASSUME IInv, NEW r \in Requests, ClientLeaves(r) PROVE [Store!StoreNext]_(Store!svars)
<1>1. CASE Finish(r)
  <2>1. \A q \in Requests : job'[q] = job[q] \/ job'[q].pc \in {"idle", "done"}
    BY <1>1 DEF IInv, Finish, Over, NoJob, TypeOK
  <2> QED BY <2>1, NoneMoves DEF ClientLeaves
<1>2. CASE At(r, "written") /\ Move(r, "orphaned")
  <2>1. /\ job[r].pc = "written" /\ job'[r].pc = "orphaned" /\ rows' = rows /\ disk' = disk
        /\ job'[r].name = job[r].name /\ job'[r].token = job[r].token
        /\ \A q \in Requests \ {r} : job'[q] = job[q]
    BY <1>2 DEF IInv, TypeOK, ClientLeaves, Move, At
  <2>2. disk[job[r].token] = r \/ disk[job[r].token] \notin Requests
    BY <2>1, WebDavAssumption DEF IInv, Writes, At
  <2>3. OrphansBringNothing
    <3> SUFFICES ASSUME NEW q \in Requests, Orphaned(q)', disk'[job'[q].token] \in Requests
                 PROVE  [upload |-> disk'[job'[q].token], name |-> job'[q].name] \in Uploading
      BY DEF OrphansBringNothing
    <3>1. CASE q = r
      BY <2>1, <2>2, <3>1 DEF Uploading, Locked, Writing
    <3>2. CASE q # r
      BY <2>1, <3>2 DEF Uploading, Orphaned, At
    <3> QED BY <3>1, <3>2
  <2>4. \A q \in Requests : Locked(q)' => Locked(q) /\ job'[q].name = job[q].name
    BY <2>1 DEF Locked, Writing
  <2> QED BY <2>1, <2>3, <2>4, QuietStep
<1> QED BY <1>1, <1>2 DEF ClientLeaves

LEMMA RemoveRowStep ==
  ASSUME IInv, NEW r \in Requests, NEW n \in Names, RemoveRow(r, n)
  PROVE  [Store!StoreNext]_(Store!svars)
<1>1. /\ job'[r].pc = "unlink" /\ \A q \in Requests \ {r} : job'[q] = job[q]
      /\ disk' = disk /\ rows'[n] = NoRow /\ \A m \in Names \ {n} : rows'[m] = rows[m]
  BY DEF IInv, RemoveRow, NoJob, TypeOK
<1>2. Shown(n)' = "nothing" /\ \A m \in Names \ {n} : Shown(m)' = Shown(m)
  BY <1>1, ShownSame DEF Shown
<1>3. Uploading' \in SUBSET Uploading
  <2>1. OrphansBringNothing
    BY <1>1, OrphansStay DEF Orphaned, At
  <2> QED BY <1>1, <2>1, NothingBegins DEF Locked, Writing
<1> QED BY <1>2, <1>3, StoreChanges

\* A request moves on without rows or files, and takes no lock.
LEMMA MovesOn ==
  ASSUME IInv, UNCHANGED <<rows, disk>>, NEW r \in Requests,
         \A q \in Requests \ {r} : job'[q] = job[q],
         ~At(r, "orphaned")', Locked(r)' => Locked(r) /\ job'[r].name = job[r].name
  PROVE  [Store!StoreNext]_(Store!svars)
BY QuietStep, OrphansStay DEF Locked, Writing, Orphaned

\* Every step of the storage is a step of DavStore, or none.
LEMMA StoreStep == ASSUME IInv, [Next]_vars PROVE [Store!StoreNext]_(Store!svars)
<1>1. CASE update_settings \/ LoseConnection \/ UNCHANGED vars
  BY <1>1, NoneMoves DEF update_settings, LoseConnection, vars
<1>2. CASE Restart
  <2>1. \A q \in Requests : job'[q].pc \in {"idle", "done"}
    BY <1>2 DEF Restart, Over, NoJob, At
  <2> QED BY <1>2, <2>1, NoneMoves DEF Restart
<1>3. ASSUME NEW r \in Requests, NEW n \in Names, NEW s \in Sizes, Receive(r, n, s)
      PROVE  [Store!StoreNext]_(Store!svars)
  <2>1. job'[r].pc = "queued" /\ \A q \in Requests \ {r} : job'[q] = job[q]
    BY <1>3 DEF IInv, TypeOK, Receive, NoJob
  <2> QED BY <1>3, <2>1, MovesOn DEF Receive, Locked, Writing, At
<1>4. ASSUME NEW r \in Requests, Upload(r) PROVE [Store!StoreNext]_(Store!svars)
  <2>1. CASE CheckQuota(r)
    <3>1. /\ At(r, "locked") /\ \A q \in Requests \ {r} : job'[q] = job[q]
          /\ job'[r].pc = "done" \/ (job'[r].pc = "checked" /\ job'[r].name = job[r].name)
      BY <2>1 DEF IInv, TypeOK, CheckQuota, Finish, Over, NoJob, Move, At
    <3> QED BY <2>1, <3>1, MovesOn DEF CheckQuota, Locked, Writing, At
  <2>2. CASE LookUpToken(r)
    <3>1. /\ At(r, "checked") /\ \A q \in Requests \ {r} : job'[q] = job[q]
          /\ job'[r].name = job[r].name /\ job'[r].pc = "found"
      BY <2>2 DEF IInv, TypeOK, LookUpToken, At
    <3> QED BY <2>2, <3>1, MovesOn DEF LookUpToken, Locked, Writing, At
  <2>3. CASE WriteFails(r)
    <3>1. job'[r].pc = "done" /\ \A q \in Requests \ {r} : job'[q] = job[q]
      BY <2>3 DEF IInv, TypeOK, WriteFails, Finish, Over, NoJob
    <3> QED BY <2>3, <3>1, MovesOn DEF WriteFails, Locked, Writing, At
  <2> QED
    BY <1>4, <2>1, <2>2, <2>3, TakeQuotaLockStep, TruncateStep, WriteBytesStep, UpsertStep,
       UpsertFailsStep DEF Upload
<1>5. ASSUME NEW r \in Requests, NEW n \in Names, PickRow(r, n)
      PROVE  [Store!StoreNext]_(Store!svars)
  <2>1. job'[r].pc = "picked" /\ \A q \in Requests \ {r} : job'[q] = job[q]
    BY <1>5 DEF IInv, TypeOK, PickRow, NoJob
  <2> QED BY <1>5, <2>1, MovesOn DEF PickRow, Locked, Writing, At
<1>6. ASSUME NEW r \in Requests, NEW n \in Names, FindRow(r, n)
      PROVE  [Store!StoreNext]_(Store!svars)
  <2>1. job'[r].pc = "reading" /\ \A q \in Requests \ {r} : job'[q] = job[q]
    BY <1>6 DEF IInv, TypeOK, FindRow, NoJob
  <2> QED BY <1>6, <2>1, MovesOn DEF FindRow, Locked, Writing, At
<1>7. ASSUME NEW r \in Requests, delete_webdav_file(r) PROVE [Store!StoreNext]_(Store!svars)
  <2>1. job[r].name \in Names
    BY <1>7 DEF IInv, delete_webdav_file, At, JobsOK, Named
  <2>2. CASE RemoveRow(r, job[r].name)
    BY <2>1, <2>2, RemoveRowStep
  <2>3. CASE Finish(r) /\ UNCHANGED <<rows, disk>>
    <3>1. job'[r].pc = "done" /\ \A q \in Requests \ {r} : job'[q] = job[q]
      BY <2>3 DEF IInv, TypeOK, Finish, Over, NoJob
    <3> QED BY <2>3, <3>1, MovesOn DEF Locked, Writing, At
  <2> QED BY <1>7, <2>2, <2>3 DEF delete_webdav_file
<1>8. ASSUME NEW r \in Requests, serve_file(r) PROVE [Store!StoreNext]_(Store!svars)
  <2>1. job'[r].pc = "done" /\ \A q \in Requests \ {r} : job'[q] = job[q]
    BY <1>8 DEF IInv, TypeOK, serve_file
  <2> QED BY <1>8, <2>1, MovesOn DEF serve_file, Locked, Writing, At
<1> QED
  BY <1>1, <1>2, <1>3, <1>4, <1>5, <1>6, <1>7, <1>8, RemoveRowStep, RemoveFileStep,
     ClientLeavesStep
     DEF Next, Put, filelink_upload, Delete, admin_delete_file, filelink_delete, Get,
         filelink_download

LEMMA StoreStarts == Init => Store!StoreInit
BY DEF Init, Store!StoreInit, Store!Nothing, Shown, Locked, Writing, Orphaned, At, NoJob

\* The storage implements DavStore for any number of requests, names and faults: names
\* do not share files, and a finished upload's content comes back only with the row of
\* one of that name that was given up and had yet to be committed.
THEOREM StoreImplemented == Spec => ImplementsStore
BY Inductive, StoreStarts, StoreStep, PTL DEF Spec, ImplementsStore, Store!StoreSpec
-----------------------------------------------------------------------------
(* Content-Length and body of a download.                                  *)

\* What is in a file or a body was written in full, and its size stays known.
BodiesWritten ==
    /\ \A t \in Requests : disk[t] \in Requests => job[disk[t]].pc \in {"written", "orphaned", "done"}
    /\ \A r \in Requests : job[r].body \in Requests =>
         At(r, "done") /\ job[job[r].body].pc \in {"written", "orphaned", "done"}

\* A row whose file is being written is damaged.
WritesDamage ==
    \A r \in Requests, n \in Names :
        Writing(r) /\ rows[n] # NoRow /\ rows[n].token = job[r].token => n \in damaged

TornEmpty == \A r \in Requests : At(r, "torn") => disk[job[r].token] \notin Requests

\* A row that is not being replaced gives its file's size.
RowSizes ==
    \A n \in Names \ (damaged \cup harmed) :
        (rows[n] # NoRow /\ disk[rows[n].token] \in Requests)
            => rows[n].size = job[disk[rows[n].token]].size

\* A download's token is no other name's; and unless it is disturbed nothing writes its
\* file, and the size it read is the file's.
DownloadKnows(r) ==
    /\ At(job[r].token, "done")
    /\ \A n \in Names : rows[n] # NoRow /\ rows[n].token = job[r].token => n = job[r].name
    /\ \A q \in Requests :
         LookedUp(q) /\ job[q].token = job[r].token => job[q].name = job[r].name
    /\ r \notin disturbed => \A q \in Requests : ~(Writing(q) /\ job[q].token = job[r].token)
    /\ (r \notin disturbed /\ job[r].name \notin harmed /\ disk[job[r].token] \in Requests)
         => job[r].size = job[disk[job[r].token]].size

Downloads == \A r \in Requests : At(r, "reading") => DownloadKnows(r)

LengthInv ==
    /\ IInv /\ BodiesWritten /\ WritesDamage /\ TornEmpty /\ RowSizes
    /\ Downloads /\ LengthIsBodys

LEMMA LengthInit == Init => LengthInv
<1> SUFFICES ASSUME Init PROVE LengthInv
  OBVIOUS
<1>1. /\ \A r \in Requests : job[r].pc = "idle" /\ job[r].body = None /\ disk[r] = Absent
      /\ \A n \in Names : rows[n] = NoRow
  BY DEF Init, NoJob
<1> QED
  BY <1>1, InitInv, WebDavAssumption
     DEF LengthInv, BodiesWritten, WritesDamage, TornEmpty, RowSizes, Downloads, LengthIsBodys, At,
         Writing

\* What the typing of rows and jobs says here.
LEMMA TokensKnown ==
  ASSUME IInv
  PROVE  /\ \A m \in Names : rows[m] # NoRow => rows[m].token \in Requests
         /\ \A r \in Requests : job[r].pc \in Served =>
              job[r].name \in Names /\ job[r].token \in Requests
BY DEF IInv, TypeOK, Row, JobsOK, Served, Named

\* A request moves that has written nothing, or is over; rows and files may go, none comes.
LEMMA QuietLength ==
  ASSUME LengthInv, IInv', NEW r \in Requests, ~At(r, "done"),
         \A q \in Requests \ {r} : job'[q] = job[q],
         job'[r].pc \notin {"found", "torn", "written", "orphaned", "reading"},
         job'[r].body \notin Requests,
         At(r, "written") \/ At(r, "orphaned") => job'[r].pc = "done" /\ job'[r].size = job[r].size,
         \A n \in Names : rows'[n] \in {rows[n], NoRow},
         \A t \in Requests : disk'[t] = disk[t] \/ disk'[t] \notin Requests,
         harmed \subseteq harmed', damaged' = damaged, disturbed' = disturbed
  PROVE  LengthInv'
<1>1. \A q \in Requests : LookedUp(q)' => LookedUp(q) /\ q # r
  BY DEF LookedUp, Writing, At
<1>2. BodiesWritten'
  BY DEF LengthInv, BodiesWritten, At
<1>3. WritesDamage' /\ TornEmpty'
  BY <1>1, TokensKnown DEF LengthInv, WritesDamage, TornEmpty, Writing, At, Served
<1>4. \A u \in Requests : job[u].pc \in {"written", "orphaned", "done"} => job'[u].size = job[u].size
  BY DEF At
<1>5. RowSizes'
  BY <1>4, TokensKnown DEF LengthInv, RowSizes, BodiesWritten
<1>6. Downloads'
  <2> SUFFICES ASSUME NEW k \in Requests, At(k, "reading")'
               PROVE  DownloadKnows(k)'
    BY DEF Downloads
  <2>1. k # r /\ job'[k] = job[k] /\ At(k, "reading") /\ job[k].token \in Requests
    BY TokensKnown DEF At, LengthInv, Served
  <2>2. job[job[k].token].pc = "done" /\ job'[job[k].token].pc = "done"
    BY <2>1 DEF LengthInv, Downloads, DownloadKnows, At
  <2>3. \A q \in Requests : Writing(q)' => Writing(q) /\ q # r
    BY DEF Writing
  <2>4. (k \notin disturbed' /\ job'[k].name \notin harmed' /\ disk'[job[k].token] \in Requests)
          => job[k].size = job'[disk'[job[k].token]].size
    BY <1>4, <2>1 DEF LengthInv, Downloads, DownloadKnows, BodiesWritten
  <2>5. \A q \in Requests :
          LookedUp(q)' /\ job'[q].token = job[k].token => job'[q].name = job[k].name
    BY <1>1, <2>1 DEF LengthInv, Downloads, DownloadKnows
  <2>6. k \notin disturbed' => \A q \in Requests : ~(Writing(q)' /\ job'[q].token = job[k].token)
    BY <2>1, <2>3 DEF LengthInv, Downloads, DownloadKnows
  <2>7. \A n \in Names : rows'[n] # NoRow /\ rows'[n].token = job[k].token => n = job[k].name
    BY <2>1 DEF LengthInv, Downloads, DownloadKnows
  <2> QED
    BY <2>1, <2>2, <2>4, <2>5, <2>6, <2>7 DEF DownloadKnows, At
<1>7. LengthIsBodys'
  BY <1>4 DEF LengthInv, LengthIsBodys, BodiesWritten
<1> QED
  BY <1>2, <1>3, <1>5, <1>6, <1>7 DEF LengthInv

\* A client leaves an upload: its content stays what it was.
LEMMA OrphanLength ==
  ASSUME LengthInv, IInv', NEW r \in Requests, At(r, "written"), Move(r, "orphaned"),
         UNCHANGED <<rows, disk, harmed, damaged, disturbed>>
  PROVE  LengthInv'
<1>1. /\ job[r].pc = "written" /\ job'[r].pc = "orphaned" /\ LookedUp(r)
      /\ job'[r].name = job[r].name /\ job'[r].token = job[r].token
      /\ job'[r].size = job[r].size /\ job'[r].body = job[r].body
      /\ \A q \in Requests \ {r} : job'[q] = job[q]
  BY DEF LengthInv, IInv, TypeOK, Move, At, LookedUp, Writing
<1>2. \A q \in Requests :
        /\ job'[q].name = job[q].name /\ job'[q].token = job[q].token
        /\ job'[q].size = job[q].size /\ job'[q].body = job[q].body
  BY <1>1
<1>3. \A q \in Requests :
        /\ LookedUp(q)' <=> LookedUp(q)
        /\ Writing(q)' => Writing(q)
        /\ (At(q, "torn")' <=> At(q, "torn")) /\ (At(q, "done")' <=> At(q, "done"))
        /\ At(q, "reading")' <=> At(q, "reading")
        /\ job[q].pc \in {"written", "orphaned", "done"}
             => job'[q].pc \in {"written", "orphaned", "done"}
  BY <1>1 DEF LookedUp, Writing, At
<1>4. BodiesWritten'
  BY <1>2, <1>3 DEF LengthInv, BodiesWritten
<1>5. WritesDamage' /\ TornEmpty'
  BY <1>2, <1>3 DEF LengthInv, WritesDamage, TornEmpty
<1>6. RowSizes' /\ LengthIsBodys'
  BY <1>2, TokensKnown DEF LengthInv, RowSizes, LengthIsBodys
<1>7. Downloads'
  <2> SUFFICES ASSUME NEW k \in Requests, At(k, "reading")'
               PROVE  DownloadKnows(k)'
    BY DEF Downloads
  <2>1. At(k, "reading") /\ job[k].token \in Requests /\ DownloadKnows(k)
    BY <1>3, TokensKnown DEF LengthInv, Downloads, At, Served
  <2>2. At(job[k].token, "done")'
    BY <1>1, <1>2, <2>1 DEF DownloadKnows, At
  <2> QED BY <1>2, <1>3, <2>1, <2>2 DEF DownloadKnows
<1> QED BY <1>4, <1>5, <1>6, <1>7 DEF LengthInv

\* Uploads: a token looked up is no download's, unless it is the name's.
LEMMA LookUpTokenLength ==
  ASSUME LengthInv, IInv', NEW r \in Requests, LookUpToken(r)
  PROVE  LengthInv'
<1> DEFINE n == job[r].name
           t == TokenFor(r, n)
<1>1. /\ job[r].pc = "checked" /\ n \in Names
      /\ job'[r].pc = "found" /\ job'[r].name = n /\ job'[r].token = t
      /\ job'[r].body = job[r].body
      /\ \A q \in Requests \ {r} : job'[q] = job[q]
      /\ UNCHANGED <<rows, disk, harmed, damaged, disturbed>>
  BY DEF LengthInv, IInv, LookUpToken, At, TypeOK, JobsOK, Named, history
<1>2. t = r \/ (rows[n] # NoRow /\ t = rows[n].token)
  BY DEF TokenFor, get_webdav_file
<1> HIDE DEF t
<1>3. \A u \in Requests : job[u].pc \in {"written", "orphaned", "done"} => job'[u] = job[u]
  BY <1>1
<1>4. \A q \in Requests : (Writing(q)' => Writing(q) /\ q # r) /\ (At(q, "torn")' => At(q, "torn") /\ q # r)
  BY <1>1 DEF Writing, At
<1>5. BodiesWritten' /\ WritesDamage' /\ TornEmpty' /\ RowSizes' /\ LengthIsBodys'
  BY <1>1, <1>3, <1>4, TokensKnown
     DEF LengthInv, BodiesWritten, WritesDamage, TornEmpty, RowSizes, LengthIsBodys, At
<1>6. Downloads'
  <2> SUFFICES ASSUME NEW k \in Requests, At(k, "reading")'
               PROVE  DownloadKnows(k)'
    BY DEF Downloads
  <2>1. k # r /\ job'[k] = job[k] /\ At(k, "reading") /\ job[k].token \in Requests
    BY <1>1, TokensKnown DEF At, LengthInv, Served
  <2>2. job[job[k].token].pc = "done" /\ job'[job[k].token].pc = "done" /\ job[k].token # r
    BY <1>1, <2>1 DEF LengthInv, Downloads, DownloadKnows, At
  <2>3. \A q \in Requests :
          LookedUp(q)' /\ job'[q].token = job[k].token => job'[q].name = job[k].name
    <3> SUFFICES ASSUME NEW q \in Requests, LookedUp(q)', job'[q].token = job[k].token
                 PROVE  job'[q].name = job[k].name
      OBVIOUS
    <3>1. CASE q = r
      BY <1>1, <1>2, <2>1, <2>2, <3>1 DEF LengthInv, Downloads, DownloadKnows
    <3>2. CASE q # r
      BY <1>1, <2>1, <3>2 DEF LengthInv, Downloads, DownloadKnows, LookedUp, Writing, At
    <3> QED
      BY <3>1, <3>2
  <2>4. (k \notin disturbed /\ job[k].name \notin harmed /\ disk[job[k].token] \in Requests)
          => job[k].size = job'[disk[job[k].token]].size
    BY <1>3, <2>1 DEF LengthInv, Downloads, DownloadKnows, BodiesWritten
  <2> QED
    BY <1>1, <1>4, <2>1, <2>2, <2>3, <2>4 DEF LengthInv, Downloads, DownloadKnows, At
<1> QED
  BY <1>5, <1>6 DEF LengthInv

\* An upload truncates its file: its name is damaged, downloads of the name disturbed.
LEMMA TruncateLength ==
  ASSUME LengthInv, IInv', NEW r \in Requests, Truncate(r)
  PROVE  LengthInv'
<1> DEFINE n == job[r].name
           t == job[r].token
<1>1. /\ job[r].pc = "found" /\ n \in Names /\ t \in Requests
      /\ job'[r].pc = "torn" /\ job'[r].name = n /\ job'[r].token = t /\ job'[r].body = job[r].body
      /\ \A q \in Requests \ {r} : job'[q] = job[q]
  BY DEF LengthInv, IInv, Truncate, At, Move, TypeOK, JobsOK, Named, Served
<1>2. /\ UNCHANGED <<rows, harmed>> /\ damaged' = damaged \cup {n}
      /\ disk'[t] = Torn /\ \A u \in Requests \ {t} : disk'[u] = disk[u]
      /\ disturbed' = disturbed \cup Readers(n)
  BY <1>1 DEF LengthInv, IInv, Truncate, TypeOK
<1>3. \A u \in Requests : job[u].pc \in {"written", "orphaned", "done"} => job'[u] = job[u]
  BY <1>1
<1>4. BodiesWritten' /\ RowSizes' /\ LengthIsBodys'
  BY <1>1, <1>2, <1>3, TokensKnown, WebDavAssumption
     DEF LengthInv, BodiesWritten, RowSizes, LengthIsBodys, At
<1>6. \A q \in Requests : Writing(q)' => q = r
  BY <1>1 DEF LengthInv, IInv, Exclusive, Locked, Writing
<1>7. WritesDamage' /\ TornEmpty'
  <2>1. \A m \in Names : rows[m] # NoRow /\ rows[m].token = t => m = n
    BY <1>1 DEF LengthInv, IInv, UploadTokens, LookedUp, At
  <2> QED BY <1>1, <1>2, <1>6, <2>1, WebDavAssumption DEF WritesDamage, TornEmpty, Writing, At
<1>5. Downloads'
  <2> SUFFICES ASSUME NEW k \in Requests, At(k, "reading")'
               PROVE  DownloadKnows(k)'
    BY DEF Downloads
  <2>1. k # r /\ job'[k] = job[k] /\ At(k, "reading") /\ job[k].token \in Requests
    BY <1>1, TokensKnown DEF At, LengthInv, Served
  <2>2. job[job[k].token].pc = "done" /\ job'[job[k].token].pc = "done"
    BY <1>1, <2>1 DEF LengthInv, Downloads, DownloadKnows, At
  <2>3. \A q \in Requests :
          /\ LookedUp(q)' => LookedUp(q) /\ job'[q].token = job[q].token /\ job'[q].name = job[q].name
          /\ Writing(q)' => Writing(q) \/ q = r
    BY <1>1 DEF LookedUp, Writing, At
  <2>4. k \notin disturbed' => k \notin disturbed /\ job[k].name # n
    BY <1>2, <2>1 DEF Readers
  <2>5. \A q \in Requests :
          LookedUp(q)' /\ job'[q].token = job[k].token => job'[q].name = job[k].name
    BY <2>1, <2>3 DEF LengthInv, Downloads, DownloadKnows
  <2>6. k \notin disturbed' => \A q \in Requests : ~(Writing(q)' /\ job'[q].token = job[k].token)
    BY <1>1, <1>6, <2>1, <2>4 DEF LengthInv, Downloads, DownloadKnows, LookedUp, At
  <2>7. (k \notin disturbed' /\ job[k].name \notin harmed /\ disk'[job[k].token] \in Requests)
          => job[k].size = job'[disk'[job[k].token]].size
    BY <1>2, <1>3, <2>1, <2>4, WebDavAssumption
       DEF LengthInv, Downloads, DownloadKnows, BodiesWritten
  <2>8. \A m \in Names : rows'[m] # NoRow /\ rows'[m].token = job[k].token => m = job[k].name
    BY <1>2, <2>1 DEF LengthInv, Downloads, DownloadKnows
  <2> QED
    BY <1>2, <2>1, <2>2, <2>5, <2>6, <2>7, <2>8 DEF DownloadKnows, At
<1> QED
  BY <1>4, <1>5, <1>7 DEF LengthInv

\* Its bytes are written: no download that relies on the file's size is of that name.
LEMMA WriteBytesLength ==
  ASSUME LengthInv, IInv', NEW r \in Requests, WriteBytes(r)
  PROVE  LengthInv'
<1> DEFINE n == job[r].name
           t == job[r].token
<1>1. /\ job[r].pc = "torn" /\ n \in Names /\ t \in Requests /\ LookedUp(r) /\ Writing(r)
      /\ job'[r].pc = "written" /\ job'[r].name = n /\ job'[r].token = t
      /\ job'[r].body = job[r].body
      /\ \A q \in Requests \ {r} : job'[q] = job[q]
  BY DEF LengthInv, IInv, WriteBytes, At, Move, TypeOK, JobsOK, Named, Served, LookedUp, Writing
<1>2. /\ UNCHANGED <<rows, harmed, damaged, disturbed>>
      /\ disk'[t] = r /\ \A u \in Requests \ {t} : disk'[u] = disk[u]
  BY <1>1 DEF LengthInv, IInv, WriteBytes, TypeOK, history
<1>3. \A u \in Requests : job[u].pc \in {"written", "orphaned", "done"} => job'[u] = job[u]
  BY <1>1
<1>4. \A m \in Names : rows[m] # NoRow /\ rows[m].token = t => m = n /\ n \in damaged
  BY <1>1 DEF LengthInv, IInv, UploadTokens, WritesDamage
<1>5. BodiesWritten' /\ WritesDamage' /\ TornEmpty' /\ LengthIsBodys'
  <2>1. \A q \in Requests : (Writing(q)' => Writing(q)) /\ ~At(q, "torn")'
    BY <1>1 DEF LengthInv, IInv, Exclusive, Locked, Writing, At
  <2>2. WritesDamage' /\ TornEmpty'
    BY <1>1, <1>2, <2>1 DEF LengthInv, WritesDamage, TornEmpty
  <2> QED
    BY <1>1, <1>2, <1>3, <2>2 DEF LengthInv, BodiesWritten, LengthIsBodys, At
<1>6. RowSizes'
  <2> SUFFICES ASSUME NEW m \in Names \ (damaged \cup harmed), rows[m] # NoRow,
                      disk'[rows[m].token] \in Requests
               PROVE  rows[m].size = job'[disk'[rows[m].token]].size
    BY <1>2 DEF RowSizes
  <2>1. rows[m].token # t /\ rows[m].token \in Requests
    BY <1>4, TokensKnown DEF LengthInv
  <2> QED
    BY <1>2, <1>3, <2>1 DEF LengthInv, RowSizes, BodiesWritten
<1>7. Downloads'
  <2> SUFFICES ASSUME NEW k \in Requests, At(k, "reading")'
               PROVE  DownloadKnows(k)'
    BY DEF Downloads
  <2>1. k # r /\ job'[k] = job[k] /\ At(k, "reading") /\ job[k].token \in Requests
    BY <1>1, TokensKnown DEF At, LengthInv, Served
  <2>2. job[job[k].token].pc = "done" /\ job'[job[k].token].pc = "done"
    BY <1>1, <2>1 DEF LengthInv, Downloads, DownloadKnows, At
  <2>3. \A q \in Requests :
          /\ LookedUp(q)' => LookedUp(q) /\ job'[q].token = job[q].token /\ job'[q].name = job[q].name
          /\ Writing(q)' => Writing(q)
    BY <1>1 DEF LookedUp, Writing, At
  <2>4. \A q \in Requests :
          LookedUp(q)' /\ job'[q].token = job[k].token => job'[q].name = job[k].name
    BY <2>1, <2>3 DEF LengthInv, Downloads, DownloadKnows
  <2>5. k \notin disturbed => \A q \in Requests : ~(Writing(q)' /\ job'[q].token = job[k].token)
    BY <1>1, <2>1, <2>3 DEF LengthInv, Downloads, DownloadKnows
  <2>6. k \notin disturbed => job[k].token # t
    BY <1>1, <2>1 DEF LengthInv, Downloads, DownloadKnows
  <2>7. (k \notin disturbed /\ job[k].name \notin harmed /\ disk'[job[k].token] \in Requests)
          => job[k].size = job'[disk'[job[k].token]].size
    BY <1>2, <1>3, <2>1, <2>6 DEF LengthInv, Downloads, DownloadKnows, BodiesWritten
  <2>8. \A m \in Names : rows'[m] # NoRow /\ rows'[m].token = job[k].token => m = job[k].name
    BY <1>2, <2>1 DEF LengthInv, Downloads, DownloadKnows
  <2> QED
    BY <1>2, <2>1, <2>2, <2>4, <2>5, <2>7, <2>8 DEF DownloadKnows, At
<1> QED
  BY <1>5, <1>6, <1>7 DEF LengthInv

\* It commits: the row has the size of the bytes just written.
LEMMA UpsertLength ==
  ASSUME LengthInv, IInv', NEW r \in Requests, upsert_webdav_file(r)
  PROVE  LengthInv'
<1> DEFINE n == job[r].name
           t == job[r].token
<1>1. /\ job[r].pc \in {"written", "orphaned"} /\ n \in Names /\ t \in Requests /\ LookedUp(r)
      /\ job'[r].pc = "done" /\ job'[r].body = None /\ job'[r].size = job[r].size
      /\ \A q \in Requests \ {r} : job'[q] = job[q]
  BY DEF LengthInv, IInv, upsert_webdav_file, At, Orphaned, Finish, Over, NoJob, TypeOK, JobsOK,
         Named, Served, LookedUp, Writing
<1>2. /\ UNCHANGED <<disk, harmed, disturbed>>
      /\ damaged' = IF disk[t] = r THEN damaged \ {n} ELSE damaged \cup {n}
      /\ rows'[n].token = t /\ rows'[n].size = job[r].size
      /\ \A m \in Names \ {n} : rows'[m] = rows[m]
  BY <1>1 DEF LengthInv, IInv, upsert_webdav_file, Upserted, TypeOK
<1>3. \A u \in Requests : job[u].pc \in {"written", "orphaned", "done"} =>
        job'[u].pc \in {"written", "orphaned", "done"} /\ job'[u].size = job[u].size
  BY <1>1
<1>4. \A q \in Requests :
        /\ LookedUp(q)' => LookedUp(q) /\ q # r /\ job'[q] = job[q]
        /\ Writing(q)' => Writing(q) /\ q # r /\ job'[q] = job[q]
  BY <1>1 DEF LookedUp, Writing, At
<1>5. BodiesWritten' /\ LengthIsBodys'
  BY <1>1, <1>2, <1>3, WebDavAssumption DEF LengthInv, BodiesWritten, LengthIsBodys, At
<1>6. WritesDamage' /\ TornEmpty'
  <2>1. ASSUME NEW q \in Requests, Writing(q)', NEW m \in Names, rows'[m] # NoRow,
               rows'[m].token = job'[q].token
        PROVE  m \in damaged'
    <3>1. CASE m = n
      <4>1. job[q].token = t /\ Writing(q) /\ q # r
        BY <1>2, <1>4, <2>1, <3>1
      <4>2. disk[t] # r
        BY <4>1, WebDavAssumption DEF LengthInv, IInv, Writes, TornEmpty, Writing, At
      <4> QED BY <1>2, <3>1, <4>2
    <3>2. CASE m # n
      BY <1>2, <1>4, <2>1, <3>2 DEF LengthInv, WritesDamage
    <3> QED BY <3>1, <3>2
  <2> QED BY <1>1, <1>2, <2>1 DEF LengthInv, WritesDamage, TornEmpty, At
<1>7. RowSizes'
  <2> SUFFICES ASSUME NEW m \in Names \ (damaged' \cup harmed), rows'[m] # NoRow,
                      disk[rows'[m].token] \in Requests
               PROVE  rows'[m].size = job'[disk[rows'[m].token]].size
    BY <1>2 DEF RowSizes
  <2>1. CASE m = n
    <3>1. disk[t] = r
      BY <1>2, <2>1
    <3> QED BY <1>1, <1>2, <2>1, <3>1
  <2>2. CASE m # n
    <3>1. m \notin damaged
      BY <1>2, <2>2
    <3> QED BY <1>2, <1>3, <2>2, <3>1, TokensKnown DEF LengthInv, RowSizes, BodiesWritten
  <2> QED
    BY <2>1, <2>2
<1>8. Downloads'
  <2> SUFFICES ASSUME NEW k \in Requests, At(k, "reading")'
               PROVE  DownloadKnows(k)'
    BY DEF Downloads
  <2>1. /\ k # r /\ job'[k] = job[k] /\ At(k, "reading") /\ job[k].token \in Requests
        /\ DownloadKnows(k)
    BY <1>1, TokensKnown DEF At, LengthInv, Served, Downloads
  <2>2. job[job[k].token].pc = "done" /\ job'[job[k].token].pc = "done"
    BY <1>1, <2>1 DEF DownloadKnows, At
  <2>3. (k \notin disturbed /\ job[k].name \notin harmed /\ disk[job[k].token] \in Requests)
          => job[k].size = job'[disk[job[k].token]].size
    BY <1>3, <2>1 DEF LengthInv, DownloadKnows, BodiesWritten
  <2>4. \A m \in Names : rows'[m] # NoRow /\ rows'[m].token = job[k].token => m = job[k].name
    BY <1>1, <1>2, <2>1 DEF DownloadKnows
  <2>5. \A q \in Requests :
          LookedUp(q)' /\ job'[q].token = job[k].token => job'[q].name = job[k].name
    BY <1>4, <2>1 DEF DownloadKnows
  <2>6. k \notin disturbed => \A q \in Requests : ~(Writing(q)' /\ job'[q].token = job[k].token)
    BY <1>4, <2>1 DEF DownloadKnows
  <2> QED
    BY <1>2, <2>1, <2>2, <2>3, <2>4, <2>5, <2>6 DEF DownloadKnows, At
<1> QED
  BY <1>5, <1>6, <1>7, <1>8 DEF LengthInv

\* A download finds its row: unless its name is damaged, the row gives the file's size.
LEMMA FindRowLength ==
  ASSUME LengthInv, IInv', NEW r \in Requests, NEW n \in Names, FindRow(r, n)
  PROVE  LengthInv'
<1> DEFINE t == rows[n].token
<1>1. /\ rows[n] # NoRow /\ t \in Requests /\ At(t, "done") /\ job[r].pc = "idle"
      /\ job'[r].pc = "reading" /\ job'[r].name = n /\ job'[r].token = t
      /\ job'[r].size = rows[n].size /\ job'[r].body = None
      /\ \A q \in Requests \ {r} : job'[q] = job[q]
  BY TokensKnown DEF LengthInv, IInv, TypeOK, RowTokensOld, FindRow, At, NoJob, get_webdav_file
<1>2. /\ UNCHANGED <<rows, disk, harmed, damaged>>
      /\ disturbed \subseteq disturbed' /\ disturbed' \subseteq disturbed \cup {r}
      /\ n \in damaged => r \in disturbed'
  BY DEF FindRow
<1>3. \A u \in Requests : job[u].pc \in {"written", "orphaned", "done"} => job'[u] = job[u]
  BY <1>1
<1>4. \A q \in Requests : (LookedUp(q)' => LookedUp(q) /\ q # r) /\ (Writing(q)' => Writing(q) /\ q # r)
  BY <1>1 DEF LookedUp, Writing, At
<1>5. BodiesWritten' /\ WritesDamage' /\ TornEmpty' /\ RowSizes' /\ LengthIsBodys'
  BY <1>1, <1>2, <1>3, <1>4, TokensKnown, WebDavAssumption
     DEF LengthInv, BodiesWritten, WritesDamage, TornEmpty, RowSizes, LengthIsBodys, At
<1>6. \A m \in Names : rows[m] # NoRow /\ rows[m].token = t => m = n
  BY <1>1 DEF LengthInv, IInv, TypeOK
<1>7. Downloads'
  <2> SUFFICES ASSUME NEW k \in Requests, At(k, "reading")'
               PROVE  DownloadKnows(k)'
    BY DEF Downloads
  <2>1. CASE k = r
    <3>1. \A q \in Requests : LookedUp(q)' /\ job'[q].token = t => job'[q].name = n
      BY <1>1, <1>4 DEF LengthInv, IInv, UploadTokens
    <3>2. r \notin disturbed' => \A q \in Requests : ~(Writing(q)' /\ job'[q].token = t)
      BY <1>1, <1>2, <1>4 DEF LengthInv, WritesDamage
    <3>3. (r \notin disturbed' /\ n \notin harmed /\ disk[t] \in Requests)
            => rows[n].size = job'[disk[t]].size
      BY <1>1, <1>2, <1>3 DEF LengthInv, RowSizes, BodiesWritten
    <3> QED
      BY <1>1, <1>2, <1>6, <2>1, <3>1, <3>2, <3>3 DEF DownloadKnows, At
  <2>2. CASE k # r
    <3>1. job'[k] = job[k] /\ At(k, "reading") /\ job[k].token \in Requests
      BY <1>1, <2>2, TokensKnown DEF At, LengthInv, Served
    <3>2. job'[job[k].token].pc = "done"
      BY <1>1, <3>1 DEF LengthInv, Downloads, DownloadKnows, At
    <3>3. (k \notin disturbed /\ job[k].name \notin harmed /\ disk[job[k].token] \in Requests)
            => job[k].size = job'[disk[job[k].token]].size
      BY <1>3, <3>1 DEF LengthInv, Downloads, DownloadKnows, BodiesWritten
    <3>4. \A q \in Requests :
            LookedUp(q)' /\ job'[q].token = job[k].token => job'[q].name = job[k].name
      BY <1>1, <1>4, <3>1 DEF LengthInv, Downloads, DownloadKnows
    <3>5. k \notin disturbed => \A q \in Requests : ~(Writing(q)' /\ job'[q].token = job[k].token)
      BY <1>1, <1>4, <3>1 DEF LengthInv, Downloads, DownloadKnows
    <3> QED
      BY <1>2, <3>1, <3>2, <3>3, <3>4, <3>5 DEF LengthInv, Downloads, DownloadKnows, At
  <2> QED
    BY <2>1, <2>2
<1> QED
  BY <1>5, <1>7 DEF LengthInv

\* It is answered with the size it read and the bytes that are there now.
LEMMA ServeFileLength ==
  ASSUME LengthInv, IInv', NEW r \in Requests, serve_file(r)
  PROVE  LengthInv'
<1>1. /\ job[r].pc = "reading" /\ job[r].token \in Requests
      /\ job'[r].pc = "done" /\ job'[r].body = disk[job[r].token]
      /\ job'[r].size = job[r].size /\ job'[r].name = job[r].name
      /\ \A q \in Requests \ {r} : job'[q] = job[q]
      /\ UNCHANGED <<rows, disk, harmed, damaged, disturbed>>
  BY DEF LengthInv, IInv, TypeOK, JobsOK, Served, serve_file, At, history
<1>2. \A u \in Requests : job[u].pc \in {"written", "orphaned", "done"} => job'[u] = job[u]
  BY <1>1
<1>3. \A q \in Requests : (LookedUp(q)' => LookedUp(q) /\ q # r) /\ (Writing(q)' => Writing(q) /\ q # r)
  BY <1>1 DEF LookedUp, Writing, At
<1>4. BodiesWritten' /\ WritesDamage' /\ TornEmpty' /\ RowSizes'
  BY <1>1, <1>2, <1>3, TokensKnown
     DEF LengthInv, BodiesWritten, WritesDamage, TornEmpty, RowSizes, At
<1>5. LengthIsBodys'
  <2> SUFFICES ASSUME NEW k \in Requests \ disturbed, job'[k].body \in Requests,
                      job'[k].name \notin harmed
               PROVE  job'[k].size = job'[job'[k].body].size
    BY <1>1 DEF LengthIsBodys
  <2>1. CASE k = r
    BY <1>1, <1>2, <2>1 DEF LengthInv, Downloads, DownloadKnows, BodiesWritten, At
  <2>2. CASE k # r
    BY <1>1, <1>2, <2>2 DEF LengthInv, LengthIsBodys, BodiesWritten
  <2> QED
    BY <2>1, <2>2
<1>6. Downloads'
  <2> SUFFICES ASSUME NEW k \in Requests, At(k, "reading")'
               PROVE  DownloadKnows(k)'
    BY DEF Downloads
  <2>1. k # r /\ job'[k] = job[k] /\ At(k, "reading") /\ job[k].token \in Requests
    BY <1>1, TokensKnown DEF At, LengthInv, Served
  <2>2. job'[job[k].token].pc = "done"
    BY <1>1, <2>1 DEF LengthInv, Downloads, DownloadKnows, At
  <2>3. (k \notin disturbed /\ job[k].name \notin harmed /\ disk[job[k].token] \in Requests)
          => job[k].size = job'[disk[job[k].token]].size
    BY <1>2, <2>1 DEF LengthInv, Downloads, DownloadKnows, BodiesWritten
  <2> QED
    BY <1>1, <1>3, <2>1, <2>2, <2>3 DEF LengthInv, Downloads, DownloadKnows, At
<1> QED
  BY <1>4, <1>5, <1>6 DEF LengthInv

\* A restart ends every request; sizes of what was written stay known.
LEMMA RestartLength ==
  ASSUME LengthInv, IInv', Restart
  PROVE  LengthInv'
<1>1. /\ UNCHANGED <<rows, disk, harmed, damaged, disturbed>>
      /\ \A q \in Requests :
           \/ job'[q] = job[q] /\ At(q, "idle")
           \/ job'[q].pc = "done" /\ job'[q].size = job[q].size /\ job'[q].body = None
  BY DEF LengthInv, IInv, TypeOK, Restart, Over, NoJob, At, history
<1>2. \A u \in Requests : job[u].pc \in {"written", "orphaned", "done"} =>
        job'[u].pc \in {"written", "orphaned", "done"} /\ job'[u].size = job[u].size
  BY <1>1 DEF At
<1>3. \A q \in Requests : ~Writing(q)' /\ ~At(q, "reading")' /\ ~At(q, "torn")'
  BY <1>1 DEF Writing, At
<1> QED
  BY <1>1, <1>2, <1>3, TokensKnown, WebDavAssumption
     DEF LengthInv, BodiesWritten, WritesDamage, TornEmpty, RowSizes, LengthIsBodys,
         Downloads, At

\* The quiet steps of uploads and deletions.
LEMMA QuietStepsLength ==
  ASSUME LengthInv, IInv', NEW r \in Requests,
         \/ \E n \in Names, s \in Sizes : Receive(r, n, s)
         \/ TakeQuotaLock(r) \/ CheckQuota(r) \/ WriteFails(r) \/ UpsertFails(r) \/ RemoveFile(r)
         \/ \E n \in Names : PickRow(r, n)
         \/ ~At(r, "done") /\ Finish(r) /\ UNCHANGED <<rows, disk, history>>
         \/ (~At(r, "done") /\ ~At(r, "written") /\ ~At(r, "orphaned") /\ \E n \in Names : RemoveRow(r, n))
  PROVE  LengthInv'
<1>1. job \in [Requests -> Job] /\ disk \in [Requests -> Requests \cup {Absent, Torn}]
      /\ rows \in [Names -> Row \cup {NoRow}]
  BY DEF LengthInv, IInv, TypeOK, Job
<1>2. ~At(r, "done") => job[r].body \notin Requests
  BY DEF LengthInv, BodiesWritten
<1>3. /\ ~At(r, "done")
      /\ \A q \in Requests \ {r} : job'[q] = job[q]
      /\ job'[r].pc \notin {"found", "torn", "written", "orphaned", "reading"}
      /\ job'[r].body \notin Requests
      /\ At(r, "written") \/ At(r, "orphaned") => job'[r].pc = "done" /\ job'[r].size = job[r].size
  <2>0. None \notin Requests
    BY WebDavAssumption
  <2>1. CASE \E n \in Names, s \in Sizes : Receive(r, n, s)
    <3>1. /\ At(r, "idle") /\ job'[r].pc = "queued" /\ job'[r].body = None
          /\ \A q \in Requests \ {r} : job'[q] = job[q]
      BY <1>1, <2>1 DEF Receive, NoJob
    <3> QED
      BY <2>0, <3>1 DEF At
  <2>2. CASE TakeQuotaLock(r)
    BY <1>1, <1>2, <2>2 DEF TakeQuotaLock, At, Move, Job
  <2>3. CASE Finish(r) /\ ~At(r, "done")
    BY <1>1, <2>3, WebDavAssumption DEF Finish, Over, NoJob
  <2>4. CASE CheckQuota(r)
    BY <1>1, <1>2, <2>3, <2>4 DEF CheckQuota, At, Move, Job
  <2>5. CASE \E n \in Names : PickRow(r, n)
    <3>1. /\ At(r, "idle") /\ job'[r].pc = "picked" /\ job'[r].body = None
          /\ \A q \in Requests \ {r} : job'[q] = job[q]
      BY <1>1, <2>5 DEF PickRow, NoJob
    <3> QED
      BY <2>0, <3>1 DEF At
  <2>6. CASE ~At(r, "done") /\ ~At(r, "written") /\ ~At(r, "orphaned") /\ \E n \in Names : RemoveRow(r, n)
    <3>0. PICK n \in Names : RemoveRow(r, n)
      BY <2>6
    <3>1. /\ job'[r].pc = "unlink" /\ job'[r].body = None
          /\ \A q \in Requests \ {r} : job'[q] = job[q]
      <4>1. job' = [job EXCEPT ![r] = [NoJob EXCEPT !.pc = "unlink", !.name = n,
                                                   !.token = rows[n].token]]
        BY <3>0 DEF RemoveRow
      <4> QED
        BY <1>1, <4>1 DEF NoJob
    <3> QED
      BY <2>0, <2>6, <3>1
  <2> QED
    BY <2>1, <2>2, <2>3, <2>4, <2>5, <2>6
       DEF WriteFails, UpsertFails, Orphaned, RemoveFile, At
<1>4. \A n \in Names : rows'[n] \in {rows[n], NoRow}
  BY <1>1 DEF Receive, TakeQuotaLock, CheckQuota, WriteFails, UpsertFails, RemoveFile, PickRow,
              RemoveRow
<1>5. \A t \in Requests : disk'[t] = disk[t] \/ disk'[t] \notin Requests
  BY <1>1, WebDavAssumption
     DEF Receive, TakeQuotaLock, CheckQuota, WriteFails, UpsertFails, RemoveFile, PickRow, RemoveRow
<1>6. harmed \subseteq harmed' /\ damaged' = damaged /\ disturbed' = disturbed
  BY DEF Receive, TakeQuotaLock, CheckQuota, WriteFails, UpsertFails, RemoveFile, PickRow,
         RemoveRow, history
<1> QED
  BY <1>3, <1>4, <1>5, <1>6, QuietLength

LEMMA LengthNext == LengthInv /\ [Next]_vars => LengthInv'
<1> SUFFICES ASSUME LengthInv, [Next]_vars PROVE LengthInv'
  OBVIOUS
<1>0. IInv'
  BY StepInv DEF LengthInv
<1>1. CASE update_settings \/ LoseConnection \/ UNCHANGED vars
  BY <1>0, <1>1
     DEF update_settings, LoseConnection, vars, history, LengthInv, BodiesWritten, WritesDamage,
         TornEmpty, RowSizes, LengthIsBodys, Downloads, DownloadKnows, LookedUp, Writing, At
<1>2. CASE Restart
  BY <1>0, <1>2, RestartLength
<1>3. ASSUME NEW r \in Requests,
             \/ \E n \in Names, s \in Sizes : Put(r, n, s) \/ filelink_upload(r, n, s)
             \/ Upload(r)
      PROVE  LengthInv'
  BY <1>0, <1>3, QuietStepsLength, LookUpTokenLength, TruncateLength, WriteBytesLength,
     UpsertLength DEF Put, filelink_upload, Upload
<1>4. ASSUME NEW r \in Requests, NEW n \in Names,
             \/ Delete(r, n) \/ admin_delete_file(r, n)
             \/ filelink_delete(r, n) \/ Get(r, n) \/ filelink_download(r, n)
      PROVE  LengthInv'
  BY <1>0, <1>4, QuietStepsLength, FindRowLength
     DEF Delete, admin_delete_file, filelink_delete, Get, filelink_download, At
<1>5. ASSUME NEW r \in Requests, delete_webdav_file(r) PROVE LengthInv'
  <2>1. job[r].name \in Names /\ ~At(r, "done") /\ ~At(r, "written") /\ ~At(r, "orphaned")
    BY <1>5 DEF delete_webdav_file, At, LengthInv, IInv, JobsOK, Named
  <2> QED
    BY <1>0, <1>5, <2>1, QuietStepsLength DEF delete_webdav_file
<1>6. ASSUME NEW r \in Requests, RemoveFile(r) \/ serve_file(r) PROVE LengthInv'
  BY <1>0, <1>6, QuietStepsLength, ServeFileLength
<1>7. ASSUME NEW r \in Requests, ClientLeaves(r) PROVE LengthInv'
  <2>1. CASE At(r, "written") /\ Move(r, "orphaned")
    BY <1>0, <1>7, <2>1, OrphanLength DEF ClientLeaves, history
  <2>2. CASE ~At(r, "done") /\ Finish(r)
    BY <1>0, <1>7, <2>2, QuietStepsLength DEF ClientLeaves
  <2> QED BY <1>7, <2>1, <2>2 DEF ClientLeaves, At
<1> QED BY <1>1, <1>2, <1>3, <1>4, <1>5, <1>6, <1>7 DEF Next

\* The length a download is answered with is that of the body it gets, however
\* uploads, deletions and restarts interleave with it, unless an upload of its name
\* overlapped it or died half way (serve_file: size from the row, bytes from the disk).
THEOREM LengthsAgree == Spec => []LengthIsBodys
<1>1. LengthInv => LengthIsBodys
  BY DEF LengthInv
<1> QED BY LengthInit, LengthNext, <1>1, PTL DEF Spec

-----------------------------------------------------------------------------
(* Sums.  The bytes of the files S, of sizes w, counted one by one.        *)

Bytes(w, S) == MapThenSumSet(LAMBDA n : w[n].size, S)
Cells(w, S) == UNION {{n} \X (1..w[n].size) : n \in S}

\* The bytes of finitely many files are finitely many.
LEMMA CellsFinite ==
    ASSUME NEW w, NEW S, IsFiniteSet(S), \A n \in S : w[n].size \in Nat
    PROVE  IsFiniteSet(Cells(w, S)) /\ Cardinality(Cells(w, S)) \in Nat
<1> DEFINE of == [n \in S |-> {n} \X (1..w[n].size)]
<1> DEFINE T == {{n} \X (1..w[n].size) : n \in S}
<1>1. of \in Surjection(S, T)
  BY DEF Surjection
<1>2. IsFiniteSet(T)
  BY <1>1, FS_Surjection
<1>3. ASSUME NEW n \in S PROVE IsFiniteSet({n} \X (1..w[n].size))
  <2>1. w[n].size \in Int
    BY <1>3
  <2>2. IsFiniteSet(1..w[n].size)
    BY <2>1, FS_Interval
  <2>3. IsFiniteSet({n})
    BY FS_Singleton
  <2> QED BY <2>2, <2>3, FS_Product
<1>4. IsFiniteSet(UNION T)
  BY <1>2, <1>3, FS_UNION
<1> QED BY <1>4, FS_CardinalityType DEF Cells

\* A file's bytes are as many as its size says.
LEMMA FileCells ==
    ASSUME NEW x, NEW k \in Nat
    PROVE  IsFiniteSet({x} \X (1..k)) /\ Cardinality({x} \X (1..k)) = k
<1>1. IsFiniteSet({x}) /\ Cardinality({x}) = 1
  BY FS_Singleton
<1>2. IsFiniteSet(1..k) /\ Cardinality(1..k) = k
  <2>1. 1 \in Int /\ k \in Int /\ (1 > k => k = 0)
    OBVIOUS
  <2>2. IsFiniteSet(1..k) /\ Cardinality(1..k) = IF 1 > k THEN 0 ELSE k - 1 + 1
    BY <2>1, FS_Interval
  <2> QED BY <2>1, <2>2
<1>3. IsFiniteSet({x} \X (1..k)) /\ Cardinality({x} \X (1..k)) = 1 * Cardinality(1..k)
  BY <1>1, <1>2, FS_Product
<1> QED BY <1>2, <1>3

\* One file more adds its size.
LEMMA CellsAdd ==
    ASSUME NEW w, NEW S, IsFiniteSet(S), \A n \in S : w[n].size \in Nat,
           NEW x \in S
    PROVE  Cardinality(Cells(w, S)) = w[x].size + Cardinality(Cells(w, S \ {x}))
<1> DEFINE one == {x} \X (1..w[x].size)
<1> DEFINE rest == Cells(w, S \ {x})
<1>1. IsFiniteSet(one) /\ Cardinality(one) = w[x].size
  BY FileCells
<1>2. IsFiniteSet(rest) /\ Cardinality(rest) \in Nat
  <2>1. IsFiniteSet(S \ {x})
    BY FS_RemoveElement
  <2> QED BY <2>1, CellsFinite
<1>3. Cells(w, S) = one \cup rest
  BY DEF Cells
<1>4. one \cap rest = {}
  BY DEF Cells
<1> HIDE DEF one, rest
<1>5. Cardinality(one \cup rest) = Cardinality(one) + Cardinality(rest) - Cardinality(one \cap rest)
  BY <1>1, <1>2, FS_Union
<1>6. Cardinality(one \cap rest) = 0
  BY <1>4, FS_EmptySet
<1> QED BY <1>1, <1>2, <1>3, <1>5, <1>6 DEF rest

\* The sum unfolds by its chosen elements.
Unfolds(f, w, S) ==
    f = [s \in SUBSET S |-> IF s = {} THEN 0
                            ELSE w[CHOOSE x \in s : TRUE].size + f[s \ {CHOOSE x \in s : TRUE}]]

LEMMA BytesIsFold ==
    ASSUME NEW w, NEW S
    PROVE  Bytes(w, S) = (CHOOSE f : Unfolds(f, w, S))[S]
BY DEF Bytes, MapThenSumSet, MapThenFoldSet, Unfolds

LEMMA BytesCounted ==
    ASSUME NEW w, NEW S, IsFiniteSet(S), \A n \in S : w[n].size \in Nat
    PROVE  Bytes(w, S) = Cardinality(Cells(w, S))
<1> DEFINE f == [s \in SUBSET S |-> Cardinality(Cells(w, s))]
<1> DEFINE g == CHOOSE h : Unfolds(h, w, S)
<1>1. ASSUME NEW s \in SUBSET S
      PROVE  /\ IsFiniteSet(s)
             /\ \A n \in s : w[n].size \in Nat
             /\ s # {} => (CHOOSE x \in s : TRUE) \in s
  BY <1>1, FS_Subset
<1>2. f[{}] = 0
  <2>1. Cells(w, {}) = {}
    BY DEF Cells
  <2> QED BY <2>1, FS_EmptySet
<1>3. ASSUME NEW s \in SUBSET S, NEW x \in s
      PROVE  s \ {x} \in SUBSET S /\ f[s] = w[x].size + f[s \ {x}]
  BY <1>1, <1>3, CellsAdd
<1>4. \A s \in SUBSET S :
        f[s] = IF s = {} THEN 0
               ELSE w[CHOOSE x \in s : TRUE].size + f[s \ {CHOOSE x \in s : TRUE}]
  BY <1>1, <1>2, <1>3
<1>5. f = [s \in SUBSET S |-> f[s]]
  OBVIOUS
<1> HIDE DEF f
<1>6. Unfolds(f, w, S)
  BY <1>4, <1>5 DEF Unfolds
<1>7. Unfolds(g, w, S)
  BY <1>6
<1> HIDE DEF g
<1>8. \A s \in SUBSET S :
        g[s] = IF s = {} THEN 0
               ELSE w[CHOOSE x \in s : TRUE].size + g[s \ {CHOOSE x \in s : TRUE}]
  BY <1>7 DEF Unfolds
<1> DEFINE Wrong == {s \in SUBSET S : g[s] # f[s]}
<1>9. Wrong = {}
  <2> SUFFICES ASSUME Wrong # {} PROVE FALSE
    OBVIOUS
  <2>1. IsWellFoundedOn(StrictSubsetOrdering(S), SUBSET S)
    BY FS_StrictSubsetOrderingWellFounded, FS_FiniteSubsetsOfFinite
  <2>2. PICK s \in Wrong : \A u \in Wrong : ~(<<u, s>> \in StrictSubsetOrdering(S))
    <3>1. Wrong \subseteq SUBSET S
      OBVIOUS
    <3> HIDE DEF Wrong
    <3> QED BY <2>1, <3>1, WFMin
  <2>3. s \in SUBSET S /\ g[s] # f[s]
    OBVIOUS
  <2>4. s # {}
    BY <1>2, <1>8, <2>3
  <2> DEFINE x == CHOOSE x \in s : TRUE
  <2>5. x \in s /\ g[s] = w[x].size + g[s \ {x}]
    BY <1>1, <1>8, <2>3, <2>4
  <2> HIDE DEF x
  <2>6. s \ {x} \in SUBSET S /\ f[s] = w[x].size + f[s \ {x}]
    BY <1>3, <2>3, <2>5
  <2>7. g[s \ {x}] # f[s \ {x}]
    BY <2>3, <2>5, <2>6
  <2>8. <<s \ {x}, s>> \in StrictSubsetOrdering(S)
    BY <2>3, <2>5, <2>6 DEF StrictSubsetOrdering
  <2> QED BY <2>2, <2>6, <2>7, <2>8
<1>10. S \in SUBSET S /\ g[S] = f[S]
  BY <1>9
<1> QED BY <1>10, BytesIsFold DEF f, g
-----------------------------------------------------------------------------
(* The quota.  Between its check and its upsert an upload holds the lock,  *)
(* so an owner's usage can only fall; one that lost it with its handler is *)
(* recorded as overtaken when another row of the owner arrives.            *)

\* Steps of an upload whose quota was checked.
Passed == {"checked", "found", "torn", "written", "orphaned"}
StoredRows == {n \in Names : rows[n] # NoRow}
FewRows == IsFiniteSet(StoredRows)

\* What was checked stays so. A check without the database answers 0, but such an
\* upload cannot commit: the connection comes back with a restart alone.
QuotaRoom ==
    \A r \in Requests \ overtaken, n \in Names :
        dbUp /\ job[r].pc \in Passed /\ job[r].name = n /\ job[r].quota > 0
          => Usage(Owner[n]) + job[r].size <= job[r].quota

QuotaInv == IInv /\ FewRows /\ QuotaRoom

LEMMA QuotaInit == Init => QuotaInv
<1> SUFFICES ASSUME Init PROVE QuotaInv
  OBVIOUS
<1>1. StoredRows = {} /\ \A r \in Requests : job[r].pc = "idle"
  BY DEF Init, NoJob, StoredRows
<1> QED
  BY <1>1, InitInv, FS_EmptySet DEF QuotaInv, FewRows, QuotaRoom, Passed

\* An owner's usage counts the bytes of its files.
LEMMA UsageCounted ==
  IInv /\ FewRows =>
    \A o : /\ Usage(o) = Cardinality(Cells(rows, OwnedBy(o)))
           /\ IsFiniteSet(Cells(rows, OwnedBy(o))) /\ Usage(o) \in Nat
<1> SUFFICES ASSUME IInv, FewRows, NEW o
             PROVE  /\ Usage(o) = Cardinality(Cells(rows, OwnedBy(o)))
                    /\ IsFiniteSet(Cells(rows, OwnedBy(o))) /\ Usage(o) \in Nat
  OBVIOUS
<1>1. IsFiniteSet(OwnedBy(o))
  <2>1. OwnedBy(o) \in SUBSET StoredRows
    BY DEF OwnedBy, StoredRows
  <2> QED BY <2>1, FS_Subset DEF FewRows
<1>2. \A n \in OwnedBy(o) : rows[n].size \in Nat
  BY WebDavAssumption DEF IInv, TypeOK, Row, OwnedBy
<1>3. Usage(o) = Bytes(rows, OwnedBy(o))
  BY DEF Usage, Bytes
<1>4. Bytes(rows, OwnedBy(o)) = Cardinality(Cells(rows, OwnedBy(o)))
  BY <1>1, <1>2, BytesCounted
<1>5. IsFiniteSet(Cells(rows, OwnedBy(o))) /\ Cardinality(Cells(rows, OwnedBy(o))) \in Nat
  BY <1>1, <1>2, CellsFinite
<1> QED BY <1>3, <1>4, <1>5

LEMMA UsageCountedNext ==
  IInv' /\ FewRows' =>
    \A o : /\ Usage(o)' = Cardinality(Cells(rows, OwnedBy(o))')
           /\ IsFiniteSet(Cells(rows, OwnedBy(o))') /\ Usage(o)' \in Nat
<1> SUFFICES ASSUME IInv', FewRows', NEW o
             PROVE  /\ Usage(o)' = Cardinality(Cells(rows, OwnedBy(o))')
                    /\ IsFiniteSet(Cells(rows, OwnedBy(o))') /\ Usage(o)' \in Nat
  OBVIOUS
<1> DEFINE S == {n \in Names : rows'[n] # NoRow /\ Owner[n] = o}
<1>1. IsFiniteSet(S)
  <2>1. S \in SUBSET StoredRows'
    BY DEF StoredRows, NoRow
  <2> QED BY <2>1, FS_Subset DEF FewRows
<1>2. \A n \in S : rows'[n].size \in Nat
  BY WebDavAssumption DEF IInv, TypeOK, Row
<1>3. Usage(o)' = Bytes(rows', S)
  BY DEF Usage, Bytes, OwnedBy, MapThenSumSet, MapThenFoldSet, NoRow
<1>4. Bytes(rows', S) = Cardinality(Cells(rows', S))
  BY <1>1, <1>2, BytesCounted
<1>5. IsFiniteSet(Cells(rows', S)) /\ Cardinality(Cells(rows', S)) \in Nat
  BY <1>1, <1>2, CellsFinite
<1>6. Cells(rows, OwnedBy(o))' = Cells(rows', S)
  BY DEF Cells, OwnedBy, NoRow
<1> QED BY <1>3, <1>4, <1>5, <1>6

\* Rows that go take their bytes with them.
LEMMA UsageFalls ==
  ASSUME IInv, IInv', FewRows, \A n \in Names : rows'[n] \in {rows[n], NoRow}
  PROVE  FewRows' /\ \A o : Usage(o) \in Nat /\ Usage(o)' \in Nat /\ Usage(o)' <= Usage(o)
<1>1. FewRows'
  <2>1. StoredRows' \in SUBSET StoredRows
    BY DEF StoredRows, NoRow
  <2> QED BY <2>1, FS_Subset DEF FewRows
<1>2. ASSUME NEW o
      PROVE  Usage(o) \in Nat /\ Usage(o)' \in Nat /\ Usage(o)' <= Usage(o)
  <2>1. Cells(rows, OwnedBy(o))' \in SUBSET Cells(rows, OwnedBy(o))
    BY DEF Cells, OwnedBy
  <2>2. Cardinality(Cells(rows, OwnedBy(o))') <= Cardinality(Cells(rows, OwnedBy(o)))
    BY <2>1, UsageCounted, FS_Subset
  <2> QED BY <1>1, <2>2, UsageCounted, UsageCountedNext
<1> QED BY <1>1, <1>2

\* No upload commits, and none is granted.
LEMMA QuietQuota ==
  ASSUME QuotaInv, IInv', UNCHANGED overtaken, \A n \in Names : rows'[n] \in {rows[n], NoRow},
         \A r \in Requests : dbUp' /\ job'[r].pc \in Passed =>
             /\ dbUp /\ job[r].pc \in Passed
             /\ job'[r].name = job[r].name /\ job'[r].size = job[r].size
             /\ job'[r].quota = job[r].quota
  PROVE  QuotaInv'
<1>1. FewRows' /\ \A o : Usage(o) \in Nat /\ Usage(o)' \in Nat /\ Usage(o)' <= Usage(o)
  BY UsageFalls DEF QuotaInv
<1>2. ASSUME NEW r \in Requests \ overtaken, NEW n \in Names,
             dbUp', job'[r].pc \in Passed, job'[r].name = n, job'[r].quota > 0
      PROVE  Usage(Owner[n])' + job'[r].size <= job'[r].quota
  <2>1. job[r].size \in Int /\ job[r].quota \in Int
    BY WebDavAssumption DEF QuotaInv, IInv, TypeOK
  <2>2. Usage(Owner[n]) + job[r].size <= job[r].quota
    BY <1>2 DEF QuotaInv, QuotaRoom
  <2> QED BY <1>1, <1>2, <2>1, <2>2
<1>3. QuotaRoom'
  BY <1>2 DEF QuotaRoom
<1> QED BY <1>1, <1>3 DEF QuotaInv

\* What passed the check and a row of the owner did not overtake is another owner's.
LEMMA OthersRoom ==
  ASSUME IInv, NEW r \in Requests, upsert_webdav_file(r),
         NEW q \in Requests \ {r}, job[q].pc \in Passed, q \notin overtaken'
  PROVE  Owner[job[q].name] # Owner[job[r].name]
<1>1. q \notin Overtakes(r) /\ (At(r, "written") \/ Orphaned(r))
  BY DEF upsert_webdav_file
<1>2. Orphaned(q) \/ Granted(q)
  BY DEF Passed, Orphaned, Granted, Writing, At
<1>3. At(r, "written") => ~Granted(q)
  BY DEF IInv, Exclusive, Locked, Granted, Writing, At
<1> QED BY <1>1, <1>2, <1>3 DEF Overtakes

LEMMA CheckQuotaRoom ==
  ASSUME QuotaInv, IInv', NEW r \in Requests, CheckQuota(r)
  PROVE  QuotaInv'
<1>1. /\ job[r].pc = "locked" /\ UNCHANGED <<dbUp, rows>> /\ job \in [Requests -> Job]
      /\ IF OverQuota(r) THEN Finish(r) ELSE Move(r, "checked")
  BY DEF CheckQuota, At, QuotaInv, IInv, TypeOK, Job
<1>0. overtaken' = overtaken
  BY DEF CheckQuota, history
<1>2. CASE OverQuota(r)
  <2>1. job'[r].pc = "done" /\ \A q \in Requests \ {r} : job'[q] = job[q]
    BY <1>1, <1>2 DEF Finish, Over, NoJob
  <2>2. job'[r].pc \notin Passed
    BY <2>1 DEF Passed
  <2> QED BY <1>0, <1>1, <2>1, <2>2, QuietQuota
<1>3. CASE ~OverQuota(r)
  <2>1. /\ job'[r].quota = job[r].quota /\ job'[r].size = job[r].size
        /\ job'[r].name = job[r].name
        /\ \A q \in Requests \ {r} : job'[q] = job[q]
    BY <1>1, <1>3 DEF Move, Job
  <2>2. StoredRows' = StoredRows /\ \A o : Usage(o)' = Usage(o)
    BY <1>1 DEF StoredRows, Usage, OwnedBy, MapThenSumSet, MapThenFoldSet
  <2>3. ASSUME NEW q \in Requests \ overtaken, NEW n \in Names,
               dbUp', job'[q].pc \in Passed, job'[q].name = n, job'[q].quota > 0
        PROVE  Usage(Owner[n])' + job'[q].size <= job'[q].quota
    <3>1. CASE q = r
      <4>1. ~(Usage(Owner[n]) + job[r].size > job[r].quota)
        BY <1>1, <1>3, <2>1, <2>3, <3>1 DEF OverQuota, count_webdav_usage_for_owner
      <4>2. Usage(Owner[n]) \in Nat /\ job[r].size \in Int /\ job[r].quota \in Int
        BY WebDavAssumption, UsageCounted DEF QuotaInv, IInv, TypeOK
      <4> QED BY <2>1, <2>2, <3>1, <4>1, <4>2
    <3>2. CASE q # r
      BY <1>1, <2>1, <2>2, <2>3, <3>2 DEF QuotaInv, QuotaRoom
    <3> QED BY <3>1, <3>2
  <2> QED BY <1>0, <2>2, <2>3 DEF QuotaInv, FewRows, QuotaRoom
<1> QED BY <1>2, <1>3

\* The upsert adds the upload's bytes to its owner's, and may take old ones away.
LEMMA UpsertQuota ==
  ASSUME QuotaInv, IInv', NEW r \in Requests, upsert_webdav_file(r),
         NEW n \in Names, job[r].name = n
  PROVE  /\ QuotaInv'
         /\ r \notin overtaken /\ job[r].quota > 0 => Usage(Owner[n])' <= job[r].quota
<1> DEFINE o == Owner[n]
<1> DEFINE mine == {n} \X (1..job[r].size)
<1>1. /\ job[r].pc \in {"written", "orphaned"} /\ dbUp /\ job[r].size \in Nat
      /\ job[r].quota \in Nat
  BY WebDavAssumption
     DEF upsert_webdav_file, At, Orphaned, QuotaInv, IInv, TypeOK, JobsOK, Named, Served, Locked,
         Writing
<1>2. /\ rows'[n] = Upserted(r) /\ rows'[n].size = job[r].size
      /\ \A m \in Names \ {n} : rows'[m] = rows[m]
  BY <1>1 DEF upsert_webdav_file, QuotaInv, IInv, TypeOK, Upserted
<1>3. job'[r].pc = "done" /\ \A q \in Requests \ {r} : job'[q] = job[q]
  BY DEF upsert_webdav_file, Finish, Over, NoJob, QuotaInv, IInv, TypeOK
<1>4. FewRows'
  <2>1. IsFiniteSet(StoredRows \cup {n})
    BY FS_AddElement DEF QuotaInv, FewRows
  <2>2. StoredRows' \in SUBSET (StoredRows \cup {n})
    BY <1>2 DEF StoredRows
  <2> QED BY <2>1, <2>2, FS_Subset DEF FewRows
<1>5. QuotaRoom'
  <2> SUFFICES ASSUME NEW q \in Requests \ overtaken', NEW m \in Names, job'[q].pc \in Passed,
                      job'[q].name = m, job'[q].quota > 0
               PROVE  Usage(Owner[m])' + job'[q].size <= job'[q].quota
    BY DEF QuotaRoom
  <2>1. q # r /\ job'[q] = job[q] /\ q \notin overtaken
    BY <1>3 DEF Passed, upsert_webdav_file
  <2>2. Owner[m] # o
    BY <2>1, OthersRoom DEF QuotaInv
  <2>3. OwnedBy(Owner[m])' = OwnedBy(Owner[m]) /\ n \notin OwnedBy(Owner[m])
    BY <1>2, <2>2 DEF OwnedBy
  <2>4. Cells(rows, OwnedBy(Owner[m]))' = Cells(rows, OwnedBy(Owner[m]))
    BY <1>2, <2>3 DEF Cells, OwnedBy
  <2>5. Usage(Owner[m])' = Usage(Owner[m])
    BY <1>4, <2>4, UsageCounted, UsageCountedNext DEF QuotaInv
  <2> QED BY <1>1, <2>1, <2>5 DEF QuotaInv, QuotaRoom
<1>6. ASSUME job[r].quota > 0, r \notin overtaken
      PROVE  Usage(o)' <= job[r].quota
  <2>1. Usage(o) + job[r].size <= job[r].quota
    BY <1>1, <1>6 DEF QuotaInv, QuotaRoom, Passed
  <2>2. IsFiniteSet(mine) /\ Cardinality(mine) = job[r].size
    BY <1>1, FileCells
  <2>3. Usage(o) \in Nat /\ Usage(o)' \in Nat /\ Usage(o)' <= Usage(o) + job[r].size
    <3> DEFINE had == Cells(rows, OwnedBy(o))
    <3> DEFINE has == Cells(rows, OwnedBy(o))'
    <3>1. IsFiniteSet(had) /\ Usage(o) = Cardinality(had) /\ Usage(o) \in Nat
      BY UsageCounted DEF QuotaInv
    <3>2. Usage(o)' = Cardinality(has) /\ Usage(o)' \in Nat
      BY <1>4, UsageCountedNext
    <3>3. ASSUME NEW m \in OwnedBy(o)', NEW c \in {m} \X (1..rows'[m].size)
          PROVE  c \in had \cup mine
      <4>1. CASE m = n
        BY <1>2, <3>3, <4>1
      <4>2. CASE m # n
        <5>1. rows'[m] = rows[m] /\ m \in OwnedBy(o)
          BY <1>2, <3>3, <4>2 DEF OwnedBy
        <5> QED BY <3>3, <5>1 DEF Cells
      <4> QED BY <4>1, <4>2
    <3>4. has \in SUBSET (had \cup mine)
      BY <3>3 DEF Cells
    <3> HIDE DEF had, has, mine
    <3>5. /\ IsFiniteSet(had \cup mine)
          /\ Cardinality(had \cup mine)
               = Cardinality(had) + Cardinality(mine) - Cardinality(had \cap mine)
      BY <2>2, <3>1, FS_Union
    <3>6. Cardinality(had \cap mine) \in Nat
      BY <3>1, FS_Intersection, FS_CardinalityType
    <3>7. Cardinality(has) <= Cardinality(had \cup mine)
      BY <3>4, <3>5, FS_Subset
    <3> QED BY <1>1, <2>2, <3>1, <3>2, <3>5, <3>6, <3>7
  <2> QED
    BY <1>1, <2>1, <2>3
<1> QED BY <1>4, <1>5, <1>6 DEF QuotaInv

LEMMA QuotaNext == QuotaInv /\ [Next]_vars => QuotaInv'
<1> SUFFICES ASSUME QuotaInv, [Next]_vars PROVE QuotaInv'
  OBVIOUS
<1>0. IInv /\ IInv' /\ job \in [Requests -> Job] /\ rows \in [Names -> Row \cup {NoRow}]
  BY StepInv DEF QuotaInv, IInv, TypeOK, Job
<1>1. ASSUME UNCHANGED <<rows, overtaken>>, dbUp' => dbUp, UNCHANGED job PROVE QuotaInv'
  BY <1>0, <1>1, QuietQuota
<1>2. CASE update_settings \/ LoseConnection \/ UNCHANGED vars
  <2>1. rows' = rows /\ job' = job /\ overtaken' = overtaken
    BY <1>2 DEF update_settings, LoseConnection, vars, history
  <2>2. CASE LoseConnection
    <3>1. dbUp' = FALSE
      BY <2>2 DEF LoseConnection
    <3> QED BY <1>1, <2>1, <3>1
  <2>3. CASE update_settings \/ UNCHANGED vars
    <3>1. dbUp' = dbUp
      BY <2>3 DEF update_settings, vars
    <3> QED BY <1>1, <2>1, <3>1
  <2> QED BY <1>2, <2>2, <2>3
<1>3. CASE Restart
  <2>1. UNCHANGED <<rows, overtaken>> /\ \A q \in Requests : job'[q].pc \in {"idle", "done"}
    BY <1>0, <1>3 DEF Restart, Over, NoJob, At, history
  <2> QED BY <1>0, <2>1, QuietQuota DEF Passed
\* One request moves to a step that is not granted, or goes on as it was granted.
<1>4. ASSUME NEW r \in Requests, UNCHANGED <<dbUp, overtaken>>,
             \A n \in Names : rows'[n] \in {rows[n], NoRow},
             \A q \in Requests \ {r} : job'[q] = job[q],
             \/ job'[r].pc \notin Passed
             \/ /\ job[r].pc \in Passed /\ job'[r].name = job[r].name
                /\ job'[r].size = job[r].size /\ job'[r].quota = job[r].quota
      PROVE  QuotaInv'
  BY <1>0, <1>4, QuietQuota
<1>5. ASSUME NEW r \in Requests, UNCHANGED <<dbUp, overtaken>>,
             \A n \in Names : rows'[n] \in {rows[n], NoRow},
             Finish(r)
      PROVE  QuotaInv'
  <2>1. job'[r].pc = "done" /\ \A q \in Requests \ {r} : job'[q] = job[q]
    BY <1>0, <1>5 DEF Finish, Over, NoJob
  <2> QED BY <1>4, <1>5, <2>1 DEF Passed
<1>6. ASSUME NEW r \in Requests, UNCHANGED <<dbUp, rows, overtaken>>, job[r].pc \in Passed,
             NEW step, job' = [job EXCEPT ![r].pc = step]
      PROVE  QuotaInv'
  BY <1>0, <1>4, <1>6 DEF Job
<1>7. ASSUME NEW r \in Requests, NEW n \in Names, RemoveRow(r, n) PROVE QuotaInv'
  <2>1. job' = [job EXCEPT ![r] = [NoJob EXCEPT !.pc = "unlink", !.name = n,
                                               !.token = rows[n].token]]
    BY <1>7 DEF RemoveRow
  <2>2. job'[r].pc = "unlink" /\ \A q \in Requests \ {r} : job'[q] = job[q]
    BY <1>0, <2>1 DEF NoJob
  <2>3. UNCHANGED <<dbUp, overtaken>> /\ \A m \in Names : rows'[m] \in {rows[m], NoRow}
    BY <1>0, <1>7 DEF RemoveRow
  <2> QED BY <1>4, <2>2, <2>3 DEF Passed
<1>8. ASSUME NEW r \in Requests, NEW n \in Names, NEW s \in Sizes, Receive(r, n, s)
      PROVE  QuotaInv'
  <2>1. UNCHANGED <<dbUp, rows, overtaken>> /\ job'[r].pc = "queued"
        /\ \A q \in Requests \ {r} : job'[q] = job[q]
    BY <1>0, <1>8 DEF Receive, NoJob, history
  <2> QED BY <1>4, <2>1 DEF Passed
<1>9. ASSUME NEW r \in Requests, Upload(r) PROVE QuotaInv'
  <2>1. CASE TakeQuotaLock(r)
    <3>1. UNCHANGED <<dbUp, rows, overtaken>> /\ job'[r].pc = "locked"
          /\ \A q \in Requests \ {r} : job'[q] = job[q]
      BY <1>0, <2>1 DEF TakeQuotaLock, Move, Job, history
    <3> QED BY <1>4, <3>1 DEF Passed
  <2>2. CASE CheckQuota(r)
    BY <1>0, <2>2, CheckQuotaRoom
  <2>3. CASE LookUpToken(r)
    <3>1. UNCHANGED <<dbUp, rows, overtaken>> /\ job[r].pc = "checked"
          /\ job'[r].name = job[r].name /\ job'[r].size = job[r].size
          /\ job'[r].quota = job[r].quota /\ \A q \in Requests \ {r} : job'[q] = job[q]
      BY <1>0, <2>3 DEF LookUpToken, At, Job, history
    <3> QED BY <1>4, <3>1 DEF Passed
  <2>4. CASE Truncate(r) \/ WriteBytes(r)
    BY <1>6, <2>4 DEF Truncate, WriteBytes, Move, At, Passed, history
  <2>5. CASE WriteFails(r) \/ UpsertFails(r)
    BY <1>5, <2>5 DEF WriteFails, UpsertFails, history
  <2>6. CASE upsert_webdav_file(r)
    <3>1. job[r].name \in Names
      BY <1>0, <2>6 DEF upsert_webdav_file, Orphaned, At, IInv, JobsOK, Named, Served
    <3> QED BY <1>0, <2>6, <3>1, UpsertQuota
  <2> QED BY <1>9, <2>1, <2>2, <2>3, <2>4, <2>5, <2>6 DEF Upload
<1>10. ASSUME NEW r \in Requests, NEW n \in Names, PickRow(r, n) PROVE QuotaInv'
  <2>1. UNCHANGED <<dbUp, rows, overtaken>> /\ job'[r].pc = "picked"
        /\ \A q \in Requests \ {r} : job'[q] = job[q]
    BY <1>0, <1>10 DEF PickRow, NoJob, history
  <2> QED BY <1>4, <2>1 DEF Passed
<1>11. ASSUME NEW r \in Requests, NEW n \in Names, FindRow(r, n) PROVE QuotaInv'
  <2>1. UNCHANGED <<dbUp, rows, overtaken>> /\ job'[r].pc = "reading"
        /\ \A q \in Requests \ {r} : job'[q] = job[q]
    BY <1>0, <1>11 DEF FindRow, NoJob
  <2> QED BY <1>4, <2>1 DEF Passed
<1>12. ASSUME NEW r \in Requests, delete_webdav_file(r) PROVE QuotaInv'
  <2>1. job[r].name \in Names
    BY <1>0, <1>12 DEF delete_webdav_file, At, IInv, JobsOK, Named
  <2> QED BY <1>5, <1>7, <1>12, <2>1 DEF delete_webdav_file, history
<1>13. ASSUME NEW r \in Requests, RemoveFile(r) PROVE QuotaInv'
  BY <1>5, <1>13 DEF RemoveFile, history
<1>14. ASSUME NEW r \in Requests, serve_file(r) PROVE QuotaInv'
  <2>1. UNCHANGED <<dbUp, rows, overtaken>> /\ job'[r].pc = "done"
        /\ \A q \in Requests \ {r} : job'[q] = job[q]
    BY <1>0, <1>14 DEF serve_file, Job, history
  <2> QED BY <1>4, <2>1 DEF Passed
<1>15. ASSUME NEW r \in Requests, NEW n \in Names,
              \/ Delete(r, n) \/ admin_delete_file(r, n)
              \/ filelink_delete(r, n) \/ Get(r, n) \/ filelink_download(r, n)
       PROVE  QuotaInv'
  BY <1>7, <1>10, <1>11, <1>15 DEF Delete, admin_delete_file, filelink_delete, Get, filelink_download
<1>16. ASSUME NEW r \in Requests, ClientLeaves(r) PROVE QuotaInv'
  BY <1>5, <1>6, <1>16 DEF ClientLeaves, Move, At, Passed, history
<1> QED
  BY <1>2, <1>3, <1>8, <1>9, <1>12, <1>13, <1>14, <1>15, <1>16 DEF Next, Put, filelink_upload

\* An upload that commits leaves its owner within the quota it was checked against,
\* for any number of requests, names and owners (dav_handler PUT and filelink_upload:
\* check, write and upsert under QUOTA_LOCK; deletions take no lock), unless it and
\* another of the owner passed the check together because a client left one of them
\* while its upsert was awaited.
THEOREM QuotaKept == Spec => QuotaHolds
<1>1. ASSUME QuotaInv, [Next]_vars, NEW r \in Requests \ overtaken, upsert_webdav_file(r),
             job[r].quota > 0
      PROVE  MapThenSumSet(LAMBDA n : rows'[n].size,
                           {n \in Names : rows'[n] # NoRow /\ Owner[n] = Owner[job[r].name]})
               <= job[r].quota
  <2>0. IInv'
    BY <1>1, StepInv DEF QuotaInv
  <2>1. PICK n \in Names : job[r].name = n
    BY <1>1 DEF upsert_webdav_file, Orphaned, At, QuotaInv, IInv, JobsOK, Named, Served
  <2>2. Usage(Owner[n])' <= job[r].quota
    BY <1>1, <2>0, <2>1, UpsertQuota
  <2>3. Usage(Owner[n])' = MapThenSumSet(LAMBDA m : rows'[m].size,
                             {m \in Names : rows'[m] # NoRow /\ Owner[m] = Owner[n]})
    BY DEF Usage, OwnedBy, MapThenSumSet, MapThenFoldSet
  <2> QED BY <2>1, <2>2, <2>3
<1>2. QuotaInv /\ [Next]_vars =>
        [\A r \in Requests \ overtaken :
          (upsert_webdav_file(r) /\ job[r].quota > 0)
            => MapThenSumSet(LAMBDA n : rows'[n].size,
                             {n \in Names : rows'[n] # NoRow /\ Owner[n] = Owner[job[r].name]})
                 <= job[r].quota]_vars
  BY <1>1
<1> QED BY QuotaInit, QuotaNext, <1>2, PTL DEF Spec, QuotaHolds
=============================================================================
