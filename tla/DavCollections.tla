--------------------------- MODULE DavCollections ---------------------------
(***************************************************************************)
(* CalDAV and CardDAV: the collections of one account (calendars, address  *)
(* books), their objects and ctags.  src/web/routes/caldav.rs and          *)
(* carddav.rs are one program written twice over two pairs of tables, so   *)
(* the steps are written once and each protocol's handlers are named after *)
(* its own functions; a behaviour is one protocol's.                       *)
(*                                                                         *)
(* Every database call is a step.  A handler looks its collection up by    *)
(* slug and goes on with the id; one whose client has left goes no further *)
(* (a write and the ctag after it are one closure, which goes on).         *)
(* Requests are made once, past the password check, with bodies within the *)
(* limit; an object's data is known by the request that put it, a ctag (a  *)
(* new UUID) by the request that set it.  One client follows a collection  *)
(* by its ctag.                                                            *)
(***************************************************************************)
EXTENDS Naturals, FiniteSets

CONSTANTS
    DavRequests,    \* requests past the password check
    Slugs,          \* slugs of paths, as the clients spell them
    Lower,          \* Lower[s]: the slug in lower case
    Files,
    Ids,            \* collection ids, from 1; never used again
    MAX_OBJECTS,    \* MAX_OBJECTS_PER_CALENDAR, MAX_OBJECTS_PER_ADDRESSBOOK
    MAX_COLLECTIONS,
    MaxDavFaults       \* bound: lost connections and restarts

Nil == "none"

ASSUME DavCollectionsAssumption ==
    /\ Nil \notin DavRequests \cup Slugs \cup Files
    /\ Lower \in [Slugs -> Slugs]
    /\ IsFiniteSet(Files)
    /\ Ids \subseteq Nat \ {0}
    /\ MAX_OBJECTS \in Nat

NoColl == [slug |-> Nil, ctag |-> Nil, objects |-> [f \in Files |-> Nil]]

VARIABLES
    protocol,  \* "caldav" or "carddav"
    cdbUp,      \* FALSE once the connection is lost
    cfaults,
    colls,     \* colls[i]: the collection of id i, NoColl if there is none
    used,      \* ids given out
    work,      \* work[r]: a request's step and what it has read
    client,    \* the following client: its step, and its copy of a collection
    \* History, read by properties alone:
    silent,    \* collections changed with no new ctag, or read over a lost connection
    touched,   \* requests whose collection changed after they checked the cap
    raced      \* collections such a request has stored into

cvars == <<protocol, cdbUp, cfaults, colls, used, work, client, silent, touched, raced>>

NoWork == [pc |-> "idle", id |-> 0, slug |-> Nil, file |-> Nil]
NoCopy == [pc |-> "idle", slug |-> Nil, id |-> 0, ctag |-> Nil, from |-> 0,
           objects |-> [f \in Files |-> Nil]]

CInit ==
    /\ protocol \in {"caldav", "carddav"}
    /\ cdbUp = TRUE
    /\ cfaults = 0
    /\ colls = [i \in Ids |-> NoColl]
    /\ used = 0
    /\ work = [r \in DavRequests |-> NoWork]
    /\ client = NoCopy
    /\ silent = {}
    /\ touched = {}
    /\ raced = {}

----------------------------------------------------------------------------
(* Queries: one that fails finds nothing.                                  *)

Live(i) == i \in Ids /\ colls[i] # NoColl
LiveIds == {i \in Ids : Live(i)}

get_by_slug(s) == IF cdbUp THEN {i \in LiveIds : colls[i].slug = s} ELSE {}
list_collections == IF cdbUp THEN LiveIds ELSE {}
\* The objects of a collection that is gone went with it (ON DELETE CASCADE).
list_objects(i) ==
    IF cdbUp /\ Live(i) THEN colls[i].objects ELSE [f \in Files |-> Nil]
Stored(objects) == {f \in Files : objects[f] # Nil}

Busy(r, step) == work[r].pc = step
Goto(r, step) == work' = [work EXCEPT ![r].pc = step]
Done(r) == work' = [work EXCEPT ![r] = [NoWork EXCEPT !.pc = "done"]]
Others == <<protocol, cdbUp, cfaults, client>>

\* Requests between the check of collection i's cap and their own store.
Checking(i) == {q \in DavRequests : work[q].id = i /\ work[q].pc \in {"count", "store"}}

----------------------------------------------------------------------------
(* Steps of the handlers, one per database call.                           *)

\* get_*_by_slug, with the slug as the path has it; 404 when there is none.
FindCollection(r, s, f, next) ==
    /\ Busy(r, "idle")
    /\ \E i \in get_by_slug(s) :
         work' = [work EXCEPT ![r] = [pc |-> next, id |-> i, slug |-> s, file |-> f]]
    /\ UNCHANGED <<Others, colls, used, silent, touched, raced>>

CheckExists(r) ==
    /\ Busy(r, "exists")
    /\ Goto(r, IF list_objects(work[r].id)[work[r].file] # Nil THEN "store" ELSE "count")
    /\ UNCHANGED <<Others, colls, used, silent, touched, raced>>

BugAtCap(i) == Cardinality(Stored(list_objects(i))) > MAX_OBJECTS
AtCap(i) == Cardinality(Stored(list_objects(i))) >= MAX_OBJECTS

CountObjects(r) ==
    /\ Busy(r, "count")
    /\ IF AtCap(work[r].id) THEN Done(r) ELSE Goto(r, "store")
    /\ UNCHANGED <<Others, colls, used, silent, touched, raced>>

\* create_or_update: the foreign key refuses a collection that is gone.
StoreObject(r) ==
    LET i == work[r].id IN
    /\ Busy(r, "store")
    /\ IF cdbUp /\ Live(i)
         THEN /\ colls' = [colls EXCEPT ![i].objects[work[r].file] = r]
              /\ Goto(r, "tag")
              /\ touched' = touched \cup (Checking(i) \ {r})
              /\ raced' = IF r \in touched THEN raced \cup {i} ELSE raced
         ELSE Done(r) /\ UNCHANGED <<colls, touched, raced>>
    /\ UNCHANGED <<Others, used, silent>>

\* The errors of the DELETE and of the ctag's UPDATE are only logged.
RemoveObject(r) ==
    LET i == work[r].id IN
    /\ Busy(r, "remove")
    /\ IF cdbUp /\ Live(i)
         THEN /\ colls' = [colls EXCEPT ![i].objects[work[r].file] = Nil]
              /\ touched' = touched \cup Checking(i)
         ELSE UNCHANGED <<colls, touched>>
    /\ Goto(r, "tag")
    /\ UNCHANGED <<Others, used, silent, raced>>

BugNoRetag(i, r) == colls
Retag(i, r) == IF Live(i) THEN [colls EXCEPT ![i].ctag = r] ELSE colls

update_ctag(r) ==
    /\ Busy(r, "tag")
    /\ IF cdbUp THEN colls' = Retag(work[r].id, r) /\ silent' = silent \ {work[r].id}
       ELSE UNCHANGED <<colls, silent>>
    /\ Done(r)
    /\ UNCHANGED <<Others, used, touched, raced>>

DropCollection(r) ==
    /\ Busy(r, "drop")
    /\ colls' = IF cdbUp /\ Live(work[r].id) THEN [colls EXCEPT ![work[r].id] = NoColl] ELSE colls
    /\ Done(r)
    /\ UNCHANGED <<Others, used, silent, touched, raced>>

\* UNIQUE(account_id, slug).
Create(r, s) ==
    /\ IF cdbUp /\ get_by_slug(s) = {} /\ used + 1 \in Ids
         THEN /\ colls' = [colls EXCEPT ![used + 1] = [NoColl EXCEPT !.slug = s, !.ctag = r]]
              /\ used' = used + 1
         ELSE UNCHANGED <<colls, used>>
    /\ Done(r)
    /\ UNCHANGED <<Others, silent, touched, raced>>

\* MKCALENDAR, MKCOL: the slug is lowered here, and nowhere else.
CountCollections(r, s) ==
    /\ Busy(r, "idle")
    /\ Cardinality(list_collections) < MAX_COLLECTIONS
    /\ work' = [work EXCEPT ![r] = [NoWork EXCEPT !.pc = "create", !.slug = Lower[s]]]
    /\ UNCHANGED <<Others, colls, used, silent, touched, raced>>

CreateCollection(r) == Busy(r, "create") /\ Create(r, work[r].slug)

\* The admin's form knows no cap, and make_slug lowers the name.
AdminCreate(r, s) == Busy(r, "idle") /\ Create(r, Lower[s])

AdminDrop(r, i) ==
    /\ Busy(r, "idle")
    /\ colls' = IF cdbUp THEN [colls EXCEPT ![i] = NoColl] ELSE colls
    /\ Done(r)
    /\ UNCHANGED <<Others, used, silent, touched, raced>>

\* The ctag stays.
AdminRemove(r, i, f) ==
    /\ Busy(r, "idle")
    /\ cdbUp /\ Live(i)
    /\ colls' = [colls EXCEPT ![i].objects[f] = Nil]
    /\ silent' = silent \cup {i}
    /\ touched' = touched \cup Checking(i)
    /\ Done(r)
    /\ UNCHANGED <<Others, used, raced>>

----------------------------------------------------------------------------
(* The handlers, by protocol.                                              *)

caldav_put(r, s, f) == FindCollection(r, s, f, "exists")
caldav_delete(r, s, f) ==
    FindCollection(r, s, f, "remove") \/ FindCollection(r, s, f, "drop")
handle_mkcalendar(r, s) == CountCollections(r, s)
admin_create_calendar(r, s) == AdminCreate(r, s)
admin_delete_calendar(r, i) == AdminDrop(r, i)
caldav_admin_delete_object(r, i, f) == AdminRemove(r, i, f)

CalDav(r) ==
    \/ \E s \in Slugs : \/ handle_mkcalendar(r, s) \/ admin_create_calendar(r, s)
                        \/ \E f \in Files : caldav_put(r, s, f) \/ caldav_delete(r, s, f)
    \/ \E i \in LiveIds : \/ admin_delete_calendar(r, i)
                          \/ \E f \in Files : caldav_admin_delete_object(r, i, f)

carddav_put(r, s, f) == FindCollection(r, s, f, "exists")
carddav_delete(r, s, f) ==
    FindCollection(r, s, f, "remove") \/ FindCollection(r, s, f, "drop")
handle_mkcol(r, s) == CountCollections(r, s)
admin_create_addressbook(r, s) == AdminCreate(r, s)
admin_delete_addressbook(r, i) == AdminDrop(r, i)
carddav_admin_delete_object(r, i, f) == AdminRemove(r, i, f)

CardDav(r) ==
    \/ \E s \in Slugs : \/ handle_mkcol(r, s) \/ admin_create_addressbook(r, s)
                        \/ \E f \in Files : carddav_put(r, s, f) \/ carddav_delete(r, s, f)
    \/ \E i \in LiveIds : \/ admin_delete_addressbook(r, i)
                          \/ \E f \in Files : carddav_admin_delete_object(r, i, f)

----------------------------------------------------------------------------
(* A client that follows a collection: PROPFIND gives it the ctag, then the *)
(* same PROPFIND (Depth 1) lists the objects by id, or a REPORT does after  *)
(* it has looked the slug up once more.  It lists only when the ctag is not *)
(* the one it has.                                                          *)

ReadCtag(s) ==
    /\ client.pc \in {"idle", "synced"}
    /\ \E i \in get_by_slug(s) :
         /\ <<i, colls[i].ctag>> # <<client.id, client.ctag>>
         /\ client' = [NoCopy EXCEPT !.pc = "listing", !.slug = s, !.id = i,
                                     !.ctag = colls[i].ctag, !.from = i]
    /\ UNCHANGED <<protocol, cdbUp, cfaults, colls, used, work, silent, touched, raced>>

caldav_propfind(s) == protocol = "caldav" /\ ReadCtag(s)
carddav_propfind(s) == protocol = "carddav" /\ ReadCtag(s)

FindAgain ==
    /\ client.pc = "listing"
    /\ \/ get_by_slug(client.slug) = {} /\ client' = NoCopy
       \/ \E i \in get_by_slug(client.slug) :
            client' = [client EXCEPT !.pc = "report", !.from = i]
    /\ UNCHANGED <<protocol, cdbUp, cfaults, colls, used, work, silent, touched, raced>>

caldav_report == protocol = "caldav" /\ FindAgain
carddav_report == protocol = "carddav" /\ FindAgain

ListObjects ==
    /\ client.pc \in {"listing", "report"}
    /\ client' = [NoCopy EXCEPT !.pc = "synced", !.id = client.id, !.ctag = client.ctag,
                                !.objects = list_objects(client.from)]
    /\ silent' = IF cdbUp THEN silent ELSE silent \cup {client.id}
    /\ UNCHANGED <<protocol, cdbUp, cfaults, colls, used, work, touched, raced>>

----------------------------------------------------------------------------
(* Faults: a change whose ctag was not written yet stays unannounced.      *)

Unannounced == {work[r].id : r \in {q \in DavRequests : Busy(q, "tag")}}

CLoseConnection ==
    /\ cdbUp
    /\ cfaults < MaxDavFaults
    /\ cdbUp' = FALSE
    /\ cfaults' = cfaults + 1
    /\ silent' = silent \cup Unannounced
    /\ UNCHANGED <<protocol, colls, used, work, client, touched, raced>>

CRestart ==
    /\ cfaults < MaxDavFaults
    /\ cfaults' = cfaults + 1
    /\ cdbUp' = TRUE
    /\ silent' = silent \cup Unannounced
    /\ work' = [r \in DavRequests |-> IF Busy(r, "idle") THEN NoWork ELSE [NoWork EXCEPT !.pc = "done"]]
    /\ client' = IF client.pc \in {"listing", "report"} THEN NoCopy ELSE client
    /\ UNCHANGED <<protocol, colls, used, touched, raced>>

CNext ==
    \/ \E r \in DavRequests :
         \/ protocol = "caldav" /\ CalDav(r)
         \/ protocol = "carddav" /\ CardDav(r)
         \/ CheckExists(r) \/ CountObjects(r) \/ StoreObject(r) \/ RemoveObject(r)
         \/ update_ctag(r) \/ DropCollection(r) \/ CreateCollection(r)
    \/ \E s \in Slugs : caldav_propfind(s) \/ carddav_propfind(s)
    \/ caldav_report \/ carddav_report \/ ListObjects
    \/ CLoseConnection \/ CRestart

CSpec == CInit /\ [][CNext]_cvars

----------------------------------------------------------------------------
(* Properties.                                                             *)

Tags == DavRequests \cup {Nil}
Objects == [Files -> Tags]

\* Types; slugs of live collections are distinct (UNIQUE(account_id, slug)).
CTypeOK ==
    /\ protocol \in {"caldav", "carddav"}
    /\ colls \in [Ids -> [slug : Slugs \cup {Nil}, ctag : Tags, objects : Objects]]
    /\ used \in Ids \cup {0}
    /\ \A r \in DavRequests :
         /\ work[r].pc \in {"idle", "exists", "count", "store", "remove", "tag", "drop",
                            "create", "done"}
         /\ work[r].id \in Ids \cup {0}
    /\ client.pc \in {"idle", "listing", "report", "synced"}
    /\ client.objects \in Objects
    /\ silent \cup raced \subseteq Ids
    /\ \A i, j \in LiveIds : colls[i].slug = colls[j].slug => i = j

\* A client whose ctag is the collection's has the collection's objects, once the
\* handlers under way have written their ctag: the two writes of a PUT or a DELETE and
\* the two reads of a PROPFIND interleave in no way that hides a change.  Excepted are
\* the admin's deletion of an object, and a connection or a server that goes away
\* between the two.
CtagTellsChanges ==
    \A i \in LiveIds \ (silent \cup Unannounced) :
        (client.pc = "synced" /\ client.id = i /\ client.ctag = colls[i].ctag)
            => client.objects = colls[i].objects

\* A collection exceeds MAX_OBJECTS only when a PUT stored after another request had
\* changed the collection behind its check.
CapHolds ==
    \A i \in LiveIds \ raced : Cardinality(Stored(colls[i].objects)) <= MAX_OBJECTS
=============================================================================
