----------------------------- MODULE MailConfig -----------------------------
(***************************************************************************)
(* The admin handlers that edit the mail tables and then regenerate the    *)
(* files Postfix, Dovecot and OpenDKIM read (src/web/routes/domains.rs,    *)
(* accounts.rs, aliases.rs, forwarding.rs, relays.rs, settings.rs,         *)
(* spambl.rs; generate_all_configs in src/config.rs; genconfig at start    *)
(* and after a registration).  Handlers run side by side and every         *)
(* database call is a step; regenerations take no lock against each other. *)
(*                                                                         *)
(* The files are independent, so a behaviour watches one of them: its      *)
(* queries, its truncation, its write, and the reload after it.  The files *)
(* written from templates alone are left out.                              *)
(***************************************************************************)
EXTENDS MailTables, Sequences

CONSTANTS
    Requests,     \* each makes one request
    Boot,         \* the genconfig of entrypoint.sh
    MaxFaults     \* bound: lost connections, failed writes, restarts, clients that leave

ASSUME MailConfigAssumption == MaxFaults \in Nat

Jobs == Requests \cup {Boot}

\* The queries each file is written from, in their order.
Reads(file) ==
    CASE file = "main.cf" -> <<"milter", "size", "lists", "assignments">>
      [] file \in {"virtual_domains", "opendkim"} -> <<"domains">>
      [] file \in {"vmailbox", "passwd"} -> <<"accounts">>
      [] file = "virtual_aliases" -> <<"aliases", "forwardings", "accounts">>
      [] file = "recipient_bcc" -> <<"forwardings">>
      [] file = "sender_login_maps" -> <<"aliases", "accounts">>
      [] file \in {"transport_maps", "sasl_passwd"} -> <<"assignments">>

Files == {"main.cf", "virtual_domains", "opendkim", "vmailbox", "passwd", "virtual_aliases",
          "recipient_bcc", "sender_login_maps", "transport_maps", "sasl_passwd"}
Queries == {"milter", "size", "lists", "assignments", "domains", "accounts", "aliases",
            "forwardings"}

VARIABLES
    watched,     \* the file
    disk,        \* its content
    served,      \* what the services loaded at the last reload
    wedged,      \* a thread waits for itself with the connection's mutex locked
    job,         \* job[j]: a handler's step and what it has read
    faults,
    \* History, read by properties alone:
    suspect      \* the last write was made from older tables, blindly, across another
                 \* write or not in full; or a handler ended without regenerating

cfgvars == <<db, dbUp, watched, disk, served, wedged, job, faults, suspect>>

Missing == [state |-> "missing", text |-> {}]
Torn == [state |-> "torn", text |-> {}]
Mixed == [state |-> "mixed", text |-> {}]
Whole(text) == [state |-> "whole", text |-> text]

Nothing == [q \in Queries |-> {}]
NoJob == [pc |-> "idle", arg |-> <<>>, todo |-> <<>>, got |-> Nothing,
          own |-> FALSE, spoiled |-> FALSE]
Done == [NoJob EXCEPT !.pc = "done"]

\* A genconfig process has a connection of its own.
Genconfig == [NoJob EXCEPT !.pc = "regen", !.own = TRUE]

ConfigInit(tables, file) ==
    /\ db = tables
    /\ dbUp = TRUE
    /\ watched = file
    /\ disk = Missing
    /\ served = Missing
    /\ wedged = FALSE
    /\ job = [j \in Jobs |-> IF j = Boot THEN Genconfig ELSE NoJob]
    /\ faults = 0
    /\ suspect = FALSE

----------------------------------------------------------------------------
(* A file's text, from answers to its queries.                             *)

Answer(q) ==
    CASE q = "milter" -> {db.milter}
      [] q = "size" -> {db.size}
      [] q = "lists" -> db.lists
      [] q = "assignments" -> get_active_relay_assignments
      [] q = "domains" -> list_domains
      [] q = "accounts" -> list_all_accounts
      [] q = "aliases" -> list_all_aliases
      [] q = "forwardings" -> list_all_forwardings

Text(got) ==
    CASE watched = "main.cf" -> MainCf(got["milter"], got["size"], got["lists"], got["assignments"])
      [] watched = "virtual_domains" -> VirtualDomains(got["domains"])
      [] watched = "opendkim" -> OpendkimTables(got["domains"])
      [] watched = "vmailbox" -> VirtualMailboxes(got["accounts"])
      [] watched = "passwd" -> DovecotPasswd(got["accounts"])
      [] watched = "virtual_aliases" ->
           VirtualAliases(got["aliases"], got["forwardings"], got["accounts"])
      [] watched = "recipient_bcc" -> RecipientBcc(got["forwardings"])
      [] watched = "sender_login_maps" -> SenderLogins(got["aliases"], got["accounts"])
      [] watched = "transport_maps" -> TransportMaps(got["assignments"])
      [] watched = "sasl_passwd" -> SaslPasswd(got["assignments"])

----------------------------------------------------------------------------
(* Handlers: how they begin, commit and go on.                             *)

At(j, pc) == job[j].pc = pc
Reading(j) == job[j].pc \in {"reading", "opened"}
Reachable(j) == job[j].own \/ ~wedged
Begins(r) == At(r, "idle") /\ At(Boot, "done") /\ ~wedged

Goes(j, next) == job' = [job EXCEPT ![j] = next]
AtStep(pc, arg) == [NoJob EXCEPT !.pc = pc, !.arg = arg]
Regenerates == [NoJob EXCEPT !.pc = "regen"]
quiet == <<dbUp, watched, disk, served, faults>>

\* What was read before this commit is old.
Committed(j, tables, next) ==
    /\ db' = IF dbUp THEN tables ELSE db
    /\ job' = [k \in Jobs |-> IF k = j THEN next
                              ELSE IF Reading(k) /\ db' # db THEN [job[k] EXCEPT !.spoiled = TRUE]
                              ELSE job[k]]

Commit(j, tables, next) == Committed(j, tables, next) /\ UNCHANGED <<quiet, wedged, suspect>>

BugForgets == Done
AfterDelete == Regenerates
\* Updates and deletions log an error and go on; insertions answer it.
Edit(r, tables) == Begins(r) /\ Commit(r, tables, Regenerates)
Delete(r, tables) == Begins(r) /\ Commit(r, tables, AfterDelete)
Insert(r, accepted, tables) ==
    /\ Begins(r)
    /\ Commit(r, IF accepted THEN tables ELSE db,
              IF accepted /\ dbUp THEN Regenerates ELSE Done)

\* A look-up that finds nothing ends the request.
LookUp(r, found, next) ==
    /\ Goes(r, IF dbUp /\ found THEN next ELSE Done)
    /\ UNCHANGED <<db, quiet, wedged, suspect>>

----------------------------------------------------------------------------
(* Domains.                                                                *)

domains_create(r, d, n) == ~Exists(d) /\ Insert(r, NameFree(n), create_domain(d, n))
domains_update(r, d, n, active) == Edit(r, update_domain(d, n, active))
domains_delete(r, d) == Delete(r, delete_domain(d))

generate_dkim(r, d) == Begins(r) /\ LookUp(r, Exists(d), AtStep("openssl", <<d>>))
StoreDkim(r, key) ==
    /\ At(r, "openssl")
    /\ ~wedged
    /\ Commit(r, update_domain_dkim(job[r].arg[1], key), Regenerates)

----------------------------------------------------------------------------
(* Report inboxes: the old row is found, deleted, and the new one made, by *)
(* three calls.  No file shows them.                                       *)

InboxOf(kind, d) == {b \in db.inboxes : b.kind = kind /\ b.account[1] = d}
FindInbox(r, kind, d, next) ==
    /\ Begins(r)
    /\ \/ /\ \/ ~dbUp \/ InboxOf(kind, d) = {}
          /\ Goes(r, AtStep(next[1], <<kind, <<>>, next[2]>>))
       \/ /\ dbUp
          /\ \E b \in InboxOf(kind, d) : Goes(r, AtStep(next[1], <<kind, b.account, next[2]>>))
    /\ UNCHANGED <<db, quiet, wedged, suspect>>

set_dmarc_inbox(r, d, x) == FindInbox(r, "dmarc", d, <<"unset", x>>)
set_abuse_inbox(r, d, x) == FindInbox(r, "abuse", d, <<"unset", x>>)
set_bounce_inbox(r, d, x) == FindInbox(r, "bounce", d, <<"unset", x>>)
remove_dmarc_inbox(r, d) == FindInbox(r, "dmarc", d, <<"unset", <<>>>>)
remove_abuse_inbox(r, d) == FindInbox(r, "abuse", d, <<"unset", <<>>>>)
remove_bounce_inbox(r, d) == FindInbox(r, "bounce", d, <<"unset", <<>>>>)
set_dmarc_ruf_inbox(r, d, x) == FindInbox(r, "dmarc", d, <<"ruf", x>>)
remove_dmarc_ruf_inbox(r, d) == FindInbox(r, "dmarc", d, <<"ruf", <<>>>>)

UnsetInbox(r) ==
    /\ At(r, "unset")
    /\ ~wedged
    /\ LET old == job[r].arg[2] new == job[r].arg[3] IN
       Commit(r, IF old = <<>> THEN db ELSE delete_inbox(job[r].arg[1], old),
              IF new = <<>> THEN Done ELSE AtStep("set", <<job[r].arg[1], new>>))

CreateInbox(r) ==
    /\ At(r, "set")
    /\ ~wedged
    /\ LET kind == job[r].arg[1] x == job[r].arg[2] IN
       Commit(r, IF InboxFree(kind, x) THEN create_inbox(kind, x) ELSE db, Done)

SetRuf(r) ==
    /\ At(r, "ruf")
    /\ ~wedged
    /\ LET old == job[r].arg[2] ruf == job[r].arg[3] IN
       Commit(r, IF old = <<>> \/ (ruf # <<>> /\ ~HasAccount(ruf)) THEN db
                 ELSE set_dmarc_inbox_ruf(old, ruf), Done)

----------------------------------------------------------------------------
(* Accounts.                                                               *)

accounts_create(r, x, pw) == Insert(r, AccountFree(x), create_account(x, pw))

\* A new password is a second statement.
accounts_update(r, x, status) ==
    /\ Begins(r)
    /\ \E next \in {Regenerates, AtStep("password", <<x>>)} :
         Commit(r, update_account(x, status), next)

StorePassword(r, pw) ==
    /\ At(r, "password")
    /\ ~wedged
    /\ Commit(r, update_account_password(job[r].arg[1], pw), Regenerates)

\* A deletion that is not refused never returns: delete_account waits for the mutex it
\* holds, the handler for delete_account.
accounts_delete(r, x) ==
    /\ Begins(r)
    /\ IF BacksInbox(x) \/ ~dbUp THEN LookUp(r, FALSE, Done)
       ELSE /\ Committed(r, delete_account(x), [NoJob EXCEPT !.pc = "hung"])
            /\ wedged' = TRUE
            /\ suspect' = TRUE
            /\ UNCHANGED quiet

\* A registration commits its account; then a thread of its own calls the webhook, which
\* reads the database, and starts a genconfig process.
handle_form(r, x, pw) ==
    /\ Begins(r)
    /\ Commit(r, IF AccountFree(x) THEN create_account(x, pw) ELSE db,
              IF AccountFree(x) /\ dbUp THEN AtStep("created", <<x>>) ELSE Done)

StartGenconfig(r) ==
    /\ At(r, "created")
    /\ ~wedged
    /\ Goes(r, Genconfig)
    /\ UNCHANGED <<db, quiet, wedged, suspect>>

\* It is not started, or ends before its time: a warning is logged.
GenconfigFails(r) ==
    /\ \/ At(r, "created")
       \/ job[r].own /\ job[r].pc \in {"regen", "reading", "opened", "written"}
    /\ faults < MaxFaults
    /\ faults' = faults + 1
    /\ Goes(r, Done)
    /\ suspect' = TRUE
    /\ UNCHANGED <<db, dbUp, watched, disk, served, wedged>>

----------------------------------------------------------------------------
(* Aliases and forwardings.                                                *)

aliases_create(r, s, t) ==
    /\ Begins(r)
    /\ LET ds == {d \in Domains : db.domains[d].name = s.name} IN
       LookUp(r, ds # {}, AtStep("destination", <<CHOOSE d \in ds : TRUE, s, t>>))

CheckDestination(r) ==
    /\ At(r, "destination")
    /\ ~wedged
    /\ LookUp(r, email_exists(job[r].arg[3]), [job[r] EXCEPT !.pc = "alias"])

InsertAlias(r, i) ==
    /\ At(r, "alias")
    /\ ~wedged
    /\ db.aliases[i] = NoAlias
    /\ LET d == job[r].arg[1] IN
       Commit(r, IF Exists(d) THEN create_alias(i, d, job[r].arg[2], job[r].arg[3]) ELSE db,
              IF Exists(d) /\ dbUp THEN Regenerates ELSE Done)

aliases_update(r, i, s, t, active) == Edit(r, update_alias(i, s, t, active))
aliases_delete(r, i) == Delete(r, delete_alias(i))

forwarding_create(r, s, t, keep) ==
    /\ Begins(r)
    /\ LET ds == {d \in Domains : db.domains[d].name = s.name} IN
       LookUp(r, ds # {}, AtStep("forward", <<CHOOSE d \in ds : TRUE, s, t, keep>>))

InsertForwarding(r, i) ==
    /\ At(r, "forward")
    /\ ~wedged
    /\ db.forwardings[i] = NoAlias
    /\ LET d == job[r].arg[1] IN
       Commit(r, IF Exists(d) THEN create_forwarding(i, d, job[r].arg[2], job[r].arg[3],
                                                     job[r].arg[4]) ELSE db,
              IF Exists(d) /\ dbUp THEN Regenerates ELSE Done)

forwarding_update(r, i, s, t, active, keep) ==
    Edit(r, update_forwarding(i, s, t, active, keep))
forwarding_delete(r, i) == Delete(r, delete_forwarding(i))

----------------------------------------------------------------------------
(* Relays and their assignments.                                           *)

relays_create(r, q, auth, secret) ==
    /\ db.relays[q] = NoRelay
    /\ Insert(r, TRUE, create_outbound_relay(q, auth, secret))

\* Without a new password the old one is read, and written back by the next statement.
relays_update(r, q, status, auth, secret) ==
    /\ Begins(r)
    /\ LET kept == IF secret # 0 THEN secret ELSE IF dbUp THEN db.relays[q].secret ELSE 0 IN
       Goes(r, AtStep("relay", <<q, status, auth, kept>>))
    /\ UNCHANGED <<db, quiet, wedged, suspect>>

WriteRelay(r) ==
    /\ At(r, "relay")
    /\ ~wedged
    /\ LET a == job[r].arg IN Commit(r, update_outbound_relay(a[1], a[2], a[3], a[4]), Regenerates)

relays_delete(r, q) == Delete(r, delete_outbound_relay(q))
add_assignment(r, q, p) ==
    Insert(r, db.relays[q] # NoRelay, create_relay_assignment(q, p))
remove_assignment(r, q, p) == Delete(r, delete_relay_assignment(q, p))

----------------------------------------------------------------------------
(* Settings.  The other values of the mail settings' form are shown in no  *)
(* file.                                                                   *)

update_features(r, on) == Edit(r, set_setting("feature_milter_enabled", on))
update_mail_settings(r, size) == Edit(r, set_setting("message_size_limit", size))
spambl_toggle(r, l, on) == Edit(r, set_spambl_enabled(l, on))

----------------------------------------------------------------------------
(* generate_all_configs, as far as the watched file goes.                  *)

regen_configs(j) ==
    /\ At(j, "regen")
    /\ Goes(j, [job[j] EXCEPT !.pc = "reading", !.todo = Reads(watched)])
    /\ UNCHANGED <<db, quiet, wedged, suspect>>

\* A query that fails answers as if the table were empty.
Query(j) ==
    /\ At(j, "reading")
    /\ job[j].todo # <<>>
    /\ Reachable(j)
    /\ LET q == Head(job[j].todo) known == dbUp \/ job[j].own IN
       Goes(j, [job[j] EXCEPT !.todo = Tail(@),
                              !.got[q] = IF known THEN Answer(q) ELSE {},
                              !.spoiled = @ \/ ~known])
    /\ UNCHANGED <<db, quiet, wedged, suspect>>

Holding == {j \in Jobs : At(j, "opened")}

OpenFile(j) ==
    /\ At(j, "reading")
    /\ job[j].todo = <<>>
    /\ disk' = Torn
    /\ job' = [k \in Jobs |->
                 IF k = j THEN [job[j] EXCEPT !.pc = "opened", !.spoiled = @ \/ Holding # {}]
                 ELSE IF k \in Holding THEN [job[k] EXCEPT !.spoiled = TRUE]
                 ELSE job[k]]
    /\ UNCHANGED <<db, dbUp, watched, served, wedged, faults, suspect>>

\* Over what another regeneration has written in the meantime some of that may remain.
WriteFile(j) ==
    /\ At(j, "opened")
    /\ LET own == Whole(Text(job[j].got)) IN
       disk' \in {own} \cup (IF disk \in {Torn, own} THEN {} ELSE {Mixed})
    /\ suspect' = job[j].spoiled
    /\ Goes(j, [NoJob EXCEPT !.pc = "written", !.own = job[j].own])
    /\ UNCHANGED <<db, dbUp, watched, served, wedged, faults>>

\* The file cannot be opened, or not be written: an error is logged.
WriteFails(j) ==
    /\ job[j].pc = "opened" \/ (At(j, "reading") /\ job[j].todo = <<>>)
    /\ faults < MaxFaults
    /\ faults' = faults + 1
    /\ suspect' = TRUE
    /\ Goes(j, [NoJob EXCEPT !.pc = "written", !.own = job[j].own])
    /\ UNCHANGED <<db, dbUp, watched, disk, served, wedged>>

reload_services(j) ==
    /\ At(j, "written")
    /\ served' = disk
    /\ Goes(j, Done)
    /\ UNCHANGED <<db, dbUp, watched, disk, wedged, faults, suspect>>

----------------------------------------------------------------------------
(* Faults.                                                                 *)

LoseConnection ==
    /\ dbUp
    /\ faults < MaxFaults
    /\ dbUp' = FALSE
    /\ faults' = faults + 1
    /\ UNCHANGED <<db, watched, disk, served, wedged, job, suspect>>

\* The server drops the handler of a client that closes its connection, between any two
\* of its awaits; a regeneration that has started goes on by itself.
ClientLeaves(r) ==
    /\ job[r].pc \in {"openssl", "unset", "set", "ruf", "password", "destination", "alias",
                      "forward", "created", "regen"}
    /\ ~job[r].own
    /\ faults < MaxFaults
    /\ faults' = faults + 1
    /\ Goes(r, Done)
    /\ suspect' = (suspect \/ job[r].pc \in {"password", "created", "regen"})
    /\ UNCHANGED <<db, dbUp, watched, disk, served, wedged>>

\* restart_container, or the container stops: entrypoint.sh and serve generate all files
\* again before requests are taken.
Restart ==
    /\ faults < MaxFaults
    /\ faults' = faults + 1
    /\ dbUp' = TRUE
    /\ wedged' = FALSE
    /\ job' = [j \in Jobs |-> IF j = Boot THEN Genconfig
                              ELSE IF At(j, "idle") THEN NoJob ELSE Done]
    /\ UNCHANGED <<db, watched, disk, served, suspect>>

----------------------------------------------------------------------------

DomainRequest(r) ==
    \E d \in Domains :
      \/ \E n \in DomainNames, b \in BOOLEAN : domains_create(r, d, n) \/ domains_update(r, d, n, b)
      \/ domains_delete(r, d) \/ generate_dkim(r, d)

InboxRequest(r) ==
    \E d \in Domains, x \in Accounts :
      \/ set_dmarc_inbox(r, d, x) \/ set_abuse_inbox(r, d, x) \/ set_bounce_inbox(r, d, x)
      \/ remove_dmarc_inbox(r, d) \/ remove_abuse_inbox(r, d) \/ remove_bounce_inbox(r, d)
      \/ set_dmarc_ruf_inbox(r, d, x) \/ remove_dmarc_ruf_inbox(r, d)

AccountRequest(r) ==
    \E x \in Accounts :
      \/ \E s \in {"active", "inactive"} : accounts_update(r, x, s)
      \/ \E pw \in Secrets : accounts_create(r, x, pw) \/ handle_form(r, x, pw)
      \/ accounts_delete(r, x)

AddressRequest(r) ==
    \/ \E s \in Sources, t \in Targets, b, keep \in BOOLEAN :
         \/ aliases_create(r, s, t)
         \/ \E i \in {j \in AliasIds : db.aliases[j] # NoAlias} : aliases_update(r, i, s, t, b)
         \/ ~IsCatchAll(s) /\ \/ forwarding_create(r, s, t, keep)
                              \/ \E i \in {j \in ForwardIds : db.forwardings[j] # NoAlias} :
                                   forwarding_update(r, i, s, t, b, keep)
    \/ \E i \in AliasIds : aliases_delete(r, i)
    \/ \E i \in ForwardIds : forwarding_delete(r, i)

RelayRequest(r) ==
    \E q \in Relays :
      \/ \E auth \in BOOLEAN, k \in {0} \cup (Secrets \ {db.relays[q].secret}), s \in {"active", "inactive"} :
           relays_create(r, q, auth, k) \/ relays_update(r, q, s, auth, k)
      \/ relays_delete(r, q)
      \/ \E p \in Patterns : add_assignment(r, q, p) \/ remove_assignment(r, q, p)

SettingRequest(r) ==
    \/ \E b \in BOOLEAN : update_features(r, b) \/ \E l \in Lists : spambl_toggle(r, l, b)
    \/ \E s \in Sizes : update_mail_settings(r, s)

LaterStep(r) ==
    \/ UnsetInbox(r) \/ CreateInbox(r) \/ SetRuf(r) \/ CheckDestination(r) \/ WriteRelay(r)
    \/ \E k \in Secrets : StoreDkim(r, k) \/ StorePassword(r, k)
    \/ \E i \in AliasIds : InsertAlias(r, i)
    \/ \E i \in ForwardIds : InsertForwarding(r, i)
    \/ StartGenconfig(r) \/ GenconfigFails(r)

Generation(j) ==
    regen_configs(j) \/ Query(j) \/ OpenFile(j) \/ WriteFile(j) \/ WriteFails(j) \/ reload_services(j)

Topics == {"domains", "inboxes", "accounts", "addresses", "relays", "settings"}

\* The steps when requests are on some topics alone.
ConfigSteps(topics) ==
    \/ \E r \in Requests :
         \/ "domains" \in topics /\ DomainRequest(r)
         \/ "inboxes" \in topics /\ InboxRequest(r)
         \/ "accounts" \in topics /\ AccountRequest(r)
         \/ "addresses" \in topics /\ AddressRequest(r)
         \/ "relays" \in topics /\ RelayRequest(r)
         \/ "settings" \in topics /\ SettingRequest(r)
         \/ LaterStep(r) \/ ClientLeaves(r)
    \/ \E j \in Jobs : Generation(j)
    \/ LoseConnection \/ Restart

ConfigNext == ConfigSteps(Topics)

\* From any tables, with any of the files watched.
ConfigSpec == (\E f \in Files : ConfigInit(db, f)) /\ TablesTypeOK /\ [][ConfigNext]_cfgvars

----------------------------------------------------------------------------
(* Properties.                                                             *)

ConfigTypeOK ==
    /\ TablesTypeOK
    /\ watched \in Files
    /\ disk.state \in {"missing", "torn", "whole", "mixed"}
    /\ served.state \in {"missing", "torn", "whole", "mixed"}
    /\ \A j \in Jobs : /\ DOMAIN job[j].got = Queries
                       /\ job[j].pc # "reading" => job[j].todo = <<>>
    /\ faults \in 0..MaxFaults
    /\ wedged <=> \E r \in Requests : At(r, "hung")

Waiting(j) == At(j, "idle") \/ At(j, "done") \/ At(j, "hung")

\* When no handler is at work, the services have loaded what the tables say, whatever
\* handlers, registrations and restarts overlapped (regen_configs after every commit).
\* The exceptions are those suspect names; the last regeneration to write decides.
FilesFollowTables ==
    (~suspect /\ \A j \in Jobs : Waiting(j)) => served = Whole(Text([q \in Queries |-> Answer(q)]))
=============================================================================
