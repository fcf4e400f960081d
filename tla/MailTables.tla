----------------------------- MODULE MailTables -----------------------------
(***************************************************************************)
(* The tables that say how mail is handled (src/db.rs: domains, accounts,  *)
(* aliases, forwardings, relays, settings, block lists, report inboxes),   *)
(* one operator per statement, and what config.rs writes from them.        *)
(*                                                                         *)
(* An address is a user, or AnyUser, of a domain name, with caps when      *)
(* the name was typed with capitals: the forms keep an address's spelling  *)
(* and lower only domains and usernames.  Lists are sets: nothing below    *)
(* depends on their order.  A password, a relay's password and a DKIM key  *)
(* are Secrets; 0 is none.  Display names, quotas, ports and templates are *)
(* left out.                                                               *)
(***************************************************************************)
EXTENDS Naturals, FiniteSets

CONSTANTS
    Domains,       \* ids of domains
    DomainNames,
    Users,
    AliasIds,
    ForwardIds,
    Relays,
    Lists,         \* block lists
    Patterns,      \* patterns of relay assignments
    Sources,       \* addresses an alias may be made for
    Targets,       \* addresses an alias or forwarding may lead to
    Secrets,
    Sizes          \* values of message_size_limit

ASSUME MailTablesAssumption ==
    /\ "none" \notin Domains \cup DomainNames
    /\ \A s \in Sources : s.name # "none"
    /\ 1 \in Secrets /\ "30MiB" \in Sizes

AnyUser == "*"
Kinds == {"dmarc", "abuse", "bounce"}
Accounts == Domains \X Users

VARIABLES
    db,      \* the tables
    dbUp     \* FALSE once the connection of this process is lost

NoDomain == [name |-> "none", active |-> FALSE, key |-> 0]
NoAccount == [status |-> "none", password |-> 0]
NoAlias == [dom |-> "none"]
NoRelay == [status |-> "none", auth |-> FALSE, secret |-> 0, assigned |-> {}]

EmptyTables ==
    [domains |-> [d \in Domains |-> NoDomain],
     accounts |-> [x \in Accounts |-> NoAccount],
     aliases |-> [i \in AliasIds |-> NoAlias],
     forwardings |-> [i \in ForwardIds |-> NoAlias],
     relays |-> [r \in Relays |-> NoRelay],
     milter |-> TRUE, size |-> "30MiB", lists |-> {},
     inboxes |-> {}]      \* [kind, account, ruf]

----------------------------------------------------------------------------
(* Statements: the tables after each, and when PostgreSQL accepts an       *)
(* insert.  An update or a deletion of a row that is gone changes nothing. *)

NameFree(n) == \A d \in Domains : db.domains[d].name # n
Exists(d) == db.domains[d] # NoDomain

create_domain(d, n) == [db EXCEPT !.domains[d] = [name |-> n, active |-> TRUE, key |-> 0]]
update_domain(d, n, active) ==
    IF Exists(d) /\ (db.domains[d].name = n \/ NameFree(n))
      THEN [db EXCEPT !.domains[d].name = n, !.domains[d].active = active] ELSE db
update_domain_dkim(d, key) == IF Exists(d) THEN [db EXCEPT !.domains[d].key = key] ELSE db
BugNoCascade(d) == [db EXCEPT !.domains[d] = NoDomain]
\* Accounts, aliases and forwardings go with their domain, inboxes with their account.
delete_domain(d) ==
    [db EXCEPT
       !.domains[d] = NoDomain,
       !.accounts = [x \in Accounts |-> IF x[1] = d THEN NoAccount ELSE @[x]],
       !.aliases = [i \in AliasIds |-> IF @[i].dom = d THEN NoAlias ELSE @[i]],
       !.forwardings = [i \in ForwardIds |-> IF @[i].dom = d THEN NoAlias ELSE @[i]],
       !.inboxes = {[b EXCEPT !.ruf = IF b.ruf \in {d} \X Users THEN <<>> ELSE @] :
                      b \in {c \in @ : c.account[1] # d}}]

HasAccount(x) == db.accounts[x] # NoAccount
AccountFree(x) == Exists(x[1]) /\ ~HasAccount(x)
create_account(x, pw) ==
    [db EXCEPT !.accounts[x] = [status |-> "active", password |-> pw]]
update_account(x, status) ==
    IF HasAccount(x) THEN [db EXCEPT !.accounts[x].status = status] ELSE db
update_account_password(x, pw) ==
    IF HasAccount(x) THEN [db EXCEPT !.accounts[x].password = pw] ELSE db
BacksInbox(x) == \E b \in db.inboxes : b.account = x
delete_account(x) ==
    [db EXCEPT !.accounts[x] = NoAccount,
               !.inboxes = {[b EXCEPT !.ruf = IF @ = x THEN <<>> ELSE @] : b \in @}]

create_alias(i, d, s, t) ==
    [db EXCEPT !.aliases[i] = [dom |-> d, source |-> s, destination |-> t, active |-> TRUE]]
update_alias(i, s, t, active) ==
    IF db.aliases[i] = NoAlias THEN db
    ELSE [db EXCEPT !.aliases[i] =
            [dom |-> @.dom, source |-> s, destination |-> t, active |-> active]]
delete_alias(i) == [db EXCEPT !.aliases[i] = NoAlias]

create_forwarding(i, d, s, t, keep) ==
    [db EXCEPT !.forwardings[i] = [dom |-> d, source |-> s, destination |-> t,
                                   active |-> TRUE, keep |-> keep]]
update_forwarding(i, s, t, active, keep) ==
    IF db.forwardings[i] = NoAlias THEN db
    ELSE [db EXCEPT !.forwardings[i] = [dom |-> @.dom, source |-> s, destination |-> t,
                                        active |-> active, keep |-> keep]]
delete_forwarding(i) == [db EXCEPT !.forwardings[i] = NoAlias]

create_outbound_relay(r, auth, secret) ==
    [db EXCEPT !.relays[r] =
       [status |-> "active", auth |-> auth, secret |-> secret, assigned |-> {}]]
update_outbound_relay(r, status, auth, secret) ==
    IF db.relays[r] = NoRelay THEN db
    ELSE [db EXCEPT !.relays[r] =
            [status |-> status, auth |-> auth, secret |-> secret, assigned |-> @.assigned]]
delete_outbound_relay(r) == [db EXCEPT !.relays[r] = NoRelay]
create_relay_assignment(r, p) == [db EXCEPT !.relays[r].assigned = @ \cup {p}]
delete_relay_assignment(r, p) == [db EXCEPT !.relays[r].assigned = @ \ {p}]

set_setting(key, value) ==
    IF key = "feature_milter_enabled" THEN [db EXCEPT !.milter = value]
    ELSE [db EXCEPT !.size = value]
set_spambl_enabled(l, on) == [db EXCEPT !.lists = IF on THEN @ \cup {l} ELSE @ \ {l}]

\* UNIQUE (account_id) in each of the three tables.
InboxFree(kind, x) == HasAccount(x) /\ ~\E b \in db.inboxes : b.kind = kind /\ b.account = x
create_inbox(kind, x) ==
    [db EXCEPT !.inboxes = @ \cup {[kind |-> kind, account |-> x, ruf |-> <<>>]}]
delete_inbox(kind, x) ==
    [db EXCEPT !.inboxes = {b \in @ : ~(b.kind = kind /\ b.account = x)}]
set_dmarc_inbox_ruf(x, ruf) ==
    [db EXCEPT !.inboxes = {[b EXCEPT !.ruf = IF b.kind = "dmarc" /\ b.account = x
                                                THEN ruf ELSE @] : b \in @}]

----------------------------------------------------------------------------
(* Queries, as the generator makes them.                                   *)

Address(x) == [user |-> x[2], name |-> db.domains[x[1]].name, caps |-> FALSE]
Lower(a) == [a EXCEPT !.caps = FALSE]

list_domains == {db.domains[d] : d \in {c \in Domains : Exists(c)}}
list_all_accounts ==
    {[address |-> Address(x), active |-> db.accounts[x].status = "active",
      password |-> db.accounts[x].password] : x \in {y \in Accounts : HasAccount(y)}}
list_all_aliases == {db.aliases[i] : i \in AliasIds} \ {NoAlias}
list_all_forwardings == {db.forwardings[i] : i \in ForwardIds} \ {NoAlias}
get_active_relay_assignments ==
    UNION {{[relay |-> r, auth |-> db.relays[r].auth, secret |-> db.relays[r].secret,
             pattern |-> p] : p \in db.relays[r].assigned} :
           r \in {q \in Relays : db.relays[q].status = "active"}}

email_exists(a) ==
    \E x \in Accounts : /\ db.accounts[x].status = "active"
                        /\ db.domains[x[1]].active
                        /\ Address(x) = a

----------------------------------------------------------------------------
(* What is written from the lists.  sanitize_map_address lowers both sides *)
(* of an entry.                                                            *)

ActiveOf(rows) == {r \in rows : r.active}
IsCatchAll(a) == a.user = AnyUser
Entry(from, to) == [from |-> Lower(from), to |-> Lower(to)]
Entries(rows) == {Entry(r.source, r.destination) : r \in rows}

VirtualDomains(domains) == {d.name : d \in ActiveOf(domains)}
VirtualMailboxes(accounts) == {a.address : a \in ActiveOf(accounts)}
DovecotPasswd(accounts) ==
    {[address |-> a.address, password |-> a.password] : a \in ActiveOf(accounts)}

\* A forwarding that keeps a copy is left to recipient_bcc.
Redirecting(forwardings) ==
    {f \in ActiveOf(forwardings) : ~f.keep \/ IsCatchAll(f.source)}

BugClaims(aliases, forwardings) == {r.source : r \in ActiveOf(aliases \cup forwardings)}
SpecificSources(aliases, forwardings) ==
    {r.source : r \in ActiveOf(aliases) \cup Redirecting(forwardings)}

\* Identity entries keep a catch-all from taking the mail of real mailboxes.  Its
\* domain is compared as it was typed, with the account's in small letters.
VirtualAliases(aliases, forwardings, accounts) ==
    LET rows == ActiveOf(aliases) \cup Redirecting(forwardings)
        guarded == {r.source : r \in {q \in rows : IsCatchAll(q.source)}}
        spared == {a.address : a \in {b \in ActiveOf(accounts) :
                     /\ [b.address EXCEPT !.user = AnyUser] \in guarded
                     /\ b.address \notin SpecificSources(aliases, forwardings)}}
    IN Entries(rows) \cup {Entry(a, a) : a \in spared}

RecipientBcc(forwardings) ==
    Entries({f \in ActiveOf(forwardings) : f.keep /\ ~IsCatchAll(f.source)})

SenderLogins(aliases, accounts) ==
    LET own == {a.address : a \in ActiveOf(accounts)}
    IN Entries({a \in ActiveOf(aliases) : a.destination \in own})
         \cup {Entry(a, a) : a \in own}

TransportMaps(assignments) ==
    {[pattern |-> a.pattern, relay |-> a.relay] :
       a \in {b \in assignments : b.pattern # "two words"}}
SaslPasswd(assignments) ==
    {[relay |-> a.relay, secret |-> a.secret] :
       a \in {b \in assignments : b.auth /\ b.secret # 0}}

\* A setting that cannot be read has its default.
Setting(found, default) == IF found = {} THEN default ELSE CHOOSE v \in found : TRUE
MainCf(milter, size, lists, assignments) ==
    {[milter |-> Setting(milter, TRUE), size |-> Setting(size, "30MiB"), checks |-> lists,
      relay |-> IF \E a \in assignments : a.auth THEN "authenticated"
                ELSE IF assignments # {} THEN "plain" ELSE "none"]}

OpendkimTables(domains) ==
    {[name |-> d.name, key |-> d.key] : d \in {c \in ActiveOf(domains) : c.key # 0}}

----------------------------------------------------------------------------
(* The tables by themselves, edited one statement at a time.               *)

Becomes(tables) == db' = tables /\ UNCHANGED dbUp

EditDomains ==
    \E d \in Domains :
      \/ \E n \in DomainNames : ~Exists(d) /\ NameFree(n) /\ Becomes(create_domain(d, n))
      \/ \E n \in DomainNames, b \in BOOLEAN : Exists(d) /\ Becomes(update_domain(d, n, b))
      \/ Exists(d) /\ Becomes(delete_domain(d))

EditAccounts ==
    \E x \in Accounts :
      \/ AccountFree(x) /\ Becomes(create_account(x, 1))
      \/ \E s \in {"active", "inactive"} : HasAccount(x) /\ Becomes(update_account(x, s))
      \/ HasAccount(x) /\ ~BacksInbox(x) /\ Becomes(delete_account(x))

EditAliases ==
    \E i \in AliasIds, s \in Sources, t \in Targets :
      \/ /\ db.aliases[i] = NoAlias
         /\ email_exists(t)
         /\ \E d \in Domains :
              db.domains[d].name = s.name /\ Becomes(create_alias(i, d, s, t))
      \/ \E b \in BOOLEAN : db.aliases[i] # NoAlias /\ Becomes(update_alias(i, s, t, b))
      \/ db.aliases[i] # NoAlias /\ Becomes(delete_alias(i))

EditForwardings ==
    \E i \in ForwardIds, s \in {a \in Sources : ~IsCatchAll(a)}, t \in Targets, keep \in BOOLEAN :
      \/ /\ db.forwardings[i] = NoAlias
         /\ \E d \in Domains :
              db.domains[d].name = s.name /\ Becomes(create_forwarding(i, d, s, t, keep))
      \/ \E b \in BOOLEAN :
           db.forwardings[i] # NoAlias /\ Becomes(update_forwarding(i, s, t, b, keep))
      \/ db.forwardings[i] # NoAlias /\ Becomes(delete_forwarding(i))

TablesNext == EditDomains \/ EditAccounts \/ EditAliases \/ EditForwardings
TablesSpec == db = EmptyTables /\ dbUp = TRUE /\ [][TablesNext]_<<db, dbUp>>

----------------------------------------------------------------------------
(* Properties.                                                             *)

Tables ==
    [domains : [Domains -> [name : DomainNames, active : BOOLEAN, key : Secrets \cup {0}]
                             \cup {NoDomain}],
     accounts : [Accounts -> [status : {"active", "inactive"}, password : Secrets]
                               \cup {NoAccount}],
     aliases : [AliasIds -> [dom : Domains, source : Sources, destination : Targets,
                             active : BOOLEAN] \cup {NoAlias}],
     forwardings : [ForwardIds -> [dom : Domains, source : {s \in Sources : ~IsCatchAll(s)},
                                   destination : Targets, active : BOOLEAN, keep : BOOLEAN]
                                    \cup {NoAlias}],
     relays : [Relays -> [status : {"none", "active", "inactive"}, auth : BOOLEAN,
                          secret : Secrets \cup {0}, assigned : SUBSET Patterns]],
     milter : BOOLEAN, size : Sizes, lists : SUBSET Lists,
     inboxes : SUBSET [kind : Kinds, account : Accounts, ruf : Accounts \cup {<<>>}]]

\* Rows' types; names of domains are distinct; no account, alias, forwarding or inbox
\* outlives what it belongs to.
TablesTypeOK ==
    /\ db \in Tables /\ dbUp \in BOOLEAN
    /\ \A c, d \in Domains :
         Exists(c) /\ Exists(d) /\ db.domains[c].name = db.domains[d].name => c = d
    /\ \A x \in Accounts : HasAccount(x) => Exists(x[1])
    /\ \A a \in list_all_aliases \cup list_all_forwardings : Exists(a.dom)
    /\ \A b \in db.inboxes : HasAccount(b.account) /\ (b.ruf # <<>> => HasAccount(b.ruf))

\* Some active alias or redirecting forwarding is for this address, however spelled.
Redirected(a) ==
    \E r \in ActiveOf(list_all_aliases) \cup Redirecting(list_all_forwardings) : Lower(r.source) = a

\* The mail of a real mailbox reaches it whatever catch-alls its domain has
\* (build_virtual_alias_entries, rule 2): an active account nobody redirects is looked
\* up to itself or not at all, and to itself when its domain has a catch-all. A
\* catch-all typed with capitals is the exception.
CatchAllSparesMailboxes ==
    LET entries == VirtualAliases(list_all_aliases, list_all_forwardings, list_all_accounts)
        CaughtBy(a) == [a EXCEPT !.user = AnyUser]
    IN \A x \in ActiveOf(list_all_accounts) : ~Redirected(x.address) =>
         /\ \A e \in entries : e.from = x.address => e.to = x.address
         /\ (\E r \in ActiveOf(list_all_aliases) : r.source = CaughtBy(x.address))
              => Entry(x.address, x.address) \in entries
=============================================================================
