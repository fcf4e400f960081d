------------------------------ MODULE MCAdmin ------------------------------
(***************************************************************************)
(* What administrators and AI clients do, as one model for TLC: the mail   *)
(* tables by themselves, the tables with the files generated from them,    *)
(* webmail, its streams, and the tools of the MCP endpoint over the same   *)
(* mailbox.  A behaviour exercises one of these parts and leaves the       *)
(* others in their initial state.                                          *)
(***************************************************************************)
EXTENDS MailConfig, ImapIdle, Mcp, TLC

VARIABLE part

idle == <<newMails, stream, registry, overlapped>>
mcp == <<mcp_guard, request, admitted>>
config == <<db, dbUp, watched, disk, served, wedged, job, faults, suspect>>
allvars == <<part, config, webvars, idle, mcp>>

addr(u, n, c) == [user |-> u, name |-> n, caps |-> c]
MCSources == {addr("*", "n", FALSE), addr("*", "n", TRUE), addr("v", "n", FALSE)}
MCTargets == {addr("u", "n", FALSE)}

\* What the tables below are made of is there.
ASSUME MCAdminAssumption ==
    /\ "d" \in Domains /\ "n" \in DomainNames /\ "u" \in Users
    /\ 1 \in AliasIds /\ 1 \in ForwardIds
    /\ "r" \in Relays /\ "@n" \in Patterns
    /\ MCSources \subseteq Sources /\ MCTargets \subseteq Targets

Base ==
    [EmptyTables EXCEPT
       !.domains["d"] = [name |-> "n", active |-> TRUE, key |-> 1],
       !.accounts[<<"d", "u">>] = [status |-> "active", password |-> 1],
       !.aliases[1] = [dom |-> "d", source |-> addr("*", "n", FALSE),
                       destination |-> addr("u", "n", FALSE), active |-> TRUE],
       !.relays["r"] = [status |-> "active", auth |-> TRUE, secret |-> 1, assigned |-> {"@n"}],
       !.forwardings[1] = [dom |-> "d", source |-> addr("v", "n", FALSE),
                           destination |-> addr("u", "n", FALSE), active |-> TRUE, keep |-> TRUE],
       !.inboxes = {[kind |-> "dmarc", account |-> <<"d", "u">>, ruf |-> <<>>]}]

\* Bound of the run: requests are on the topics whose rows the watched file is written
\* from, and report inboxes, which no file shows, go with the accounts they bar from
\* deletion.
Bearing ==
    {t \in Topics :
       watched \in
         CASE t = "settings" -> {"main.cf"}
           [] t = "relays" -> {"main.cf", "transport_maps", "sasl_passwd"}
           [] t = "domains" -> Files \ {"main.cf", "transport_maps", "sasl_passwd"}
           [] t = "accounts" -> {"vmailbox", "passwd", "virtual_aliases", "sender_login_maps"}
           [] t = "inboxes" -> {"vmailbox"}
           [] t = "addresses" -> {"virtual_aliases", "recipient_bcc", "sender_login_maps"}}

\* Bound of the run: no fault strikes while one of the two files is watched that show
\* domains, accounts and addresses alike, and so have most requests.
Sheltered == watched \in {"virtual_aliases", "sender_login_maps"}

MCInit ==
    /\ part \in {"tables", "config", "webmail", "idle", "mcp"}
    /\ IF part = "config" THEN \E f \in Files : ConfigInit(Base, f)
       ELSE ConfigInit(EmptyTables, "virtual_aliases")
    /\ second = IF part = "webmail" THEN 1 ELSE 0     \* two seconds are enough for names
    /\ WebmailInit /\ McpInit /\ IdleInit

MCNext ==
    \/ /\ part = "tables" /\ TablesNext
       /\ UNCHANGED <<part, watched, disk, served, wedged, job, faults, suspect>>
       /\ UNCHANGED <<webvars, idle, mcp>>
    \/ /\ part = "config" /\ ConfigSteps(Bearing) /\ (Sheltered => faults' = faults)
       /\ UNCHANGED <<part, webvars, idle, mcp>>
    \/ part = "webmail" /\ WebmailNext /\ UNCHANGED <<part, config, idle, mcp>>
    \/ part = "idle" /\ IdleNext /\ UNCHANGED <<part, config, webvars, mcp>>
    \/ part = "mcp" /\ McpNext /\ UNCHANGED <<part, config, idle>>

MCSpec == MCInit /\ [][MCNext]_allvars

Symmetry == Permutations(Requests) \cup Permutations(Calls) \cup Permutations(Keys)

\* Types of all parts.
AdminTypeOK ==
    /\ part \in {"tables", "config"} => ConfigTypeOK
    /\ part = "webmail" => WebmailTypeOK
    /\ part = "idle" => IdleTypeOK
    /\ part = "mcp" => McpTypeOK
=============================================================================
