-------------------------------- MODULE Mcp --------------------------------
(***************************************************************************)
(* Tool calls of AI clients (src/web/routes/mcp.rs) and the guard that     *)
(* limits them (McpGuard in src/web/mod.rs), over the mailbox of Webmail.  *)
(* A call passes the guard, runs, and reports its outcome; calls of one    *)
(* key overlap.  The clock is Webmail's, with a shorter window.  Logs and  *)
(* webhooks are left out; initialize and tools/list touch nothing.         *)
(***************************************************************************)
EXTENDS Webmail, Sequences

CONSTANTS
    Keys,          \* fingerprints of API tokens, or "admin"
    Calls,
    Window,        \* 60 seconds
    RATE_LIMIT,                \* MCP_RATE_LIMIT_PER_MIN
    DESTRUCTIVE_RATE_LIMIT,    \* MCP_DESTRUCTIVE_RATE_LIMIT_PER_MIN
    MaxFailures                \* bound on the counter of failures

ASSUME McpAssumption ==
    /\ Window \in Nat /\ MaxFailures \in Nat
    /\ RATE_LIMIT \in Nat /\ DESTRUCTIVE_RATE_LIMIT \in Nat

Tools == {"list_accounts", "list_emails", "read_email", "send_email", "delete_email", "unknown"}

VARIABLES
    mcp_guard,    \* mcp_guard[k]: call_times, destructive_times, consecutive_failures
    request,      \* request[c]: step, key, tool
    \* History, read by properties alone:
    admitted      \* calls let through since the start: [call, key, at, destructive]

mcpvars == <<webvars, mcp_guard, request, admitted>>
mailbox == <<second, maildir, page, answer, send, mfaults, copies, removed>>

NoRequest == [pc |-> "idle", key |-> "none", tool |-> "none"]
Answered == [NoRequest EXCEPT !.pc = "answered"]
FreshGuard == [calls |-> <<>>, destructive |-> <<>>, failures |-> 0]

McpInit ==
    /\ mcp_guard = [k \in Keys |-> FreshGuard]
    /\ request = [c \in Calls |-> NoRequest]
    /\ admitted = {}

----------------------------------------------------------------------------
(* The guard.                                                              *)

IsDestructive(tool) == tool \in {"send_email", "delete_email"}

\* Times are popped from the front until one is recent.
FirstRecent(times) ==
    CHOOSE i \in 1..(Len(times) + 1) : /\ \A j \in 1..(i - 1) : times[j] + Window < second
                                      /\ i <= Len(times) => times[i] + Window >= second
Recent(times) == SubSeq(times, FirstRecent(times), Len(times))
evict_old(g) == [g EXCEPT !.calls = Recent(@), !.destructive = Recent(@)]

Refuses(g, destructive) ==
    \/ Len(g.calls) >= RATE_LIMIT
    \/ destructive /\ Len(g.destructive) >= DESTRUCTIVE_RATE_LIMIT

BugRecorded(g, destructive) == [g EXCEPT !.calls = Append(@, second)]
Recorded(g, destructive) ==
    [g EXCEPT !.calls = Append(@, second),
              !.destructive = IF destructive THEN Append(@, second) ELSE @]

\* check_and_record: a refused call is not recorded.
handle(c, k, tool) ==
    /\ request[c].pc = "idle"
    /\ LET g == evict_old(mcp_guard[k]) destructive == IsDestructive(tool) IN
       IF Refuses(g, destructive)
         THEN /\ mcp_guard' = [mcp_guard EXCEPT ![k] = g]
              /\ request' = [request EXCEPT ![c] = Answered]
              /\ UNCHANGED admitted
         ELSE /\ mcp_guard' = [mcp_guard EXCEPT ![k] = Recorded(g, destructive)]
              /\ request' = [request EXCEPT ![c] = [pc |-> "running", key |-> k, tool |-> tool]]
              /\ admitted' = admitted \cup
                   {[call |-> c, key |-> k, at |-> second, destructive |-> destructive]}
    /\ UNCHANGED mailbox

record_outcome(g, success) ==
    [g EXCEPT !.failures = IF success THEN 0 ELSE IF @ < MaxFailures THEN @ + 1 ELSE @]

Outcome(c) ==
    /\ request[c].pc \in {"succeeded", "failed"}
    /\ LET k == request[c].key IN
       mcp_guard' = [mcp_guard EXCEPT ![k] = record_outcome(@, request[c].pc = "succeeded")]
    /\ request' = [request EXCEPT ![c] = Answered]
    /\ UNCHANGED <<mailbox, admitted>>

----------------------------------------------------------------------------
(* Tools.  Where the account is not in the table, or cannot be looked up,  *)
(* the tool fails at once.                                                 *)

Runs(c, tool) == request[c].pc = "running" /\ request[c].tool = tool
Returns(c, ok) ==
    /\ request' = [request EXCEPT ![c].pc = IF ok THEN "succeeded" ELSE "failed", ![c].tool = "none"]
    /\ UNCHANGED <<mcp_guard, admitted>>

dispatch_tool_call(c) ==      \* an unknown tool, or arguments that are refused
    /\ request[c].pc = "running"
    /\ Returns(c, FALSE)
    /\ UNCHANGED mailbox

tool_list_accounts(c) ==
    /\ Runs(c, "list_accounts")
    /\ Returns(c, TRUE)
    /\ UNCHANGED mailbox

tool_list_emails(c, folder) ==
    /\ Runs(c, "list_emails")
    /\ Returns(c, TRUE)
    /\ inbox(folder)

tool_read_email(c, x) ==
    /\ Runs(c, "read_email")
    /\ Returns(c, Found(x) # {})
    /\ Shows(x)

\* No daily limit, no copy in .Sent.
tool_send_email(c, accepted) ==
    /\ Runs(c, "send_email")
    /\ Returns(c, accepted)
    /\ UNCHANGED mailbox

\* A name that is gone is an error here.
tool_delete_email(c, x) ==
    /\ Runs(c, "delete_email")
    /\ Returns(c, Found(x) # {})
    /\ delete_email(x)

\* The guard is in memory; a call under way is lost.
ServerRestarts ==
    /\ mfaults < MaxMailFaults
    /\ mfaults' = mfaults + 1
    /\ mcp_guard' = [k \in Keys |-> FreshGuard]
    /\ request' = [c \in Calls |-> IF request[c].pc = "idle" THEN NoRequest
                                   ELSE Answered]
    /\ admitted' = {}
    /\ UNCHANGED <<second, maildir, page, answer, send, copies, removed>>

ToolCall(c) ==
    \/ \E k \in Keys, tool \in Tools : handle(c, k, tool)
    \/ dispatch_tool_call(c) \/ tool_list_accounts(c)
    \/ \E folder \in {"INBOX", ".Sent"} : tool_list_emails(c, folder)
    \/ \E x \in page : tool_read_email(c, x) \/ tool_delete_email(c, x)
    \/ \E b \in BOOLEAN : tool_send_email(c, b)
    \/ Outcome(c)

McpNext ==
    \/ \E c \in Calls : ToolCall(c)
    \/ ServerRestarts
    \/ /\ \/ \E m \in Incoming : Deliver(m)
          \/ \E f \in maildir : SeenByClient(f)
          \/ Tick
       /\ UNCHANGED <<mcp_guard, request, admitted>>

McpSpec == WebmailInit /\ McpInit /\ [][McpNext]_mcpvars

----------------------------------------------------------------------------
(* Properties.                                                             *)

McpTypeOK ==
    /\ WebmailTypeOK
    /\ \A k \in Keys : /\ mcp_guard[k].failures \in 0..MaxFailures
                       /\ Len(mcp_guard[k].destructive) <= Len(mcp_guard[k].calls)
    /\ \A c \in Calls : request[c].pc \in {"idle", "running", "succeeded", "failed", "answered"}

AdmittedIn(k, t, only) ==
    {a \in admitted : a.key = k /\ a.at \in t..(t + Window) /\ (only => a.destructive)}

\* However calls, outcomes and time interleave, no key gets more than RATE_LIMIT calls,
\* or DESTRUCTIVE_RATE_LIMIT that send or delete, into any Window (handle,
\* check_and_record): a call is counted when it starts, also when it fails.
McpLimitHolds ==
    \A k \in Keys, t \in 0..MaxSecond :
      /\ Cardinality(AdmittedIn(k, t, FALSE)) <= RATE_LIMIT
      /\ Cardinality(AdmittedIn(k, t, TRUE)) <= DESTRUCTIVE_RATE_LIMIT
=============================================================================
