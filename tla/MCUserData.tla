----------------------------- MODULE MCUserData -----------------------------
(***************************************************************************)
(* The stores that mail users reach with their account's password, as one  *)
(* model for TLC: WebDAV files, calendars and address books, JMAP and the  *)
(* failure limit on those passwords.  They share the server and nothing    *)
(* that one could change under the other, so a behaviour exercises one of  *)
(* them and leaves the others in their initial state.                      *)
(***************************************************************************)
EXTENDS WebDav, DavCollections, DavGuard, Jmap, TLC

VARIABLE part

MCOwner == [n \in Names |-> "alice"]
MCLower == [s \in Slugs |-> "work"]

allvars == <<part, vars, cvars, gvars, jvars>>

MCInit ==
    /\ part \in {"files", "collections", "guard", "jmap"}
    /\ Init /\ CInit /\ GInit /\ JInit
    /\ part = "files" \/ setting.quota = 0
    /\ part = "collections" \/ protocol = "caldav"

MCNext ==
    \/ part = "files" /\ Next /\ UNCHANGED <<part, cvars, gvars, jvars>>
    \/ part = "collections" /\ CNext /\ UNCHANGED <<part, vars, gvars, jvars>>
    \/ part = "guard" /\ GNext /\ UNCHANGED <<part, vars, cvars, jvars>>
    \/ part = "jmap" /\ JNext /\ UNCHANGED <<part, vars, cvars, gvars>>

MCSpec == MCInit /\ [][MCNext]_allvars

Symmetry == Permutations(Requests) \cup Permutations(Names)

\* Types of all parts.
UserDataTypeOK ==
    /\ part = "files" => TypeOK
    /\ part = "collections" => CTypeOK
    /\ part = "guard" => GTypeOK
    /\ part = "jmap" => JTypeOK
=============================================================================
