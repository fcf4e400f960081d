------------------------------ MODULE DavStore ------------------------------
(***************************************************************************)
(* What the file storage of src/web/routes/webdav.rs promises its clients, *)
(* without rows, tokens, disk or locks: a name shows nothing, a broken     *)
(* file, or a content that was uploaded to that very name and was pending  *)
(* when it appeared: its upload was under way, or is what an upload that   *)
(* was given up can still put there.  What is no longer pending never      *)
(* comes back, and no step changes two names.                              *)
(***************************************************************************)
CONSTANTS Names, Uploads

Nothing == "nothing"   \* the name does not exist
Broken == "broken"     \* the name exists, its content is gone or cut short

VARIABLES
    store,     \* store[n]: Nothing, Broken, or the upload whose content n shows
    pending    \* contents that may yet appear: [upload, name]

svars == <<store, pending>>

StoreInit ==
    /\ store = [n \in Names |-> Nothing]
    /\ pending = {}

\* What name n may show next.
Offered(n) == {Nothing, Broken} \cup {a.upload : a \in {b \in pending : b.name = n}}

Begin(u, n) ==
    /\ pending' = pending \cup {[upload |-> u, name |-> n]}
    /\ UNCHANGED store

\* One name changes; contents may cease to be pending with it.
Change(n) ==
    /\ \E c \in Offered(n) : store' = [store EXCEPT ![n] = c]
    /\ pending' \in SUBSET pending

End ==
    /\ pending' \in SUBSET pending
    /\ UNCHANGED store

StoreNext ==
    \/ \E u \in Uploads, n \in Names : Begin(u, n)
    \/ \E n \in Names : Change(n)
    \/ End

StoreSpec == StoreInit /\ [][StoreNext]_svars
=============================================================================
