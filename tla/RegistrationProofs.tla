-------------------------- MODULE RegistrationProofs --------------------------
(***************************************************************************)
(* Theorems about self-registration (Registration.tla), for every set of   *)
(* requests, names and codes, and any number of faults.                    *)
(***************************************************************************)
EXTENDS Registration, TLAPS

\* A code that nobody has used has bought nothing and is in nobody's hands.
Unspent ==
    \A c \in Codes : codes[c] \in {"unmade", "free"} =>
        /\ bought[c] = 0
        /\ \A r \in Registrants : pc[r] = "create" => code[r] # c

\* A request that has used a code is the only one that holds it, and has not bought yet.
Held ==
    \A r \in Registrants : pc[r] = "create" =>
        /\ bought[code[r]] = 0
        /\ \A q \in Registrants : pc[q] = "create" /\ code[q] = code[r] => q = r

\* With the connection alive, a name that was found free and is in the table now was
\* taken by another request since.
Checked ==
    \A r \in Registrants :
        pc[r] \in {"code", "create"} /\ dbUp /\ name[r] \in accounts => r \in taken

IInv ==
    /\ TypeOK /\ Unspent /\ Held /\ Checked
    /\ CodeBuysOneAccount /\ NoNeedlessBurn

------------------------------------------------------------------------------

\* The initial state satisfies the invariant.
LEMMA InitInv == Init => IInv
BY RegistrationAssumption
   DEF Init, IInv, TypeOK, Unspent, Held, Checked, CodeBuysOneAccount, NoNeedlessBurn,
       None, Nobody, Deleter

\* A request takes its next step.
LEMMA TypeRequest ==
    ASSUME TypeOK, NEW r \in Registrants, Register(r) \/ HashPasswordFails(r) \/ ClientLeaves(r)
    PROVE  TypeOK'
<1> USE DEF history
<1>6. CASE ClientLeaves(r)
  <2>1. abandoned' \subseteq Codes
    BY <1>6 DEF TypeOK, ClientLeaves
  <2> QED BY <1>6, <2>1 DEF TypeOK, ClientLeaves, Goto
<1>1. CASE GetDomain(r)
  BY <1>1 DEF TypeOK, GetDomain, Goto
<1>2. CASE CheckName(r)
  BY <1>2 DEF TypeOK, CheckName, Goto
<1>3. CASE UseInviteCode(r)
  BY <1>3 DEF TypeOK, UseInviteCode, Goto
<1>4. CASE CreateAccount(r)
  <2>1. accounts' \subseteq Names /\ bought' \in [Codes -> Nat]
    BY <1>4 DEF TypeOK, CreateAccount
  <2>2. taken' \subseteq Registrants /\ excused' \subseteq Codes
    BY <1>4 DEF TypeOK, CreateAccount, Waiting
  <2> QED BY <1>4, <2>1, <2>2 DEF TypeOK, CreateAccount, Goto
<1>5. CASE HashPasswordFails(r)
  BY <1>5, RegistrationAssumption DEF TypeOK, HashPasswordFails, Goto, Fault
<1> QED BY <1>1, <1>2, <1>3, <1>4, <1>5, <1>6 DEF Register

\* An admin's handler runs.
LEMMA TypeAdmin == ASSUME TypeOK, Admin PROVE TypeOK'
<1> USE DEF history
<1>1. CASE \E c \in Codes : CreateInviteCode(c) \/ DeleteInviteCode(c)
  BY <1>1 DEF TypeOK, CreateInviteCode, DeleteInviteCode, request
<1>2. CASE \E n \in Names : AdminCreate(n)
  BY <1>2 DEF TypeOK, AdminCreate, request, Waiting
<1>3. CASE \E n \in Names : DeleteAccount(n)
  <2> PICK n \in Names : DeleteAccount(n)
    BY <1>3
  <2>1. n # None
    BY RegistrationAssumption DEF None
  <2> QED BY <2>1 DEF TypeOK, DeleteAccount, Unlocked, AfterRefusal, Release, Nobody, Deleter, request
<1>4. CASE DeleteDomain \/ CloseRegistration
  BY <1>4 DEF TypeOK, DeleteDomain, CloseRegistration, request
<1> QED BY <1>1, <1>2, <1>3, <1>4 DEF Admin

\* The connection is lost, or the server restarted.
LEMMA TypeFault == ASSUME TypeOK, LoseConnection \/ Restart PROVE TypeOK'
<1> USE DEF history
<1>1. CASE LoseConnection
  <2>1. faults' \in 0..MaxFaults
    BY <1>1, RegistrationAssumption DEF TypeOK, LoseConnection, Fault
  <2> QED BY <1>1, <2>1 DEF TypeOK, LoseConnection, request
<1>2. CASE Restart
  BY <1>2, RegistrationAssumption DEF TypeOK, Restart, Fault, InFlightCodes, Nobody, Deleter
<1> QED BY <1>1, <1>2

------------------------------------------------------------------------------
Facts == Unspent /\ Held /\ Checked /\ CodeBuysOneAccount /\ NoNeedlessBurn

\* Looking the domain and the name up changes nobody's code.
LEMMA FactsOfLookUps ==
    ASSUME IInv, NEW r \in Registrants, GetDomain(r) \/ CheckName(r)
    PROVE  Facts'
<1> USE DEF history
<1>1. \A q \in Registrants : (pc'[q] = "create") <=> (pc[q] = "create")
  BY DEF IInv, TypeOK, GetDomain, CheckName, Goto
<1>2. Checked'
  BY DEF IInv, TypeOK, Checked, GetDomain, CheckName, Goto, username_exists
<1>3. UNCHANGED <<codes, code, bought, excused, abandoned>>
  BY DEF GetDomain, CheckName, Goto
<1> QED BY <1>1, <1>2, <1>3 DEF IInv, Facts, Unspent, Held, CodeBuysOneAccount, NoNeedlessBurn

\* A code is used by one request: its row is free no longer when the next one asks.
LEMMA FactsOfCode == ASSUME IInv, NEW r \in Registrants, UseInviteCode(r) PROVE Facts'
<1> USE DEF history
<1>1. Checked'
  BY DEF IInv, TypeOK, Checked, UseInviteCode, Goto
<1>2. CASE dbUp /\ Usable(code[r])
  <2>1. /\ codes' = [codes EXCEPT ![code[r]] = name[r]]
        /\ pc' = [pc EXCEPT ![r] = "create"]
        /\ UNCHANGED <<code, name, bought, excused, abandoned>>
    BY <1>2 DEF UseInviteCode, Goto
  <2>2. code[r] \in Codes /\ codes[code[r]] = "free" /\ name[r] \in Names
    BY <1>2 DEF IInv, TypeOK, Usable
  <2>3. bought[code[r]] = 0 /\ \A q \in Registrants : pc[q] = "create" => code[q] # code[r]
    BY <2>2 DEF IInv, Unspent
  <2>4. Unspent'
    BY <2>1, <2>2, RegistrationAssumption DEF IInv, TypeOK, Unspent
  <2>5. Held'
    BY <2>1, <2>3 DEF IInv, TypeOK, Held
  <2>6. NoNeedlessBurn'
    BY <2>1, <2>2 DEF IInv, TypeOK, NoNeedlessBurn
  <2> QED BY <1>1, <2>1, <2>4, <2>5, <2>6 DEF IInv, Facts, CodeBuysOneAccount
<1>3. CASE ~(dbUp /\ Usable(code[r]))
  <2>1. pc' = [pc EXCEPT ![r] = "error"] /\ UNCHANGED <<codes, code, bought, excused, abandoned>>
        /\ pc[r] = "code"
    BY <1>3 DEF UseInviteCode, Goto
  <2>2. \A q \in Registrants : (pc'[q] = "create") <=> (pc[q] = "create")
    BY <2>1 DEF IInv, TypeOK
  <2> QED BY <1>1, <2>1, <2>2
          DEF IInv, Facts, Unspent, Held, CodeBuysOneAccount, NoNeedlessBurn
<1> QED BY <1>2, <1>3

\* A creation spends the code, or fails for a reason that excuses it.
LEMMA FactsOfCreation ==
    ASSUME IInv, NEW r \in Registrants, CreateAccount(r) \/ HashPasswordFails(r)
    PROVE  Facts'
<1>1. /\ pc[r] = "create" /\ code[r] \in Codes
      /\ UNCHANGED <<codes, code, name, dbUp>>
  BY DEF IInv, TypeOK, CreateAccount, HashPasswordFails, Goto
<1>2. \A q \in Registrants : q # r => pc'[q] = pc[q]
  BY DEF IInv, TypeOK, CreateAccount, HashPasswordFails, Goto
<1>3. pc'[r] \in {"created", "error"}
  BY DEF IInv, TypeOK, CreateAccount, HashPasswordFails, Goto
<1>4. bought[code[r]] = 0 /\ codes[code[r]] \notin {"unmade", "free"}
  BY <1>1 DEF IInv, Held, Unspent
<1>5. \A q \in Registrants : q # r /\ pc[q] = "create" => code[q] # code[r]
  BY <1>1 DEF IInv, Held
<1>6. /\ bought' \in [Codes -> Nat]
      /\ \A c \in Codes : c # code[r] => bought'[c] = bought[c]
      /\ bought'[code[r]] \in {0, 1}
  BY <1>1, <1>4 DEF IInv, TypeOK, CreateAccount, HashPasswordFails
<1>7. excused \subseteq excused' /\ abandoned' = abandoned
  BY DEF CreateAccount, HashPasswordFails
<1>8. bought'[code[r]] = 1 \/ code[r] \in excused'
  <2>1. CASE HashPasswordFails(r)
    BY <2>1 DEF HashPasswordFails
  <2>2. CASE CreateAccount(r)
    <3>1. CASE bought' = [bought EXCEPT ![code[r]] = @ + 1]
      BY <3>1, <1>1, <1>4 DEF IInv, TypeOK
    <3>2. CASE ~dbUp \/ ~exists \/ r \in taken
      BY <2>2, <3>1, <3>2 DEF CreateAccount
    <3>3. CASE dbUp /\ exists /\ r \notin taken
      <4>1. name[r] \notin accounts
        BY <1>1, <3>3 DEF IInv, Checked
      <4> QED BY <2>2, <3>1, <3>3, <4>1 DEF CreateAccount
    <3> QED BY <3>2, <3>3
  <2> QED BY <2>1, <2>2
<1>9. Checked'
  <2> SUFFICES ASSUME NEW q \in Registrants, pc'[q] \in {"code", "create"}, dbUp,
                      name[q] \in accounts'
               PROVE  q \in taken'
    BY <1>1 DEF Checked
  <2>1. q # r /\ pc'[q] = pc[q]
    BY <1>2, <1>3
  <2>2. CASE name[q] \in accounts
    BY <2>1, <2>2 DEF IInv, Checked, CreateAccount, HashPasswordFails
  <2>3. CASE name[q] \notin accounts
    BY <2>1, <2>3 DEF CreateAccount, HashPasswordFails, Waiting
  <2> QED BY <2>2, <2>3
<1>10. Unspent'
  BY <1>1, <1>2, <1>3, <1>4, <1>6 DEF IInv, Unspent
<1>11. Held'
  BY <1>1, <1>2, <1>3, <1>5, <1>6 DEF IInv, TypeOK, Held
<1>12. CodeBuysOneAccount'
  BY <1>6 DEF IInv, CodeBuysOneAccount
<1>13. NoNeedlessBurn'
  <2> SUFFICES ASSUME NEW c \in Codes, codes[c] \in Names, bought'[c] = 0
               PROVE  \/ c \in excused' \cup abandoned'
                      \/ \E q \in Registrants : pc'[q] = "create" /\ code[q] = c
    BY <1>1 DEF NoNeedlessBurn
  <2>1. CASE c = code[r]
    BY <2>1, <1>8
  <2>2. CASE c # code[r]
    BY <2>2, <1>2, <1>6, <1>7 DEF IInv, NoNeedlessBurn
  <2> QED BY <2>1, <2>2
<1> QED BY <1>9, <1>10, <1>11, <1>12, <1>13 DEF Facts

\* A code whose request is dropped is recorded.
LEMMA FactsOfLeaving == ASSUME IInv, NEW r \in Registrants, ClientLeaves(r) PROVE Facts'
<1>1. /\ UNCHANGED <<codes, code, name, dbUp, accounts, bought, taken, excused>>
      /\ \A q \in Registrants : q # r => pc'[q] = pc[q]
      /\ pc'[r] = "left"
      /\ abandoned' = IF pc[r] = "create" THEN abandoned \cup {code[r]} ELSE abandoned
  BY DEF IInv, TypeOK, ClientLeaves, Goto
<1>2. Unspent' /\ Held' /\ Checked' /\ CodeBuysOneAccount'
  BY <1>1 DEF IInv, TypeOK, Unspent, Held, Checked, CodeBuysOneAccount
<1>3. NoNeedlessBurn'
  <2> SUFFICES ASSUME NEW c \in Codes, codes[c] \in Names, bought[c] = 0
               PROVE  \/ c \in excused \cup abandoned'
                      \/ \E q \in Registrants : pc'[q] = "create" /\ code[q] = c
    BY <1>1 DEF NoNeedlessBurn
  <2>1. CASE c \in excused \cup abandoned
    BY <1>1, <2>1
  <2>2. ASSUME NEW q \in Registrants, pc[q] = "create", code[q] = c
        PROVE  \/ c \in abandoned'
               \/ pc'[q] = "create"
    BY <1>1, <2>2
  <2> QED BY <2>1, <2>2 DEF IInv, NoNeedlessBurn
<1> QED BY <1>2, <1>3 DEF Facts

\* The admin's handlers give no request a code back.
LEMMA FactsOfAdmin == ASSUME IInv, Admin PROVE Facts'
<1> USE DEF history
<1>1. /\ UNCHANGED <<pc, name, code, dbUp, bought, excused, abandoned>> /\ taken \subseteq taken'
  BY DEF Admin, CreateInviteCode, DeleteInviteCode, AdminCreate, DeleteAccount, DeleteDomain,
         CloseRegistration, request
<1>2. \A c \in Codes : /\ codes'[c] \in {"unmade", "free"} => codes[c] \in {"unmade", "free"}
                       /\ codes'[c] \in Names => codes[c] = codes'[c]
  <2>1. CASE \E c \in Codes : CreateInviteCode(c) \/ DeleteInviteCode(c)
    BY <2>1, RegistrationAssumption DEF IInv, TypeOK, CreateInviteCode, DeleteInviteCode
  <2>2. CASE \E n \in Names : DeleteAccount(n)
    BY <2>2, RegistrationAssumption DEF IInv, TypeOK, DeleteAccount
  <2>3. CASE (\E n \in Names : AdminCreate(n)) \/ DeleteDomain \/ CloseRegistration
    BY <2>3 DEF AdminCreate, DeleteDomain, CloseRegistration
  <2> QED BY <2>1, <2>2, <2>3 DEF Admin
<1>3. \A r \in Registrants : pc[r] \in {"code", "create"} /\ name[r] \in accounts' =>
          name[r] \in accounts \/ r \in taken'
  BY DEF Admin, CreateInviteCode, DeleteInviteCode, AdminCreate, DeleteAccount, DeleteDomain,
         CloseRegistration, Waiting
<1> QED BY <1>1, <1>2, <1>3
        DEF IInv, Facts, Unspent, Held, Checked, CodeBuysOneAccount, NoNeedlessBurn

\* A restart cuts the requests under way and excuses their codes.
LEMMA FactsOfFault == ASSUME IInv, LoseConnection \/ Restart PROVE Facts'
<1> USE DEF history
<1>1. CASE LoseConnection
  BY <1>1 DEF LoseConnection, request, IInv, Facts, Unspent, Held, Checked, CodeBuysOneAccount,
              NoNeedlessBurn
<1>2. CASE Restart
  <2>1. \A r \in Registrants : pc'[r] \notin {"name", "code", "create"}
    BY <1>2 DEF Restart, IInv, TypeOK
  <2>2. UNCHANGED <<codes, code, bought, abandoned>> /\ excused' = excused \cup InFlightCodes
    BY <1>2 DEF Restart
  <2> QED BY <2>1, <2>2 DEF InFlightCodes, IInv, Facts, Unspent, Held, Checked,
             CodeBuysOneAccount, NoNeedlessBurn
<1> QED BY <1>1, <1>2

------------------------------------------------------------------------------

\* Every reachable state satisfies the invariant.
THEOREM Inductive == Spec => []IInv
<1>1. IInv /\ [Next]_vars => IInv'
  <2> SUFFICES ASSUME IInv, [Next]_vars PROVE IInv'
    OBVIOUS
  <2>1. CASE Admin
    BY <2>1, TypeAdmin, FactsOfAdmin DEF IInv, Facts
  <2>2. CASE LoseConnection \/ Restart
    BY <2>2, TypeFault, FactsOfFault DEF IInv, Facts
  <2>3. ASSUME NEW r \in Registrants, Register(r) \/ HashPasswordFails(r) \/ ClientLeaves(r)
        PROVE  IInv'
    <3>1. TypeOK'
      BY <2>3, TypeRequest DEF IInv
    <3>2. Facts'
      BY <2>3, FactsOfLookUps, FactsOfCode, FactsOfCreation, FactsOfLeaving DEF Register
    <3> QED BY <3>1, <3>2 DEF IInv, Facts
  <2>4. CASE UNCHANGED vars
    BY <2>4 DEF vars, history, request, IInv, TypeOK, Unspent, Held, Checked, CodeBuysOneAccount,
                NoNeedlessBurn
  <2> QED BY <2>1, <2>2, <2>3, <2>4 DEF Next
<1> QED BY InitInv, <1>1, PTL DEF Spec

\* The tables, the mutex and the requests have their types, and only delete_account
\* keeps the mutex (Database::conn).
THEOREM TypeCorrect == Spec => []TypeOK
<1>1. IInv => TypeOK
  BY DEF IInv
<1> QED BY Inductive, <1>1, PTL

\* An invite code buys one account, for any number of requests that present it at once
\* (use_invite_code).
THEOREM CodesBuyOnce == Spec => []CodeBuysOneAccount
<1>1. IInv => CodeBuysOneAccount
  BY DEF IInv
<1> QED BY Inductive, <1>1, PTL

\* A code is used up for nothing only when another request took the name after the
\* check, the domain went, something failed, or the client left (handle_form).
THEOREM BurnsExplained == Spec => []NoNeedlessBurn
<1>1. IInv => NoNeedlessBurn
  BY DEF IInv
<1> QED BY Inductive, <1>1, PTL
=============================================================================
