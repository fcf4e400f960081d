-------------------------- MODULE SendQuotaProofs --------------------------
(***************************************************************************)
(* Proofs about SendQuota for every number of requests, days and limits:   *)
(* its type invariant, that no request is refused before its limit is used *)
(* up, and that no more is sent on a day than the limit allows, but for    *)
(* stale dates and stray refunds.                                          *)
(***************************************************************************)
EXTENDS SendQuota, FiniteSetTheorems, TLAPS

\* The requests charged to a day are finitely many.
LEMMA ChargedFinite ==
    ASSUME TypeOK, NEW d
    PROVE  IsFiniteSet(Charged(d)) /\ Cardinality(Charged(d)) \in Nat
<1>1. Charged(d) \subseteq Requests
    BY DEF Charged, TypeOK
<1>2. IsFiniteSet(Charged(d))
    BY <1>1, SendQuotaAssumption, FS_Subset
<1> QED
    BY <1>2, FS_CardinalityType

\* Every step keeps the types.
LEMMA TypeStep == TypeOK /\ [Next]_vars => TypeOK'
<1> SUFFICES ASSUME TypeOK, [Next]_vars PROVE TypeOK'
    OBVIOUS
<1> USE SendQuotaAssumption DEF TypeOK, Dates, NoDate, Goto, row, request, history
<1>1. ASSUME NEW r \in Requests, LookUpAccount(r) PROVE TypeOK'
    BY <1>1 DEF LookUpAccount
<1>2. ASSUME NEW r \in Requests, ReadLimit(r) PROVE TypeOK'
    <2>1. lim' \in [Requests -> 0..MaxLimit] /\ day' \in [Requests -> Dates]
        BY <1>2 DEF ReadLimit
    <2> QED
        BY <1>2, <2>1 DEF ReadLimit
<1>3. ASSUME NEW r \in Requests, CheckAndIncrement(r) PROVE TypeOK'
    <2>1. day[r] \in Dates /\ CountOn(r) \in Nat
        BY DEF CountOn
    <2> QED
        BY <1>3, <2>1 DEF CheckAndIncrement
<1>4. ASSUME NEW r \in Requests, NEW ok \in BOOLEAN, BuildMessage(r, ok)
      PROVE  TypeOK'
    BY <1>4 DEF BuildMessage
<1>5. ASSUME NEW r \in Requests, NEW accepted \in BOOLEAN, NEW ok \in BOOLEAN,
             SendMessage(r, accepted, ok)
      PROVE  TypeOK'
    BY <1>5 DEF SendMessage
<1>6. ASSUME NEW r \in Requests, Refund(r) PROVE TypeOK'
    BY <1>6 DEF Refund, OneLess
<1>7. ASSUME NEW n \in Limits, SetLimit(n) PROVE TypeOK'
    BY <1>7 DEF SetLimit
<1>8. CASE Midnight
    BY <1>8 DEF Midnight
<1>9. CASE LoseConnection
    <2>1. faults' \in 0..MaxFaults
        BY <1>9 DEF LoseConnection
    <2>2. dbUp' \in BOOLEAN
        BY <1>9 DEF LoseConnection
    <2>3. UNCHANGED <<today, limit, row, request, history>>
        BY <1>9 DEF LoseConnection
    <2> QED
        BY <2>1, <2>2, <2>3
<1>10. CASE Restart
    BY <1>10 DEF Restart
<1>11. CASE UNCHANGED vars
    BY <1>11 DEF vars
<1> QED
    BY <1>1, <1>2, <1>3, <1>4, <1>5, <1>6, <1>7, <1>8, <1>9, <1>10, <1>11
    DEF Next, Handle

\* The initial state has its type.
LEMMA InitType == Init => TypeOK
BY SendQuotaAssumption DEF Init, TypeOK, Dates, NoDate

\* The state of every behaviour has its type.
THEOREM TypeCorrect == Spec => []TypeOK
<1> QED
    BY InitType, TypeStep, PTL DEF Spec

----------------------------------------------------------------------------
(* The count never exceeds what is charged to its date. The converse does  *)
(* not hold: a late refund takes one from a count that holds another send. *)

\* A request that was counted or refunded has passed its check, so it is charged
\* at most once.
PastCheck == \A r \in counted \cup refunded : pc[r] \notin {"new", "limit", "check"}

CountBacked == count <= Cardinality(Charged(date))

QuotaInv == TypeOK /\ PastCheck /\ CountBacked

\* A check that passes charges one more request to its date.
LEMMA CheckCharges ==
    ASSUME QuotaInv, NEW r \in Requests, CheckAndIncrement(r)
    PROVE  CountBacked'
<1> USE DEF QuotaInv
<1>0. TypeOK'
    BY TypeStep DEF Next, Handle
<1>1. CASE dbUp /\ AtLimit(CountOn(r), lim[r])
    <2>1. Charged(day[r])' = Charged(day[r])
        BY <1>1 DEF CheckAndIncrement, Charged
    <2>2. CountOn(r) <= Cardinality(Charged(day[r]))
        BY ChargedFinite DEF CountOn, CountBacked
    <2>3. date' = day[r] /\ count' = CountOn(r)
        BY <1>1 DEF CheckAndIncrement
    <2>4. Charged(date)' = Charged(day[r])
        BY <1>1, <2>3 DEF CheckAndIncrement, Charged
    <2> QED
        BY <2>2, <2>3, <2>4 DEF CountBacked
<1>2. CASE dbUp /\ ~AtLimit(CountOn(r), lim[r])
    <2>1. date' = day[r] /\ count' = CountOn(r) + 1 /\ counted' = counted \cup {r}
          /\ day' = day /\ refunded' = refunded
        BY <1>2 DEF CheckAndIncrement
    <2>2. r \notin counted \cup refunded
        BY DEF CheckAndIncrement, PastCheck
    <2>3. Charged(date)' = Charged(day[r]) \cup {r}
        BY <2>1, <2>2 DEF Charged
    <2>4. r \notin Charged(day[r])
        BY <2>2 DEF Charged
    <2>5. Cardinality(Charged(date)') = Cardinality(Charged(day[r])) + 1
        BY <2>3, <2>4, ChargedFinite, FS_AddElement
    <2>6. CountOn(r) <= Cardinality(Charged(day[r]))
        BY ChargedFinite DEF CountOn, CountBacked
    <2>7. CountOn(r) \in Nat /\ Cardinality(Charged(day[r])) \in Nat
        BY ChargedFinite DEF CountOn, TypeOK
    <2> QED
        BY <2>1, <2>5, <2>6, <2>7 DEF CountBacked
<1>3. CASE ~dbUp
    <2>1. UNCHANGED <<count, date, counted, refunded, day>>
        BY <1>3 DEF CheckAndIncrement
    <2> QED
        BY <2>1 DEF CountBacked, Charged
<1> QED
    BY <1>1, <1>2, <1>3

\* A refund takes one from the count; it takes a charge from the count's date only
\* when the refunded send was charged there.
LEMMA RefundBacked ==
    ASSUME QuotaInv, NEW r \in Requests, Refund(r)
    PROVE  CountBacked'
<1> USE DEF QuotaInv
<1>1. CASE ~dbUp
    BY <1>1 DEF Refund, CountBacked, Charged
<1>2. CASE dbUp
    <2>1. /\ count' = OneLess(count) /\ refunded' = refunded \cup {r}
          /\ UNCHANGED <<date, day, counted>>
        BY <1>2 DEF Refund
    <2>2. Charged(date)' = Charged(date) \ {r}
        BY <2>1 DEF Charged
    <2>3. /\ Cardinality(Charged(date)') \in Nat
          /\ Cardinality(Charged(date)) <= Cardinality(Charged(date)') + 1
        <3>1. CASE r \in Charged(date)
            <4>1. Cardinality(Charged(date) \ {r}) = Cardinality(Charged(date)) - 1
                BY <3>1, ChargedFinite, FS_RemoveElement
            <4>2. IsFiniteSet(Charged(date) \ {r})
                BY ChargedFinite, FS_RemoveElement
            <4>3. Cardinality(Charged(date) \ {r}) \in Nat
                BY <4>2, FS_CardinalityType
            <4> QED
                BY <2>2, <4>1, <4>3, ChargedFinite
        <3>2. CASE r \notin Charged(date)
            <4>1. Charged(date)' = Charged(date)
                BY <2>2, <3>2
            <4> QED
                BY <4>1, ChargedFinite
        <3> QED
            BY <3>1, <3>2
    <2>4. count \in Nat /\ Cardinality(Charged(date)) \in Nat
        BY ChargedFinite DEF TypeOK
    <2> QED
        BY <2>1, <2>3, <2>4 DEF CountBacked, OneLess
<1> QED
    BY <1>1, <1>2

\* Every step keeps the invariant.
LEMMA QuotaStep == QuotaInv /\ [Next]_vars => QuotaInv'
<1> SUFFICES ASSUME QuotaInv, [Next]_vars PROVE QuotaInv'
    OBVIOUS
<1>0. TypeOK'
    BY TypeStep DEF QuotaInv
<1> USE DEF QuotaInv, row, request, history
<1>1. ASSUME UNCHANGED <<count, date, day, counted, refunded>> PROVE CountBacked'
    BY <1>1 DEF CountBacked, Charged
<1>2. ASSUME NEW r \in Requests, LookUpAccount(r) PROVE QuotaInv'
    <2>1. PastCheck'
        BY <1>2 DEF LookUpAccount, PastCheck, Goto, TypeOK
    <2> QED
        BY <1>0, <1>1, <1>2, <2>1 DEF LookUpAccount
<1>3. ASSUME NEW r \in Requests, ReadLimit(r) PROVE QuotaInv'
    <2>1. PastCheck' /\ r \notin counted
        BY <1>3 DEF ReadLimit, PastCheck, Goto, TypeOK
    <2>2. Charged(date)' = Charged(date) /\ count' = count
        BY <1>3, <2>1 DEF ReadLimit, Charged, TypeOK
    <2> QED
        BY <1>0, <2>1, <2>2 DEF CountBacked
<1>4. ASSUME NEW r \in Requests, CheckAndIncrement(r) PROVE QuotaInv'
    <2>1. PastCheck'
        BY <1>4 DEF CheckAndIncrement, PastCheck, Goto, TypeOK
    <2> QED
        BY <1>0, <1>4, <2>1, CheckCharges
<1>5. ASSUME NEW r \in Requests, NEW ok \in BOOLEAN, BuildMessage(r, ok)
      PROVE  QuotaInv'
    <2>1. PastCheck'
        BY <1>5 DEF BuildMessage, PastCheck, Goto, TypeOK
    <2> QED
        BY <1>0, <1>1, <1>5, <2>1 DEF BuildMessage
<1>6. ASSUME NEW r \in Requests, NEW accepted \in BOOLEAN, NEW ok \in BOOLEAN,
             SendMessage(r, accepted, ok)
      PROVE  QuotaInv'
    <2>1. PastCheck'
        BY <1>6 DEF SendMessage, PastCheck, Goto, TypeOK
    <2> QED
        BY <1>0, <1>1, <1>6, <2>1 DEF SendMessage
<1>7. ASSUME NEW r \in Requests, Refund(r) PROVE QuotaInv'
    <2>1. PastCheck'
        BY <1>7 DEF Refund, PastCheck, Goto, TypeOK
    <2> QED
        BY <1>0, <1>7, <2>1, RefundBacked
<1>8. CASE Restart
    <2>1. PastCheck'
        BY <1>8 DEF Restart, PastCheck, TypeOK
    <2> QED
        BY <1>0, <1>1, <1>8, <2>1 DEF Restart
<1>9. ASSUME UNCHANGED <<row, request, history>> PROVE QuotaInv'
    BY <1>0, <1>1, <1>9 DEF PastCheck
<1> QED
    BY <1>2, <1>3, <1>4, <1>5, <1>6, <1>7, <1>8, <1>9
    DEF Next, Handle, SetLimit, Midnight, LoseConnection, vars

\* A refusal finds the limit charged: the count it compares is 0 on a new day,
\* and otherwise backed by what is charged to that day.
LEMMA RefusalStep ==
    QuotaInv /\ [Next]_vars =>
        [\A r \in Requests :
            pc[r] = "check" /\ pc'[r] = "refused" =>
                Cardinality(Charged(day[r])) >= lim[r]]_vars
<1> SUFFICES ASSUME QuotaInv, Next, NEW r \in Requests,
                    pc[r] = "check", pc'[r] = "refused"
             PROVE  Cardinality(Charged(day[r])) >= lim[r]
    OBVIOUS
<1> USE DEF QuotaInv
<1>1. CheckAndIncrement(r)
    BY DEF Next, Handle, LookUpAccount, ReadLimit, CheckAndIncrement, BuildMessage,
           SendMessage, Refund, Goto, SetLimit, Midnight, LoseConnection, Restart,
           request, TypeOK
<1>2. AtLimit(CountOn(r), lim[r])
    BY <1>1 DEF CheckAndIncrement, Goto, TypeOK
<1>3. CountOn(r) <= Cardinality(Charged(day[r]))
    BY ChargedFinite DEF CountOn, CountBacked
<1>4. CountOn(r) \in Nat /\ lim[r] \in Nat /\ Cardinality(Charged(day[r])) \in Nat
    BY ChargedFinite, SendQuotaAssumption DEF CountOn, TypeOK
<1> QED
    BY <1>2, <1>3, <1>4 DEF AtLimit

\* No request is refused before its limit is used up.
THEOREM RefusalsAreDue == Spec => NoEarlyRefusal
<1>1. Init => QuotaInv
    <2>1. ASSUME Init PROVE CountBacked /\ PastCheck
        <3>1. Charged(date) = {}
            BY <2>1 DEF Init, Charged
        <3> QED
            BY <2>1, <3>1, FS_EmptySet DEF Init, CountBacked, PastCheck
    <2> QED
        BY <2>1, InitType DEF QuotaInv
<1>2. QuotaInv /\ [Next]_vars => QuotaInv'
    BY QuotaStep
<1>3. QuotaInv /\ [Next]_vars =>
        [\A r \in Requests :
            pc[r] = "check" /\ pc'[r] = "refused" =>
                Cardinality(Charged(day[r])) >= lim[r]]_vars
    BY RefusalStep
<1> QED
    BY <1>1, <1>2, <1>3, PTL DEF Spec, NoEarlyRefusal

----------------------------------------------------------------------------
(* The sends under the limit of a day. Used counts a send that was charged *)
(* to the day and may still be, or has been, delivered.                    *)

Used(d) == {r \in counted : day[r] = d /\ (r \in delivered \/ r \notin refunded)}

\* A day's sends may have been let through in as many rounds as there were stale
\* dates, and one more if the row carries, or has carried, the day.
Extra == MaxLimit * stale + stray

Within(d) ==
    /\ Cardinality(Used(d)) <= MaxLimit + Extra
    /\ d = date => Cardinality(Used(d)) <= count + Extra
    /\ d = today /\ d # date => Cardinality(Used(d)) <= Extra

\* No date is ahead of the calendar, and a refund ends its request.
NotAhead ==
    /\ date <= today
    /\ \A r \in Requests : day[r] <= today
    /\ \A r \in refunded : pc[r] = "failed"

LimitInv ==
    /\ TypeOK /\ PastCheck /\ NotAhead
    /\ count <= MaxLimit
    /\ \A d \in Dates : Within(d)

\* The sends of a day are finitely many.
LEMMA UsedFinite ==
    ASSUME TypeOK, NEW d
    PROVE  IsFiniteSet(Used(d)) /\ Cardinality(Used(d)) \in Nat
<1>1. Used(d) \subseteq Requests
    BY DEF Used, TypeOK
<1> QED
    BY <1>1, SendQuotaAssumption, FS_Subset, FS_CardinalityType

\* A smaller set of them has no more elements.
LEMMA UsedSmaller ==
    ASSUME TypeOK, NEW d, NEW S, S \subseteq Used(d)
    PROVE  Cardinality(S) \in Nat /\ Cardinality(S) <= Cardinality(Used(d))
BY UsedFinite, FS_Subset, FS_CardinalityType

\* What the exceptions allow is a number, and one more stale date allows one more
\* MaxLimit.
LEMMA ExtraNat ==
    ASSUME TypeOK
    PROVE  Extra \in Nat /\ MaxLimit * (stale + 1) + stray = Extra + MaxLimit
<1>1. MaxLimit \in Nat /\ stale \in Nat /\ stray \in Nat
    BY SendQuotaAssumption DEF TypeOK
<1>2. MaxLimit * stale \in Nat /\ MaxLimit * (stale + 1) = MaxLimit * stale + MaxLimit
    BY <1>1
<1> QED
    BY <1>1, <1>2 DEF Extra

\* When a check runs with the connection alive, the count it compares leaves room
\* for what its day has had; a check that leaves today's row is a stale one.
LEMMA CheckRoom ==
    ASSUME LimitInv, NEW r \in Requests, CheckAndIncrement(r), dbUp
    PROVE  /\ CountOn(r) \in 0..MaxLimit
           /\ Cardinality(Used(day[r])) <= CountOn(r) + Extra'
           /\ day[r] # today => Extra' = Extra + MaxLimit
           /\ Extra \in Nat /\ Extra' \in Nat /\ Extra <= Extra'
<1> USE DEF LimitInv
<1>1. /\ day[r] \in Dates /\ day[r] \in Nat /\ today \in Nat /\ MaxLimit \in Nat
      /\ day[r] <= today /\ count \in 0..MaxLimit
    BY SendQuotaAssumption DEF TypeOK, Dates, NotAhead
<1>2. Extra \in Nat /\ MaxLimit * (stale + 1) + stray = Extra + MaxLimit
    BY ExtraNat
<1>3. Extra' = IF day[r] < today THEN Extra + MaxLimit ELSE Extra
    <2>1. stray' = stray /\ stale' = IF day[r] < today THEN stale + 1 ELSE stale
        BY DEF CheckAndIncrement
    <2>2. CASE day[r] < today
        <3>1. Extra' = MaxLimit * (stale + 1) + stray
            BY <2>1, <2>2 DEF Extra
        <3> QED
            BY <1>2, <2>2, <3>1
    <2>3. CASE ~(day[r] < today)
        BY <2>1, <2>3 DEF Extra
    <2> QED
        BY <2>2, <2>3
<1>4. Cardinality(Used(day[r])) \in Nat
    BY UsedFinite
<1>5. Within(day[r])
    BY <1>1
<1>6. Cardinality(Used(day[r])) <= CountOn(r) + Extra'
    BY <1>1, <1>2, <1>3, <1>4, <1>5 DEF Within, CountOn
<1> QED
    BY <1>1, <1>2, <1>3, <1>6 DEF CountOn

\* A check keeps the sends of every day within what is allowed.
LEMMA CheckWithin ==
    ASSUME LimitInv, NEW r \in Requests, CheckAndIncrement(r), NEW d \in Dates
    PROVE  Within(d)' /\ count' <= MaxLimit
<1> USE DEF LimitInv
<1>1. /\ Within(d) /\ d \in Nat /\ today' = today /\ day' = day
      /\ refunded' = refunded /\ delivered' = delivered
      /\ Cardinality(Used(d)) \in Nat /\ MaxLimit \in Nat /\ count \in Nat
    BY UsedFinite, SendQuotaAssumption DEF CheckAndIncrement, TypeOK, Dates
<1>2. CASE ~dbUp
    <2>1. UNCHANGED <<count, date, counted>> /\ stray' = stray
          /\ stale' \in {stale, stale + 1}
        BY <1>2 DEF CheckAndIncrement
    <2>2. Used(d)' = Used(d)
        BY <1>1, <2>1 DEF Used
    <2>3. Extra' \in {Extra, Extra + MaxLimit} /\ Extra \in Nat
        <3>1. Extra' = MaxLimit * stale' + stray
            BY <2>1 DEF Extra
        <3> QED
            BY <2>1, <3>1, ExtraNat DEF Extra
    <2> QED
        BY <1>1, <2>1, <2>2, <2>3 DEF Within
<1>3. CASE dbUp /\ AtLimit(CountOn(r), lim[r])
    <2>1. count' = CountOn(r) /\ date' = day[r] /\ counted' = counted
        BY <1>3 DEF CheckAndIncrement
    <2>2. Used(d)' = Used(d)
        BY <1>1, <2>1 DEF Used
    <2> QED
        BY <1>1, <1>3, <2>1, <2>2, CheckRoom DEF Within
<1>4. CASE dbUp /\ ~AtLimit(CountOn(r), lim[r])
    <2>1. /\ count' = CountOn(r) + 1 /\ date' = day[r] /\ counted' = counted \cup {r}
          /\ r \notin counted \cup refunded
        BY <1>4 DEF CheckAndIncrement, PastCheck
    <2>2. count' \in 1..MaxLimit
        <3>1. lim[r] \in 0..MaxLimit
            BY DEF TypeOK
        <3> QED
            BY <1>1, <1>4, <2>1, <3>1, CheckRoom DEF AtLimit
    <2>3. CASE d = day[r]
        <3>1. Used(d)' = Used(d) \cup {r} /\ r \notin Used(d)
            BY <1>1, <2>1, <2>3 DEF Used
        <3>2. Cardinality(Used(d)') = Cardinality(Used(d)) + 1
            BY <3>1, UsedFinite, FS_AddElement
        <3> QED
            BY <1>1, <1>4, <2>1, <2>2, <2>3, <3>2, CheckRoom DEF Within
    <2>4. CASE d # day[r]
        <3>1. Used(d)' = Used(d)
            BY <1>1, <2>1, <2>4 DEF Used
        <3> QED
            BY <1>1, <1>4, <2>1, <2>2, <2>4, <3>1, CheckRoom DEF Within
    <2> QED
        BY <2>3, <2>4
<1> QED
    BY <1>2, <1>3, <1>4

\* A refund either gives back a send of the count's date, or is counted in stray.
LEMMA RefundWithin ==
    ASSUME LimitInv, NEW r \in Requests, Refund(r), NEW d \in Dates
    PROVE  Within(d)' /\ count' <= MaxLimit
<1> USE DEF LimitInv
<1>1. /\ Within(d) /\ UNCHANGED <<today, date, day, counted, delivered, stale>>
      /\ Cardinality(Used(d)) \in Nat /\ MaxLimit \in Nat /\ count \in 0..MaxLimit
      /\ MaxLimit * stale \in Nat /\ stray \in Nat
    BY UsedFinite, SendQuotaAssumption DEF Refund, TypeOK
<1>2. CASE ~dbUp
    <2>1. UNCHANGED <<count, refunded, stray>>
        BY <1>2 DEF Refund
    <2>2. Used(d)' = Used(d) /\ Extra' = Extra
        BY <1>1, <2>1 DEF Used, Extra
    <2> QED
        BY <1>1, <2>1, <2>2 DEF Within
<1>3. CASE dbUp
    <2>1. count' = OneLess(count) /\ refunded' = refunded \cup {r}
        BY <1>3 DEF Refund
    <2>2. /\ count' \in Nat /\ count' <= MaxLimit
          /\ \A x \in Nat : x <= count + Extra => x <= count' + (Extra + 1)
          /\ \A x \in Nat : x <= count + Extra => x - 1 <= count' + Extra
        <3>1. OneLess(count) \in Nat /\ count <= OneLess(count) + 1 /\ OneLess(count) <= count
            BY <1>1 DEF OneLess
        <3> QED
            BY <1>1, <2>1, <3>1, ExtraNat
    <2>3. Used(d)' \subseteq Used(d)
        BY <1>1, <2>1 DEF Used
    <2>4. Cardinality(Used(d)') \in Nat /\ Cardinality(Used(d)') <= Cardinality(Used(d))
        BY <2>3, UsedSmaller
    <2>5. CASE r \in counted \ delivered /\ day[r] = date
        <3>1. Extra' = Extra /\ Extra \in Nat
            BY <1>1, <1>3, <2>5 DEF Refund, Extra
        <3>2. d = date => Cardinality(Used(d)') <= count' + Extra
            <4>1. SUFFICES ASSUME d = date
                           PROVE  Cardinality(Used(d)') <= count' + Extra
                OBVIOUS
            <4>2. r \in Used(d) /\ Used(d)' = Used(d) \ {r}
                <5>1. r \notin refunded
                    BY DEF Refund, NotAhead
                <5> QED
                    BY <1>1, <2>1, <2>5, <4>1, <5>1 DEF Used
            <4>3. Cardinality(Used(d)') = Cardinality(Used(d)) - 1
                BY <4>2, UsedFinite, FS_RemoveElement
            <4>4. Cardinality(Used(d)) <= count + Extra
                BY <1>1, <4>1 DEF Within
            <4> QED
                BY <1>1, <2>2, <4>3, <4>4
        <3> QED
            BY <1>1, <2>2, <2>4, <3>1, <3>2 DEF Within
    <2>6. CASE ~(r \in counted \ delivered /\ day[r] = date)
        <3>1. stray' = stray + 1
            BY <1>3, <2>6 DEF Refund
        <3>2. Extra' = Extra + 1 /\ Extra \in Nat
            BY <1>1, <3>1 DEF Extra
        <3>3. Cardinality(Used(d)') <= MaxLimit + Extra'
            BY <1>1, <2>4, <3>2 DEF Within
        <3>4. d = date => Cardinality(Used(d)') <= count' + Extra'
            <4>1. SUFFICES ASSUME d = date
                           PROVE  Cardinality(Used(d)') <= count' + Extra'
                OBVIOUS
            <4>2. Cardinality(Used(d)') <= count + Extra
                BY <1>1, <2>4, <3>2, <4>1 DEF Within
            <4> QED
                BY <2>2, <2>4, <3>2, <4>2
        <3>5. d = today /\ d # date => Cardinality(Used(d)') <= Extra'
            BY <1>1, <2>4, <3>2 DEF Within
        <3> QED
            BY <1>1, <2>2, <3>3, <3>4, <3>5 DEF Within
    <2> QED
        BY <2>5, <2>6
<1> QED
    BY <1>2, <1>3

\* Every step keeps dates behind the calendar, and refunded requests over.
LEMMA NotAheadStep == LimitInv /\ [Next]_vars => NotAhead'
<1> SUFFICES ASSUME LimitInv, [Next]_vars PROVE NotAhead'
    OBVIOUS
<1>1. TypeOK /\ NotAhead /\ today \in Nat /\ date \in Nat
    BY DEF LimitInv, TypeOK, Dates
<1> USE DEF row, request, history
<1>2. ASSUME NEW r \in Requests, ReadLimit(r) PROVE NotAhead'
    <2>1. day' \in [Requests -> Nat] /\ \A q \in Requests : day'[q] <= today'
        BY <1>1, <1>2 DEF ReadLimit, NotAhead, TypeOK, Dates
    <2> QED
        BY <1>1, <1>2, <2>1 DEF ReadLimit, NotAhead, TypeOK, Goto
<1>3. ASSUME NEW r \in Requests, CheckAndIncrement(r) PROVE NotAhead'
    BY <1>1, <1>3 DEF CheckAndIncrement, NotAhead, TypeOK, Goto
<1>4. ASSUME NEW r \in Requests,
             \/ LookUpAccount(r)
             \/ \E ok \in BOOLEAN : BuildMessage(r, ok)
             \/ \E accepted, ok \in BOOLEAN : SendMessage(r, accepted, ok)
             \/ Refund(r)
      PROVE  NotAhead'
    BY <1>1, <1>4
    DEF LookUpAccount, BuildMessage, SendMessage, Refund, NotAhead, TypeOK, Goto
<1>5. CASE Midnight
    <2>1. today' = today + 1 /\ UNCHANGED <<date, day, refunded, pc>>
        BY <1>5 DEF Midnight
    <2> QED
        BY <1>1, <2>1 DEF NotAhead, TypeOK, Dates
<1>6. CASE Restart
    BY <1>1, <1>6 DEF Restart, NotAhead, TypeOK
<1>7. ASSUME UNCHANGED <<today, date, day, refunded, pc>> PROVE NotAhead'
    BY <1>1, <1>7 DEF NotAhead
<1> QED
    BY <1>2, <1>3, <1>4, <1>5, <1>6, <1>7
    DEF Next, Handle, SetLimit, LoseConnection, vars

\* Every step keeps the sends of every day within what is allowed.
LEMMA LimitStep == LimitInv /\ [Next]_vars => LimitInv'
<1> SUFFICES ASSUME LimitInv, [Next]_vars PROVE LimitInv'
    OBVIOUS
<1>1. TypeOK /\ PastCheck /\ NotAhead /\ count <= MaxLimit /\ TypeOK' /\ NotAhead'
    BY TypeStep, NotAheadStep DEF LimitInv
<1>2. PastCheck'
    BY <1>1
    DEF Next, Handle, LookUpAccount, ReadLimit, CheckAndIncrement, BuildMessage,
        SendMessage, Refund, SetLimit, Midnight, LoseConnection, Restart, Goto, row,
        request, history, vars, PastCheck, TypeOK
<1>3. SUFFICES ASSUME NEW d \in Dates PROVE Within(d)' /\ count' <= MaxLimit
    BY <1>1, <1>2, SendQuotaAssumption DEF LimitInv, Dates
<1>4. Within(d)
    BY DEF LimitInv
<1>5. ASSUME Used(d)' = Used(d), UNCHANGED <<count, date, today, stale, stray>>
      PROVE  Within(d)' /\ count' <= MaxLimit
    BY <1>1, <1>4, <1>5 DEF Within, Extra
<1> USE DEF row, request, history
<1>6. ASSUME UNCHANGED <<row, day, today, history>>
      PROVE  Within(d)' /\ count' <= MaxLimit
    BY <1>5, <1>6 DEF Used
<1>7. ASSUME NEW r \in Requests, ReadLimit(r) PROVE Within(d)' /\ count' <= MaxLimit
    <2>1. r \notin counted /\ UNCHANGED <<count, date, today, history>>
          /\ \A q \in Requests : q # r => day'[q] = day[q]
        BY <1>1, <1>7 DEF ReadLimit, PastCheck, TypeOK
    <2>2. Used(d)' = Used(d)
        BY <1>1, <2>1 DEF Used, TypeOK
    <2> QED
        BY <1>5, <2>1, <2>2
<1>8. ASSUME NEW r \in Requests, NEW accepted \in BOOLEAN, NEW ok \in BOOLEAN,
             SendMessage(r, accepted, ok)
      PROVE  Within(d)' /\ count' <= MaxLimit
    <2>1. r \notin refunded /\ UNCHANGED <<count, date, today, stale, stray, counted, day, refunded>>
          /\ delivered' \in {delivered, delivered \cup {r}}
        BY <1>1, <1>8 DEF SendMessage, NotAhead
    <2>2. Used(d)' = Used(d)
        BY <2>1 DEF Used
    <2> QED
        BY <1>5, <2>1, <2>2
<1>9. CASE Midnight
    <2>1. /\ today' = today + 1 /\ d \in Nat /\ today \in Nat
          /\ UNCHANGED <<count, date, stale, stray, counted, refunded, delivered, day>>
        BY <1>1, <1>9 DEF Midnight, Dates, TypeOK
    <2>2. Used(d)' = Used(d) /\ Extra' = Extra
        BY <2>1 DEF Used, Extra
    <2>3. d = today' => Cardinality(Used(d)) = 0
        <3>1. d = today' => Used(d) = {}
            <4>1. \A r \in counted : day[r] <= today /\ day[r] \in Nat
                BY <1>1 DEF NotAhead, TypeOK, Dates
            <4> QED
                BY <2>1, <4>1 DEF Used
        <3> QED
            BY <3>1, FS_EmptySet
    <2> QED
        BY <1>1, <1>4, <2>1, <2>2, <2>3, ExtraNat DEF Within
<1> QED
    BY <1>6, <1>7, <1>8, <1>9, CheckWithin, RefundWithin
    DEF Next, Handle, LookUpAccount, BuildMessage, SetLimit, LoseConnection, Restart, vars

\* No more messages of a day are delivered under the limit than it allows, but for
\* the stale dates and the stray refunds.
THEOREM LimitIsKept == Spec => []LimitHolds
<1>1. Init => LimitInv
    <2>1. SUFFICES ASSUME Init PROVE LimitInv
        OBVIOUS
    <2>2. TypeOK /\ PastCheck
        BY <2>1, InitType DEF Init, PastCheck
    <2>3. \A d \in Dates : Used(d) = {}
        BY <2>1 DEF Init, Used
    <2>4. Extra \in Nat /\ MaxLimit \in Nat
        BY <2>2, ExtraNat, SendQuotaAssumption
    <2>5. \A d \in Dates : Within(d)
        BY <2>1, <2>3, <2>4, FS_EmptySet DEF Init, Within
    <2> QED
        BY <2>1, <2>2, <2>4, <2>5 DEF Init, LimitInv, NotAhead, NoDate
<1>2. LimitInv /\ [Next]_vars => LimitInv'
    BY LimitStep
<1>3. LimitInv => LimitHolds
    <2>1. SUFFICES ASSUME LimitInv, NEW d \in 1..MaxDays
                   PROVE  Cardinality({r \in counted \cap delivered : day[r] = d})
                            <= MaxLimit * (1 + stale) + stray
        BY DEF LimitHolds
    <2> DEFINE sent == {r \in counted \cap delivered : day[r] = d}
    <2>2. TypeOK /\ d \in Dates /\ MaxLimit \in Nat /\ stale \in Nat
        BY <2>1, SendQuotaAssumption DEF LimitInv, Dates, TypeOK
    <2>3. sent \subseteq Used(d)
        BY DEF Used
    <2>4. Cardinality(sent) \in Nat /\ Cardinality(sent) <= Cardinality(Used(d))
        BY <2>2, <2>3, UsedSmaller
    <2>5. Cardinality(Used(d)) \in Nat /\ Cardinality(Used(d)) <= MaxLimit + Extra
        BY <2>1, <2>2, UsedFinite DEF LimitInv, Within
    <2>6. MaxLimit * (1 + stale) + stray = MaxLimit + Extra /\ Extra \in Nat
        <3>1. 1 + stale = stale + 1
            BY <2>2
        <3>2. MaxLimit * (1 + stale) = MaxLimit * (stale + 1)
            BY <3>1
        <3> QED
            BY <2>2, <3>2, ExtraNat
    <2> HIDE DEF sent
    <2>7. Cardinality(sent) <= MaxLimit * (1 + stale) + stray
        BY <2>2, <2>4, <2>5, <2>6
    <2> QED
        BY <2>7 DEF sent
<1> QED
    BY <1>1, <1>2, <1>3, PTL DEF Spec
=============================================================================
