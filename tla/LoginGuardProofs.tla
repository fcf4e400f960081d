-------------------------- MODULE LoginGuardProofs --------------------------
(***************************************************************************)
(* Proofs about LoginGuard for any number of addresses and of requests at  *)
(* once: its type invariant, the bound on guesses, and that bans last.     *)
(***************************************************************************)
EXTENDS LoginGuard, FiniteSetTheorems, TLAPS

Record == [count : 0..MAX_FAILURES, first : Times,
           until : {NotBanned} \cup 1..(MaxTime + BAN_DURATION)]

\* A failure leaves a record of its type: below the limit without a ban, and at
\* the limit with one.
LEMMA AfterFailureType ==
    ASSUME NEW rec \in Record, now \in Times,
           rec.count = MAX_FAILURES <=> Banned(rec)
    PROVE  /\ AfterFailure(rec) \in Record
           /\ AfterFailure(rec).count = MAX_FAILURES <=> Banned(AfterFailure(rec))
<1> USE LoginGuardAssumption DEF Record, Times, NotBanned, Banned
<1>1. CASE StartsFresh(rec)
    BY <1>1 DEF AfterFailure
<1>2. CASE ~StartsFresh(rec) /\ rec.count >= MAX_FAILURES
    <2>1. AfterFailure(rec) = [rec EXCEPT !.until = now + BAN_DURATION]
        BY <1>2 DEF AfterFailure, OneMore
    <2>2. rec.count = MAX_FAILURES /\ now + BAN_DURATION \in 1..(MaxTime + BAN_DURATION)
        BY <1>2
    <2> QED
        BY <2>1, <2>2
<1>3. CASE ~StartsFresh(rec) /\ ~(rec.count >= MAX_FAILURES)
    <2>1. now + BAN_DURATION \in 1..(MaxTime + BAN_DURATION)
        OBVIOUS
    <2>2. rec.count + 1 \in 0..MAX_FAILURES /\ ~Banned(rec)
        BY <1>3
    <2>3. CASE rec.count + 1 >= MAX_FAILURES
        <3>1. AfterFailure(rec) = [count |-> rec.count + 1, first |-> rec.first,
                                   until |-> now + BAN_DURATION]
            BY <1>3, <2>3 DEF AfterFailure, OneMore
        <3>2. rec.count + 1 = MAX_FAILURES
            BY <2>2, <2>3
        <3>3. now + BAN_DURATION # -1
            BY <2>1
        <3> QED
            BY <2>1, <2>2, <3>1, <3>2, <3>3
    <2>4. CASE ~(rec.count + 1 >= MAX_FAILURES)
        <3>1. AfterFailure(rec) = [count |-> rec.count + 1, first |-> rec.first,
                                   until |-> rec.until]
            BY <1>3, <2>4 DEF AfterFailure, OneMore
        <3>2. rec.count + 1 # MAX_FAILURES
            BY <2>2, <2>4
        <3> QED
            BY <2>2, <3>1, <3>2
    <2> QED
        BY <2>3, <2>4
<1> QED
    BY <1>1, <1>2, <1>3

\* So do the look of is_locked_out and the removal of the record.
LEMMA EmptyRecord == NoRecord \in Record /\ NoRecord.count # MAX_FAILURES /\ ~Banned(NoRecord)
BY LoginGuardAssumption DEF NoRecord, Record, Times, NotBanned, Banned

\* The initial state has its type.
LEMMA InitType == Init => TypeOK
BY LoginGuardAssumption, EmptyRecord DEF Init, TypeOK, Record, Times

\* Every step keeps the types.
LEMMA TypeStep == TypeOK /\ [Next]_vars => TypeOK'
<1> SUFFICES ASSUME TypeOK, [Next]_vars PROVE TypeOK'
    OBVIOUS
<1> USE LoginGuardAssumption DEF history
<1>0. /\ failures \in [IPs -> Record]
      /\ \A a \in IPs : failures[a].count = MAX_FAILURES <=> Banned(failures[a])
    BY DEF TypeOK, Record
<1>1. ASSUME NEW q \in Requests, NEW a \in IPs, NEW good \in BOOLEAN, Arrive(q, a, good)
      PROVE  TypeOK'
    <2>1. AfterLook(failures[a]) \in {failures[a], NoRecord}
        BY DEF AfterLook
    <2>2. failures' \in [IPs -> Record]
        BY <1>0, <1>1, <2>1, EmptyRecord DEF Arrive
    <2>3. \A b \in IPs : failures'[b].count = MAX_FAILURES <=> Banned(failures'[b])
        BY <1>0, <1>1, <2>1, EmptyRecord DEF Arrive
    <2> QED
        BY <1>1, <2>2, <2>3 DEF Arrive, TypeOK, Record
<1>2. ASSUME NEW q \in Requests, Refuse(q) PROVE TypeOK'
    BY <1>2 DEF Refuse, Done, TypeOK, Banned
<1>3. ASSUME NEW q \in Requests, Fail(q) PROVE TypeOK'
    <2> DEFINE a == client[q]
    <2>1. a \in IPs /\ now \in Times
        BY <1>3 DEF Fail, TypeOK
    <2>2. /\ AfterFailure(failures[a]) \in Record
          /\ AfterFailure(failures[a]).count = MAX_FAILURES
                <=> Banned(AfterFailure(failures[a]))
        BY <1>0, <2>1, AfterFailureType
    <2>3. failures' = [failures EXCEPT ![a] = AfterFailure(failures[a])]
        BY <1>3 DEF Fail
    <2>4. failures' \in [IPs -> Record]
        BY <1>0, <2>2, <2>3
    <2>5. \A b \in IPs : failures'[b].count = MAX_FAILURES <=> Banned(failures'[b])
        BY <1>0, <2>2, <2>3
    <2>6. banEnd' \in [IPs -> 0..(MaxTime + BAN_DURATION)]
        <3>1. Banned(AfterFailure(failures[a])) =>
                AfterFailure(failures[a]).until \in 0..(MaxTime + BAN_DURATION)
            BY <2>2 DEF Record, Banned
        <3> QED
            BY <1>3, <2>1, <3>1 DEF Fail, TypeOK
    <2>7. log' \in [IPs -> [Times -> 0..MaxPerTick]]
        <3>1. log[a] \in [Times -> 0..MaxPerTick] /\ log[a][now] + 1 \in 0..MaxPerTick
            BY <1>3, <2>1 DEF Fail, TypeOK
        <3>2. [log[a] EXCEPT ![now] = log[a][now] + 1] \in [Times -> 0..MaxPerTick]
            BY <3>1
        <3>3. log' = [log EXCEPT ![a] = [log[a] EXCEPT ![now] = log[a][now] + 1]]
            BY <1>3 DEF Fail
        <3> QED
            BY <3>2, <3>3 DEF TypeOK
    <2>8. guesses' \in [IPs -> Nat] /\ loophole' \subseteq IPs
        BY <1>3, <2>1 DEF Fail, TypeOK
    <2>9. /\ client' \in [Requests -> IPs \cup {"none"}]
          /\ valid' \in [Requests -> BOOLEAN]
          /\ UNCHANGED <<now, dbUp, faults>>
        BY <1>3 DEF Fail, Done, TypeOK
    <2> QED
        BY <2>4, <2>5, <2>6, <2>7, <2>8, <2>9 DEF TypeOK, Record
<1>4. ASSUME NEW q \in Requests, Succeed(q) PROVE TypeOK'
    <2> DEFINE a == client[q]
    <2>1. a \in IPs
        BY <1>4 DEF Succeed, TypeOK
    <2>2. /\ failures' = [failures EXCEPT ![a] = NoRecord]
          /\ log' = [log EXCEPT ![a] = [t \in Times |-> 0]]
          /\ guesses' = [guesses EXCEPT ![a] = 0]
          /\ loophole' \subseteq loophole \cup {a}
          /\ UNCHANGED <<now, dbUp, faults, banEnd>>
        BY <1>4 DEF Succeed
    <2>3. failures' \in [IPs -> Record]
        BY <1>0, <2>2, EmptyRecord
    <2>4. \A b \in IPs : failures'[b].count = MAX_FAILURES <=> Banned(failures'[b])
        BY <1>0, <2>2, EmptyRecord
    <2>5. /\ client' \in [Requests -> IPs \cup {"none"}]
          /\ valid' \in [Requests -> BOOLEAN]
        BY <1>4 DEF Succeed, Done, TypeOK
    <2>6. log' \in [IPs -> [Times -> 0..MaxPerTick]]
        <3>1. [t \in Times |-> 0] \in [Times -> 0..MaxPerTick]
            OBVIOUS
        <3> QED
            BY <2>2, <3>1 DEF TypeOK
    <2> QED
        BY <2>1, <2>2, <2>3, <2>4, <2>5, <2>6 DEF TypeOK, Record
<1>5. CASE Tick
    BY <1>5 DEF Tick, TypeOK, Times, Banned
<1>6. CASE LoseConnection
    <2>1. faults' \in 0..MaxFaults
        BY <1>6 DEF LoseConnection, TypeOK
    <2>2. dbUp' = FALSE /\ UNCHANGED <<now, failures, client, valid, history>>
        BY <1>6 DEF LoseConnection
    <2> QED
        BY <2>1, <2>2 DEF TypeOK, Banned
<1>7. CASE Restart
    <2>1. faults' \in 0..MaxFaults
        BY <1>7 DEF Restart, TypeOK
    <2>2. /\ failures' \in [IPs -> Record]
          /\ \A b \in IPs : failures'[b].count = MAX_FAILURES <=> Banned(failures'[b])
        BY <1>7, EmptyRecord DEF Restart
    <2> QED
        BY <1>7, <2>1, <2>2 DEF Restart, TypeOK, Record
<1>8. CASE UNCHANGED vars
    BY <1>8 DEF vars, TypeOK, Banned
<1> QED
    BY <1>1, <1>2, <1>3, <1>4, <1>5, <1>6, <1>7, <1>8 DEF Next

\* The state of every behaviour has its type, and a record is at the limit
\* exactly when it carries a ban.
THEOREM TypeCorrect == Spec => []TypeOK
<1> QED
    BY InitType, TypeStep, PTL DEF Spec

----------------------------------------------------------------------------
(* The bound on guesses. The invariant adds that the failures counted and  *)
(* the requests under way of a banned address stay within it together: no  *)
(* request is admitted while the record carries its ban.                   *)

InFlight(a) == {q \in Requests : client[q] = a}

Allowance == MAX_FAILURES + Cardinality(Requests) - 1

GuessBound(a) ==
    /\ guesses[a] <= Allowance
    /\ failures[a] # NoRecord /\ ~Banned(failures[a]) => guesses[a] = failures[a].count
    /\ Banned(failures[a]) => guesses[a] + Cardinality(InFlight(a)) <= Allowance

GuessInv == TypeOK /\ \A a \in IPs : GuessBound(a)

\* The requests under way of an address are finitely many.
LEMMA InFlightFinite ==
    ASSUME NEW S \in SUBSET Requests
    PROVE  /\ IsFiniteSet(S)
           /\ Cardinality(S) \in Nat
           /\ Cardinality(S) <= Cardinality(Requests)
           /\ Cardinality(Requests) \in Nat
BY LoginGuardAssumption, FS_Subset, FS_CardinalityType

\* When a request ends, the address it came from has one less under way; another
\* address has as many as before.
LEMMA OneDone ==
    ASSUME TypeOK, NEW q \in Requests, client[q] # "none", Done(q), NEW a \in IPs
    PROVE  /\ Cardinality(InFlight(a)') <= Cardinality(InFlight(a))
           /\ client[q] = a =>
                /\ Cardinality(InFlight(a)') + 1 = Cardinality(InFlight(a))
                /\ Cardinality(InFlight(a)') + 1 <= Cardinality(Requests)
<1>1. InFlight(a) \in SUBSET Requests /\ InFlight(a)' \in SUBSET Requests
    BY DEF InFlight
<1>2. CASE client[q] = a
    <2>1. InFlight(a)' = InFlight(a) \ {q} /\ q \in InFlight(a)
        BY <1>2, LoginGuardAssumption DEF InFlight, Done, TypeOK
    <2>2. Cardinality(InFlight(a)') = Cardinality(InFlight(a)) - 1
        BY <1>1, <2>1, InFlightFinite, FS_RemoveElement
    <2> QED
        BY <1>1, <2>2, InFlightFinite
<1>3. CASE client[q] # a
    <2>1. InFlight(a)' = InFlight(a)
        BY <1>3, LoginGuardAssumption DEF InFlight, Done, TypeOK
    <2> QED
        BY <1>1, <1>3, <2>1, InFlightFinite
<1> QED
    BY <1>2, <1>3

\* An address that is admitted carries no ban.
LEMMA AdmittedFree ==
    ASSUME NEW rec \in Record, now \in Times, ~LockedOut(AfterLook(rec))
    PROVE  /\ ~Banned(AfterLook(rec))
           /\ AfterLook(rec) \in {rec, NoRecord}
<1>1. CASE Expired(rec)
    BY <1>1, EmptyRecord DEF AfterLook
<1>2. CASE ~Expired(rec)
    <2>1. AfterLook(rec) = rec /\ ~LockedOut(rec)
        BY <1>2 DEF AfterLook
    <2>2. CASE Banned(rec)
        <3>1. rec # NoRecord
            BY <2>2, EmptyRecord
        <3>2. rec.until \in Int /\ now \in Int
            BY LoginGuardAssumption DEF Record, Times, NotBanned
        <3> QED
            BY <1>2, <2>1, <2>2, <3>1, <3>2 DEF Expired, LockedOut, BanInForce
    <2> QED
        BY <2>1, <2>2
<1> QED
    BY <1>1, <1>2

\* A failure keeps the bound of the address it comes from.
LEMMA FailBound ==
    ASSUME GuessInv, NEW q \in Requests, Fail(q), NEW a \in IPs, a = client[q]
    PROVE  GuessBound(a)'
<1> DEFINE rec == failures[a]
<1>1. /\ Done(q) /\ client[q] # "none"
      /\ failures'[a] = AfterFailure(rec)
      /\ guesses'[a] = IF StartsFresh(rec) THEN 1 ELSE guesses[a] + 1
    BY DEF GuessInv, Fail, TypeOK
<1>2. /\ Cardinality(InFlight(a)') + 1 = Cardinality(InFlight(a))
      /\ Cardinality(InFlight(a)') + 1 <= Cardinality(Requests)
      /\ Cardinality(InFlight(a)') \in Nat /\ Cardinality(Requests) \in Nat
    BY <1>1, OneDone, InFlightFinite DEF GuessInv, InFlight
<1>3. /\ guesses[a] \in Nat /\ MAX_FAILURES \in Nat \ {0, 1}
      /\ rec.count \in 0..MAX_FAILURES /\ (rec.count = MAX_FAILURES <=> Banned(rec))
      /\ now \in Int /\ BAN_DURATION \in Nat /\ now + BAN_DURATION # -1
    BY <1>1, LoginGuardAssumption DEF GuessInv, TypeOK, Times
<1>4. GuessBound(a)
    BY <1>1 DEF GuessInv
<1>5. CASE StartsFresh(rec)
    <2>1. failures'[a] = [count |-> 1, first |-> now, until |-> NotBanned]
        BY <1>1, <1>5 DEF AfterFailure
    <2>2. guesses'[a] = 1
        BY <1>1, <1>5
    <2> QED
        BY <1>2, <1>3, <2>1, <2>2 DEF GuessBound, Allowance, Banned
<1>6. CASE ~StartsFresh(rec) /\ Banned(rec)
    <2>1. failures'[a] = [rec EXCEPT !.until = now + BAN_DURATION]
        BY <1>1, <1>3, <1>6 DEF AfterFailure, OneMore
    <2>2. Banned(failures'[a])
        BY <1>1, <1>3, <2>1 DEF Banned, NotBanned, GuessInv, TypeOK
    <2>3. guesses'[a] = guesses[a] + 1
        BY <1>1, <1>6
    <2>4. guesses'[a] + Cardinality(InFlight(a)') <= Allowance /\ guesses'[a] <= Allowance
        BY <1>2, <1>3, <1>4, <1>6, <2>3 DEF GuessBound, Allowance
    <2> QED
        BY <2>2, <2>4 DEF GuessBound, Allowance, Banned
<1>7. CASE ~StartsFresh(rec) /\ ~Banned(rec)
    <2>1. guesses'[a] = rec.count + 1 /\ rec.count < MAX_FAILURES
        BY <1>1, <1>3, <1>4, <1>7 DEF GuessBound, StartsFresh
    <2>2. failures'[a].count = rec.count + 1
        BY <1>1, <1>3, <1>7, <2>1 DEF AfterFailure, OneMore, GuessInv, TypeOK
    <2>3. /\ Cardinality(InFlight(a)') + 1 <= Cardinality(Requests)
          /\ guesses'[a] <= MAX_FAILURES
        BY <1>2, <1>3, <2>1
    <2> QED
        BY <1>2, <1>3, <2>1, <2>2, <2>3 DEF GuessBound, Allowance, Banned
<1> QED
    BY <1>5, <1>6, <1>7

\* Every step keeps the bound.
LEMMA GuessStep == GuessInv /\ [Next]_vars => GuessInv'
<1> SUFFICES ASSUME GuessInv, [Next]_vars PROVE GuessInv'
    OBVIOUS
<1> USE DEF GuessInv
<1>0. TypeOK'
    BY TypeStep
<1>1. \A b \in IPs : GuessBound(b)
    OBVIOUS
<1>2. ASSUME NEW q \in Requests, NEW a \in IPs, NEW good \in BOOLEAN, Arrive(q, a, good),
             NEW b \in IPs
      PROVE  GuessBound(b)'
    <2>1. CASE b = a
        <3>1. /\ failures'[a] = AfterLook(failures[a]) /\ guesses' = guesses
              /\ ~LockedOut(AfterLook(failures[a]))
            BY <1>2 DEF Arrive, history, TypeOK
        <3>2. ~Banned(failures'[a]) /\ failures'[a] \in {failures[a], NoRecord}
            BY <3>1, AdmittedFree DEF TypeOK, Record
        <3> QED
            BY <1>1, <2>1, <3>1, <3>2 DEF GuessBound, Allowance, Banned
    <2>2. CASE b # a
        <3>1. failures'[b] = failures[b] /\ guesses' = guesses
            BY <1>2, <2>2 DEF Arrive, history, TypeOK
        <3>2. InFlight(b)' = InFlight(b)
            BY <1>2, <2>2, LoginGuardAssumption DEF Arrive, InFlight, TypeOK
        <3> QED
            BY <1>1, <3>1, <3>2 DEF GuessBound, Allowance, Banned
    <2> QED
        BY <2>1, <2>2
<1>3. ASSUME NEW q \in Requests, Refuse(q), NEW b \in IPs
      PROVE  GuessBound(b)'
    <2>1. /\ Cardinality(InFlight(b)') <= Cardinality(InFlight(b))
          /\ Cardinality(InFlight(b)) \in Nat /\ Cardinality(InFlight(b)') \in Nat
          /\ Cardinality(Requests) \in Nat
        BY <1>3, OneDone, InFlightFinite DEF Refuse, InFlight
    <2>2. UNCHANGED <<failures, guesses>> /\ guesses[b] \in Nat /\ MAX_FAILURES \in Nat
        BY <1>3, LoginGuardAssumption DEF Refuse, history, TypeOK
    <2> QED
        BY <1>1, <2>1, <2>2 DEF GuessBound, Allowance, Banned
<1>4. ASSUME NEW q \in Requests, Fail(q), NEW b \in IPs
      PROVE  GuessBound(b)'
    <2>1. CASE b = client[q]
        BY <1>4, <2>1, FailBound
    <2>2. CASE b # client[q]
        <3>1. failures'[b] = failures[b] /\ guesses'[b] = guesses[b]
            BY <1>4, <2>2 DEF Fail, TypeOK
        <3>2. InFlight(b)' = InFlight(b)
            BY <1>4, <2>2, LoginGuardAssumption DEF Fail, Done, InFlight, TypeOK
        <3> QED
            BY <1>1, <3>1, <3>2 DEF GuessBound, Allowance, Banned
    <2> QED
        BY <2>1, <2>2
<1>5. ASSUME NEW q \in Requests, Succeed(q), NEW b \in IPs
      PROVE  GuessBound(b)'
    <2>1. CASE b = client[q]
        <3>1. failures'[b] = NoRecord /\ guesses'[b] = 0
            BY <1>5, <2>1 DEF Succeed, TypeOK
        <3>2. Allowance \in Nat
            BY LoginGuardAssumption, InFlightFinite DEF Allowance
        <3> QED
            BY <3>1, <3>2, EmptyRecord DEF GuessBound, Allowance, Banned
    <2>2. CASE b # client[q]
        <3>1. failures'[b] = failures[b] /\ guesses'[b] = guesses[b]
            BY <1>5, <2>2 DEF Succeed, TypeOK
        <3>2. InFlight(b)' = InFlight(b)
            BY <1>5, <2>2, LoginGuardAssumption DEF Succeed, Done, InFlight, TypeOK
        <3> QED
            BY <1>1, <3>1, <3>2 DEF GuessBound, Allowance, Banned
    <2> QED
        BY <2>1, <2>2
<1>6. ASSUME Restart, NEW b \in IPs
      PROVE  GuessBound(b)'
    <2>1. failures'[b] = NoRecord /\ guesses'[b] = 0
        BY <1>6 DEF Restart
    <2>2. Allowance \in Nat
        BY LoginGuardAssumption, InFlightFinite DEF Allowance
    <2> QED
        BY <2>1, <2>2, EmptyRecord DEF GuessBound, Allowance, Banned
<1>7. ASSUME UNCHANGED <<failures, guesses, client>>, NEW b \in IPs
      PROVE  GuessBound(b)'
    BY <1>1, <1>7 DEF GuessBound, InFlight, Allowance, Banned
<1> QED
    BY <1>0, <1>2, <1>3, <1>4, <1>5, <1>6, <1>7
    DEF Next, Tick, LoseConnection, vars, history

\* However many requests an address sends at once, at most MAX_FAILURES failures
\* and one for each other request the server handles at once are counted before
\* its record is made anew.
THEOREM GuessesAreBounded == Spec => []GuessesBounded
<1>1. Init => GuessInv
    <2>1. Allowance \in Nat
        BY LoginGuardAssumption, InFlightFinite DEF Allowance
    <2>2. ASSUME Init, NEW a \in IPs PROVE GuessBound(a)
        BY <2>1, <2>2, EmptyRecord DEF Init, GuessBound
    <2> QED
        BY <2>2, InitType DEF GuessInv
<1>2. GuessInv /\ [Next]_vars => GuessInv'
    BY GuessStep
<1>3. GuessInv => GuessesBounded
    BY DEF GuessInv, GuessBound, GuessesBounded, Allowance
<1> QED
    BY <1>1, <1>2, <1>3, PTL DEF Spec

----------------------------------------------------------------------------
(* Bans last: until its end, or the loophole, a ban stands in the record.  *)

BanStands(a) ==
    /\ Banned(failures[a]) => failures[a].until = banEnd[a]
    /\ now < banEnd[a] /\ a \notin loophole => Banned(failures[a])

BanInv == TypeOK /\ \A a \in IPs : BanStands(a)

\* What a failure leaves of the bans.
LEMMA FailKeepsBans ==
    ASSUME BanInv, NEW q \in Requests, Fail(q), NEW b \in IPs
    PROVE  BanStands(b)'
<1> DEFINE a == client[q]
<1> DEFINE rec == failures[a]
<1> DEFINE next == AfterFailure(rec)
<1>1. /\ a \in IPs /\ now' = now
      /\ failures' = [failures EXCEPT ![a] = next]
      /\ banEnd' = IF Banned(next) THEN [banEnd EXCEPT ![a] = next.until] ELSE banEnd
      /\ loophole' = IF Banned(next) THEN loophole \ {a}
                     ELSE IF BanInForce(rec) THEN loophole \cup {a} ELSE loophole
    BY DEF Fail, BanInv, TypeOK
<1>2. BanStands(a) /\ BanStands(b)
    BY <1>1 DEF BanInv
<1>3. CASE b # a
    <2>1. /\ failures'[b] = failures[b] /\ banEnd'[b] = banEnd[b]
          /\ b \in loophole' <=> b \in loophole
        BY <1>1, <1>3 DEF BanInv, TypeOK
    <2> QED
        BY <1>1, <1>2, <2>1 DEF BanStands, Banned
<1>4. CASE b = a /\ Banned(next)
    <2>1. failures'[b] = next /\ banEnd'[b] = next.until
        BY <1>1, <1>4 DEF BanInv, TypeOK
    <2> QED
        BY <1>4, <2>1 DEF BanStands, Banned
<1>5. CASE b = a /\ ~Banned(next)
    <2>1. failures'[b] = next /\ banEnd' = banEnd
        BY <1>1, <1>5 DEF BanInv, TypeOK
    <2>2. now < banEnd[a] /\ a \notin loophole => BanInForce(rec)
        BY <1>2 DEF BanStands, BanInForce
    <2> QED
        BY <1>1, <1>5, <2>1, <2>2 DEF BanStands, Banned
<1> QED
    BY <1>3, <1>4, <1>5

\* Every step keeps the bans.
LEMMA BanStep == BanInv /\ [Next]_vars => BanInv'
<1> SUFFICES ASSUME BanInv, [Next]_vars PROVE BanInv'
    OBVIOUS
<1>0. TypeOK' /\ TypeOK
    BY TypeStep DEF BanInv
<1>1. \A b \in IPs : BanStands(b)
    BY DEF BanInv
<1>2. ASSUME NEW q \in Requests, NEW a \in IPs, NEW good \in BOOLEAN, Arrive(q, a, good),
             NEW b \in IPs
      PROVE  BanStands(b)'
    <2>1. /\ failures' = [failures EXCEPT ![a] = AfterLook(failures[a])]
          /\ UNCHANGED <<now, banEnd, loophole>>
        BY <1>2 DEF Arrive, history
    <2>2. CASE b = a
        <3>1. failures'[b] = AfterLook(failures[b]) /\ ~Banned(AfterLook(failures[b]))
            BY <1>0, <1>2, <2>1, <2>2, AdmittedFree DEF Arrive, TypeOK, Record
        <3>2. Banned(failures[b]) => now >= failures[b].until
            BY <1>0, <3>1 DEF AfterLook, Expired
        <3>3. now \in Nat /\ banEnd[b] \in Nat
            BY <1>0, LoginGuardAssumption DEF TypeOK, Times
        <3> QED
            BY <1>1, <2>1, <3>1, <3>2, <3>3 DEF BanStands, Banned
    <2>3. CASE b # a
        <3>1. failures'[b] = failures[b]
            BY <1>0, <2>1, <2>3 DEF TypeOK
        <3> QED
            BY <1>1, <2>1, <3>1 DEF BanStands, Banned
    <2> QED
        BY <2>2, <2>3
<1>3. ASSUME NEW q \in Requests, Succeed(q), NEW b \in IPs
      PROVE  BanStands(b)'
    <2>1. /\ failures' = [failures EXCEPT ![client[q]] = NoRecord]
          /\ loophole' = IF BanInForce(failures[client[q]]) THEN loophole \cup {client[q]}
                         ELSE loophole
          /\ UNCHANGED <<now, banEnd>>
        BY <1>3 DEF Succeed
    <2>2. CASE b = client[q]
        <3>1. failures'[b] = NoRecord
            BY <1>0, <2>1, <2>2 DEF TypeOK
        <3>2. now < banEnd[b] /\ b \notin loophole => BanInForce(failures[b])
            BY <1>1 DEF BanStands, BanInForce
        <3> QED
            BY <2>1, <2>2, <3>1, <3>2, EmptyRecord DEF BanStands, Banned
    <2>3. CASE b # client[q]
        <3>1. failures'[b] = failures[b] /\ (b \in loophole' <=> b \in loophole)
            BY <1>0, <2>1, <2>3 DEF TypeOK
        <3> QED
            BY <1>1, <2>1, <3>1 DEF BanStands, Banned
    <2> QED
        BY <2>2, <2>3
<1>4. ASSUME Tick, NEW b \in IPs
      PROVE  BanStands(b)'
    <2>1. now' = now + 1 /\ UNCHANGED <<failures, banEnd, loophole>>
        BY <1>4 DEF Tick, history
    <2>2. now \in Nat /\ banEnd[b] \in Nat
        BY <1>0, LoginGuardAssumption DEF TypeOK, Times
    <2> QED
        BY <1>1, <2>1, <2>2 DEF BanStands, Banned
<1>5. ASSUME Restart, NEW b \in IPs
      PROVE  BanStands(b)'
    <2>1. failures'[b] = NoRecord /\ banEnd'[b] = 0 /\ now' = now
        BY <1>5 DEF Restart
    <2>2. now \in Nat
        BY <1>0, LoginGuardAssumption DEF TypeOK, Times
    <2> QED
        BY <2>1, <2>2, EmptyRecord DEF BanStands, Banned
<1>6. ASSUME UNCHANGED <<now, failures, banEnd, loophole>>, NEW b \in IPs
      PROVE  BanStands(b)'
    BY <1>1, <1>6 DEF BanStands, Banned
<1> QED
    BY <1>0, <1>2, <1>3, <1>4, <1>5, <1>6, FailKeepsBans
    DEF BanInv, Next, Refuse, LoseConnection, vars, history

\* An address that is let in has no ban that stands.
LEMMA ArrivalFree ==
    ASSUME BanInv, NEW q \in Requests, NEW a \in IPs, NEW good \in BOOLEAN,
           Arrive(q, a, good)
    PROVE  now >= banEnd[a] \/ a \in loophole
<1>1. BanStands(a) /\ TypeOK
    BY DEF BanInv
<1>2. ~Banned(AfterLook(failures[a]))
    BY <1>1, AdmittedFree DEF Arrive, TypeOK, Record
<1>3. Banned(failures[a]) => now >= failures[a].until
    BY <1>2 DEF AfterLook, Expired
<1>4. now \in Nat /\ banEnd[a] \in Nat
    BY <1>1, LoginGuardAssumption DEF TypeOK, Times
<1> QED
    BY <1>1, <1>3, <1>4 DEF BanStands

\* A request starts only when it arrives.
LEMMA OnlyArrivals ==
    ASSUME BanInv, Next, NEW q \in Requests, NEW a \in IPs,
           client[q] = "none", client'[q] = a
    PROVE  \E good \in BOOLEAN : Arrive(q, a, good)
<1> USE LoginGuardAssumption DEF BanInv, TypeOK
<1>1. ASSUME NEW p \in Requests, NEW b \in IPs, NEW good \in BOOLEAN, Arrive(p, b, good)
      PROVE  Arrive(q, a, good)
    <2>1. p = q /\ b = a
        BY <1>1 DEF Arrive
    <2> QED
        BY <1>1, <2>1
<1>2. ASSUME NEW p \in Requests, Refuse(p) \/ Fail(p) \/ Succeed(p) PROVE FALSE
    BY <1>2 DEF Refuse, Fail, Succeed, Done
<1>3. ~Tick /\ ~LoseConnection /\ ~Restart
    BY DEF Tick, LoseConnection, Restart
<1> QED
    BY <1>1, <1>2, <1>3 DEF Next

\* A ban keeps its address out until it ends, unless a request that was under way
\* when it began freed the address.
THEOREM BansAreHonoured == Spec => BanHonoured
<1>1. Init => BanInv
    <2>1. ASSUME Init, NEW a \in IPs PROVE BanStands(a)
        BY <2>1, EmptyRecord DEF Init, BanStands
    <2> QED
        BY <2>1, InitType DEF BanInv
<1>2. BanInv /\ [Next]_vars => BanInv'
    BY BanStep
<1>3. BanInv /\ [Next]_vars =>
        [\A q \in Requests, a \in IPs :
            client[q] = "none" /\ client'[q] = a => now >= banEnd[a] \/ a \in loophole]_vars
    BY OnlyArrivals, ArrivalFree
<1> QED
    BY <1>1, <1>2, <1>3, PTL DEF Spec, BanHonoured
----------------------------------------------------------------------------
(* Bans are earned: a record counts no failure that the log does not have  *)
(* within the window.                                                      *)

Earned(a) ==
    failures[a] # NoRecord =>
        /\ failures[a].first <= now
        /\ Cardinality(InWindow(a)) >= failures[a].count

EarnedInv == TypeOK /\ \A a \in IPs : Earned(a)

\* The failures of a window are finitely many.
LEMMA WindowFinite ==
    ASSUME NEW S \in SUBSET (Times \X (1..MaxPerTick))
    PROVE  IsFiniteSet(S) /\ Cardinality(S) \in Nat
<1>1. IsFiniteSet(Times) /\ IsFiniteSet(1..MaxPerTick)
    BY LoginGuardAssumption, FS_Interval DEF Times
<1>2. IsFiniteSet(Times \X (1..MaxPerTick))
    BY <1>1, FS_Product
<1>3. IsFiniteSet(S)
    BY <1>2, FS_Subset
<1> QED
    BY <1>3, FS_CardinalityType

\* A failure puts one more into the window that its record goes on with, and the
\* first into a new one.
LEMMA FailEarns ==
    ASSUME EarnedInv, NEW q \in Requests, Fail(q), NEW a \in IPs, a = client[q]
    PROVE  Earned(a)'
<1> DEFINE rec == failures[a]
<1> DEFINE more == <<now, log[a][now] + 1>>
<1>1. /\ TypeOK /\ now' = now /\ log[a][now] < MaxPerTick
      /\ failures'[a] = AfterFailure(rec)
      /\ log' = [log EXCEPT ![a] = [log[a] EXCEPT ![now] = log[a][now] + 1]]
    BY DEF EarnedInv, Fail, TypeOK
<1>2. /\ now \in Times /\ Times = 0..MaxTime /\ log[a] \in [Times -> 0..MaxPerTick]
      /\ rec.first \in Times /\ rec.count \in 0..MAX_FAILURES
      /\ MaxTime \in Nat /\ MaxPerTick \in Nat /\ WINDOW \in Nat
      /\ MAX_FAILURES \in Nat \ {0, 1}
    BY <1>1, LoginGuardAssumption DEF TypeOK, Times
<1>3. /\ log'[a][now] = log[a][now] + 1
      /\ \A t \in Times \ {now} : log'[a][t] = log[a][t]
    BY <1>1, <1>2 DEF TypeOK
<1>4. more \in Times \X (1..MaxPerTick)
    BY <1>1, <1>2
<1>5. CASE StartsFresh(rec)
    <2>1. failures'[a] = [count |-> 1, first |-> now, until |-> NotBanned]
        BY <1>1, <1>5 DEF AfterFailure
    <2>2. failures'[a].count = 1 /\ failures'[a].first = now
        BY <2>1
    <2>3. more \in InWindow(a)'
        <3>1. more[1] = now /\ more[2] = log'[a][now]
            BY <1>3
        <3>2. more[2] <= log'[a][more[1]]
            BY <1>2, <1>3, <3>1
        <3>3. failures'[a].first <= more[1] /\ more[1] <= failures'[a].first + WINDOW
            BY <1>2, <2>2, <3>1
        <3> HIDE DEF more
        <3> QED
            BY <1>4, <3>2, <3>3 DEF InWindow, Times
    <2>4. InWindow(a)' \in SUBSET (Times \X (1..MaxPerTick))
        BY DEF InWindow, Times
    <2>5. IsFiniteSet(InWindow(a)') /\ Cardinality(InWindow(a)') \in Nat
        BY <2>4, WindowFinite
    <2>6. Cardinality(InWindow(a)') # 0
        BY <2>3, <2>5, FS_EmptySet
    <2> QED
        BY <1>1, <1>2, <2>2, <2>5, <2>6 DEF Earned
<1>6. CASE ~StartsFresh(rec)
    <2>1. /\ rec # NoRecord /\ ~OutsideWindow(rec)
          /\ failures'[a] = OneMore(rec)
        BY <1>1, <1>6 DEF StartsFresh, AfterFailure
    <2>2. rec.first <= now /\ now <= rec.first + WINDOW /\ Cardinality(InWindow(a)) >= rec.count
        BY <1>2, <2>1 DEF EarnedInv, Earned, OutsideWindow
    <2>3. /\ failures'[a].first = rec.first
          /\ failures'[a].count \in Int /\ failures'[a].count <= rec.count + 1
        <3>1. rec \in Record
            BY <1>1 DEF TypeOK, Record
        <3>2. CASE rec.count >= MAX_FAILURES
            <4>1. failures'[a] = [rec EXCEPT !.until = now + BAN_DURATION]
                BY <2>1, <3>2 DEF OneMore
            <4> QED
                BY <1>2, <3>1, <4>1 DEF Record
        <3>3. CASE ~(rec.count >= MAX_FAILURES)
            <4> DEFINE u == IF rec.count + 1 >= MAX_FAILURES THEN now + BAN_DURATION ELSE rec.until
            <4>1. failures'[a] = [rec EXCEPT !.count = rec.count + 1, !.until = u]
                BY <2>1, <3>3 DEF OneMore
            <4> HIDE DEF u
            <4> QED
                BY <1>2, <3>1, <4>1 DEF Record
        <3> QED
            BY <3>2, <3>3
    <2>4. InWindow(a)' = InWindow(a) \cup {more}
        <3>1. \A f \in Times \X (1..MaxPerTick) :
                f[2] <= log'[a][f[1]] <=> f[2] <= log[a][f[1]] \/ f = more
            <4>1. ASSUME NEW t \in Times, NEW i \in 1..MaxPerTick
                  PROVE  i <= log'[a][t] <=> i <= log[a][t] \/ <<t, i>> = more
                <5>1. <<t, i>> = more <=> t = now /\ i = log[a][now] + 1
                    OBVIOUS
                <5>2. log[a][now] \in Int /\ i \in Int
                    BY <1>2
                <5> HIDE DEF more
                <5>3. CASE t = now
                    BY <1>3, <5>1, <5>2, <5>3
                <5>4. CASE t # now
                    BY <1>3, <5>1, <5>4
                <5> QED
                    BY <5>3, <5>4
            <4>2. ASSUME NEW f \in Times \X (1..MaxPerTick)
                  PROVE  f[1] \in Times /\ f[2] \in 1..MaxPerTick /\ f = <<f[1], f[2]>>
                OBVIOUS
            <4> HIDE DEF more
            <4> QED
                BY <4>1, <4>2
        <3>2. more[1] = now
            OBVIOUS
        <3>3. InWindow(a)' = {f \in Times \X (1..MaxPerTick) :
                  f[2] <= log'[a][f[1]] /\ rec.first <= f[1] /\ f[1] <= rec.first + WINDOW}
            BY <2>3 DEF InWindow, Times
        <3> HIDE DEF more
        <3>4. ASSUME NEW f \in Times \X (1..MaxPerTick)
              PROVE  f \in InWindow(a)' <=> f \in InWindow(a) \/ f = more
            BY <2>2, <3>1, <3>2, <3>3 DEF InWindow
        <3> QED
            BY <1>4, <3>3, <3>4 DEF InWindow
    <2>5. more \notin InWindow(a)
        <3>1. ~(log[a][now] + 1 <= log[a][now])
            BY <1>2
        <3> QED
            BY <3>1 DEF InWindow
    <2>6. IsFiniteSet(InWindow(a)) /\ Cardinality(InWindow(a)) \in Nat
        BY WindowFinite DEF InWindow
    <2> HIDE DEF more
    <2>7. Cardinality(InWindow(a)') = Cardinality(InWindow(a)) + 1
        BY <2>4, <2>5, <2>6, FS_AddElement
    <2>8. Cardinality(InWindow(a)') >= failures'[a].count
        <3> DEFINE had == Cardinality(InWindow(a))
        <3> DEFINE has == Cardinality(InWindow(a)')
        <3>1. rec.count \in Int /\ failures'[a].count \in Int /\ had \in Int /\ had >= rec.count
            BY <1>2, <2>2, <2>3, <2>6
        <3>2. has = had + 1
            BY <2>7
        <3> HIDE DEF had, has, rec
        <3>3. has >= failures'[a].count
            BY <2>3, <3>1, <3>2
        <3> QED
            BY <3>3 DEF has
    <2> QED
        BY <1>1, <2>2, <2>3, <2>8 DEF Earned
<1> QED
    BY <1>5, <1>6

\* Every step keeps records earned.
LEMMA EarnedStep == EarnedInv /\ [Next]_vars => EarnedInv'
<1> SUFFICES ASSUME EarnedInv, [Next]_vars PROVE EarnedInv'
    OBVIOUS
<1>0. TypeOK /\ TypeOK'
    BY TypeStep DEF EarnedInv
<1>1. \A b \in IPs : Earned(b)
    BY DEF EarnedInv
<1>2. ASSUME NEW b \in IPs, failures'[b] = NoRecord
      PROVE  Earned(b)'
    BY <1>2 DEF Earned
<1>3. ASSUME NEW b \in IPs, failures'[b] = failures[b], log'[b] = log[b], now' >= now
      PROVE  Earned(b)'
    <2>1. InWindow(b)' = InWindow(b)
        BY <1>3 DEF InWindow, Times
    <2>2. failures[b].first \in Int /\ now \in Int /\ now' \in Int
        BY <1>0, LoginGuardAssumption DEF TypeOK, Times
    <2> QED
        BY <1>1, <1>3, <2>1, <2>2 DEF Earned
<1>4. now' = now => now' >= now
    BY <1>0, LoginGuardAssumption DEF TypeOK, Times
<1>5. ASSUME NEW q \in Requests, NEW a \in IPs, NEW good \in BOOLEAN, Arrive(q, a, good),
             NEW b \in IPs
      PROVE  Earned(b)'
    <2>1. /\ failures' = [failures EXCEPT ![a] = AfterLook(failures[a])]
          /\ now' = now /\ log' = log
        BY <1>5 DEF Arrive, history
    <2>2. failures'[b] \in {failures[b], NoRecord}
        BY <1>0, <2>1 DEF TypeOK, AfterLook
    <2> QED
        BY <1>2, <1>3, <1>4, <2>1, <2>2
<1>6. ASSUME NEW q \in Requests, Fail(q), NEW b \in IPs
      PROVE  Earned(b)'
    <2>1. CASE b = client[q]
        BY <1>6, <2>1, FailEarns
    <2>2. CASE b # client[q]
        <3>1. failures'[b] = failures[b] /\ log'[b] = log[b] /\ now' = now
            BY <1>0, <1>6, <2>2 DEF Fail, TypeOK
        <3> QED
            BY <1>3, <1>4, <3>1
    <2> QED
        BY <2>1, <2>2
<1>7. ASSUME NEW q \in Requests, Succeed(q), NEW b \in IPs
      PROVE  Earned(b)'
    <2>1. CASE b = client[q]
        <3>1. failures'[b] = NoRecord
            BY <1>0, <1>7, <2>1 DEF Succeed, TypeOK
        <3> QED
            BY <1>2, <3>1
    <2>2. CASE b # client[q]
        <3>1. failures'[b] = failures[b] /\ log'[b] = log[b] /\ now' = now
            BY <1>0, <1>7, <2>2 DEF Succeed, TypeOK
        <3> QED
            BY <1>3, <1>4, <3>1
    <2> QED
        BY <2>1, <2>2
<1>8. ASSUME Restart, NEW b \in IPs
      PROVE  Earned(b)'
    BY <1>2, <1>8 DEF Restart
<1>9. ASSUME Tick, NEW b \in IPs
      PROVE  Earned(b)'
    <2>1. now' >= now /\ failures' = failures /\ log' = log
        BY <1>0, <1>9, LoginGuardAssumption DEF Tick, history, TypeOK, Times
    <2> QED
        BY <1>3, <2>1
<1>10. ASSUME UNCHANGED <<now, failures, log>>, NEW b \in IPs
       PROVE  Earned(b)'
    BY <1>3, <1>4, <1>10
<1> QED
    BY <1>0, <1>5, <1>6, <1>7, <1>8, <1>9, <1>10
    DEF EarnedInv, Next, Refuse, LoseConnection, vars, history

\* Whoever is locked out has failed MAX_FAILURES times since it last logged in, all
\* within WINDOW of the first of them.
THEOREM BansAreEarned == Spec => []NoUnearnedBan
<1>1. Init => EarnedInv
    BY InitType DEF Init, EarnedInv, Earned
<1>2. EarnedInv /\ [Next]_vars => EarnedInv'
    BY EarnedStep
<1>3. EarnedInv => NoUnearnedBan
    <2> SUFFICES ASSUME EarnedInv, NEW a \in IPs, BanInForce(failures[a])
                 PROVE  Cardinality(InWindow(a)) >= MAX_FAILURES
        BY DEF NoUnearnedBan
    <2>1. Banned(failures[a]) /\ failures[a] # NoRecord
        BY EmptyRecord DEF BanInForce
    <2>2. failures[a].count = MAX_FAILURES
        BY <2>1 DEF EarnedInv, TypeOK
    <2> QED
        BY <2>1, <2>2 DEF EarnedInv, Earned
<1> QED
    BY <1>1, <1>2, <1>3, PTL DEF Spec
=============================================================================
