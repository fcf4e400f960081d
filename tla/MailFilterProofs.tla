-------------------------- MODULE MailFilterProofs --------------------------
(***************************************************************************)
(* Theorems about the content filter of MailFilter.tla, for every set of   *)
(* messages, rules and limits, and any number of faults.                   *)
(***************************************************************************)
EXTENDS MailFilter, FiniteSetTheorems, SequenceTheorems, TLAPS

\* A message the filter suppresses had its recipient opt out during the attempt.
Suppression ==
    \A m \in Messages :
        /\ pc[m] = "idle" => ~suppressed[m] /\ ~steady[m]
        /\ pc[m] # "idle" /\ Party[m] \in unsubscribed => optedOut[m]
        /\ suppressed[m] => optedOut[m]

\* Until an attempt succeeds, no copy was reported to Postfix; a process about to
\* exit has one to report.
Unsent ==
    \A m \in Messages :
        /\ pc[m] = "exiting" => copies[m] > 0 /\ copies[m] <= 1 + unreported[m]
        /\ pc[m] # "exiting" /\ (queue[m] = "queued" \/ pc[m] # "idle") =>
             copies[m] <= unreported[m]

\* What a rule let through was counted, while the count was within its limit.
Counted ==
    \A k \in Rules \X Senders :
        /\ IsFiniteSet(passed[k])
        /\ Cardinality(passed[k]) <= counts[k]
        /\ Cardinality(passed[k]) <= Limit[k[1]]

\* While the opt-out stands, an attempt can only end in suppression.
Steady ==
    \A m \in Messages : steady[m] =>
        /\ dbUp /\ filterOn /\ Party[m] \in unsubscribed /\ m \in Promotional
        /\ pc[m] \in {"open", "toggle", "limit", "unsub", "send"}
        /\ pc[m] # "open" => conn[m]
        /\ pc[m] = "send" => suppressed[m]

IInv ==
    /\ TypeOK /\ Suppression /\ Unsent /\ Counted /\ Steady
    /\ NoSilentLoss /\ DuplicatesExplained

Keys == Rules \X Senders

-----------------------------------------------------------------------------
(* Types.                                                                  *)

LEMMA FaultType == ASSUME TypeOK, Fault PROVE faults' \in 0..MaxFaults
BY MailFilterAssumption DEF TypeOK, Fault

\* A process moves on, and leaves the queue alone.
LEMMA StepType ==
  ASSUME TypeOK, NEW m \in Messages, NEW from, NEW to \in Steps, from # "idle",
         Step(m, from, to)
  PROVE  /\ pc' \in [Messages -> Steps]
         /\ \A n \in Messages : pc'[n] # "idle" => queue[n] # "gone"
BY DEF TypeOK, Step

LEMMA ExitType ==
  ASSUME TypeOK, NEW m \in Messages, NEW status, Exit(m, status)
  PROVE  /\ queue' \in [Messages -> {"queued", "gone", "deleted"}]
         /\ pc' \in [Messages -> Steps]
         /\ \A n \in Messages : pc'[n] # "idle" => queue'[n] # "gone"
         /\ conn' \in [Messages -> BOOLEAN]
         /\ seen' \in [Messages -> SUBSET Messages]
         /\ rules' \in [Messages -> Seq(Rules)]
         /\ suppressed' \in [Messages -> BOOLEAN]
         /\ token' \in [Messages -> BOOLEAN]
         /\ optedOut' \in [Messages -> BOOLEAN]
         /\ steady' \in [Messages -> BOOLEAN]
BY DEF TypeOK, Exit, Steps

LEMMA SessionType ==
  ASSUME TypeOK, NEW m \in Messages, NEW accepted, NEW reply, Session(m, accepted, reply)
  PROVE  /\ copies' \in [Messages -> Nat] /\ unreported' \in [Messages -> Nat]
         /\ faults' \in 0..MaxFaults
<1>1. copies' \in [Messages -> Nat]
  BY DEF TypeOK, Session
<1>2. unreported' \in [Messages -> Nat]
  BY DEF TypeOK, Session
<1>3. faults' \in 0..MaxFaults
  BY FaultType DEF TypeOK, Session
<1> QED BY <1>1, <1>2, <1>3

LEMMA AfterSessionType ==
  ASSUME TypeOK, NEW m \in Messages, NEW reply, pc[m] # "idle", AfterSession(m, reply)
  PROVE  /\ queue' \in [Messages -> {"queued", "gone", "deleted"}]
         /\ pc' \in [Messages -> Steps]
         /\ \A n \in Messages : pc'[n] # "idle" => queue'[n] # "gone"
         /\ conn' \in [Messages -> BOOLEAN]
         /\ seen' \in [Messages -> SUBSET Messages]
         /\ rules' \in [Messages -> Seq(Rules)]
         /\ suppressed' \in [Messages -> BOOLEAN]
         /\ token' \in [Messages -> BOOLEAN]
         /\ optedOut' \in [Messages -> BOOLEAN]
         /\ steady' \in [Messages -> BOOLEAN]
<1>1. CASE reply = "ok"
  <2>1. "exiting" \in Steps
    BY DEF Steps
  <2> QED BY <1>1, <2>1 DEF TypeOK, AfterSession, locals, optouts
<1>2. CASE reply # "ok"
  <2>1. Exit(m, FailureStatus(reply))
    BY <1>2 DEF AfterSession
  <2> QED BY <2>1, ExitType
<1> QED BY <1>1, <1>2

LEMMA IncrementType ==
  ASSUME TypeOK, NEW k \in Keys
  PROVE  /\ k[1] \in Rules /\ Limit[k[1]] \in Nat /\ Limit[k[1]] > 0
         /\ Increment(k) \in 0..(Limit[k[1]] + 1)
BY MailFilterAssumption DEF TypeOK, Increment, Keys

LEMMA TypeInv == ASSUME TypeOK, [Next]_vars PROVE TypeOK'
<1>1. ASSUME NEW m \in Messages, Start(m) PROVE TypeOK'
  <2>1. pc' \in [Messages -> Steps] /\ \A n \in Messages : pc'[n] # "idle" => queue[n] # "gone"
    BY <1>1 DEF TypeOK, Start, Steps
  <2>2. seen' \in [Messages -> SUBSET Messages] /\ optedOut' \in [Messages -> BOOLEAN]
        /\ steady' \in [Messages -> BOOLEAN]
    BY <1>1 DEF TypeOK, Start
  <2> QED BY <1>1, <2>1, <2>2 DEF TypeOK, Start, database, outcome, window
<1>2. ASSUME NEW m \in Messages, OpenDb(m) PROVE TypeOK'
  <2>1. (IF dbUp THEN "toggle" ELSE OnOutage) \in Steps
    BY DEF OnOutage, Steps
  <2>2. conn' \in [Messages -> BOOLEAN]
    BY <1>2 DEF TypeOK, OpenDb
  <2> QED BY <1>2, <2>1, <2>2, StepType DEF TypeOK, OpenDb, database, outcome, optouts, window
<1>3. ASSUME NEW m \in Messages, ReadRules(m) PROVE TypeOK'
  <2>1. (IF conn[m] /\ ~filterOn THEN "send" ELSE "limit") \in Steps
    BY DEF Steps
  <2>2. seen' \in [Messages -> SUBSET Messages]
    <3>1. CASE seen' = seen
      BY <3>1 DEF TypeOK
    <3>2. CASE seen' = [seen EXCEPT ![m] = @ \cup {m}]
      BY <3>2 DEF TypeOK
    <3> QED BY <1>3, <3>1, <3>2 DEF ReadRules
  <2>3. rules' \in [Messages -> Seq(Rules)]
    <3>1. Matching[m] \in Seq(Rules) /\ <<>> \in Seq(Rules)
      BY MailFilterAssumption
    <3>2. CASE rules' = rules
      BY <3>2 DEF TypeOK
    <3>3. CASE rules' = [rules EXCEPT ![m] = IF conn[m] /\ m \notin seen[m] THEN Matching[m] ELSE <<>>]
      BY <3>1, <3>3 DEF TypeOK
    <3> QED BY <1>3, <3>2, <3>3 DEF ReadRules
  <2> QED BY <1>3, <2>1, <2>2, <2>3, StepType DEF TypeOK, ReadRules, database, outcome, optouts, window
<1>4. ASSUME NEW m \in Messages, CheckRule(m) PROVE TypeOK'
  <2> DEFINE k == <<Head(rules[m]), Sender[m]>>
  <2>1. rules[m] \in Seq(Rules) /\ rules[m] # <<>>
    BY <1>4 DEF TypeOK, CheckRule
  <2>2. Head(rules[m]) \in Rules /\ Tail(rules[m]) \in Seq(Rules)
    BY <2>1, HeadTailProperties
  <2>3. k \in Keys
    BY <2>2 DEF Keys, Senders
  <2>4. DOMAIN counts' = Keys
    BY <1>4 DEF TypeOK, CheckRule, Keys
  <2>5. \A j \in Keys : counts'[j] \in 0..(Limit[j[1]] + 1)
    BY <1>4, <2>3, IncrementType DEF TypeOK, CheckRule, Keys
  <2>6. started' \in [Keys -> SUBSET Messages] /\ passed' \in [Keys -> SUBSET Messages]
    BY <1>4, <2>3 DEF TypeOK, CheckRule, Keys
  <2>7. \/ Exit(m, EX_TEMPFAIL)
        \/ /\ rules' = [rules EXCEPT ![m] = Tail(@)]
           /\ UNCHANGED <<queue, pc, conn, seen, suppressed, token, optouts>>
    BY <1>4 DEF CheckRule
  <2>8. rules' = [rules EXCEPT ![m] = Tail(@)] => rules' \in [Messages -> Seq(Rules)]
    BY <2>2 DEF TypeOK
  <2> QED BY <1>4, <2>4, <2>5, <2>6, <2>7, <2>8, ExitType DEF TypeOK, CheckRule, Keys, optouts, outcome
<1>5. ASSUME NEW m \in Messages, CheckDomain(m) PROVE TypeOK'
  <2>1. (IF conn[m] /\ m \in Promotional THEN "unsub" ELSE "send") \in Steps
    BY DEF Steps
  <2> QED BY <1>5, <2>1, StepType DEF TypeOK, CheckDomain, database, locals, outcome, optouts, window
<1>6. ASSUME NEW m \in Messages, CheckUnsubscribed(m) PROVE TypeOK'
  <2>1. (IF is_unsubscribed(m) THEN "send" ELSE "token") \in Steps
    BY DEF Steps
  <2>2. suppressed' \in [Messages -> BOOLEAN]
    BY <1>6 DEF TypeOK, CheckUnsubscribed, is_unsubscribed
  <2> QED
    BY <1>6, <2>1, <2>2, StepType
       DEF TypeOK, CheckUnsubscribed, database, outcome, optouts, window
<1>7. ASSUME NEW m \in Messages, CreateToken(m) PROVE TypeOK'
  <2>1. "send" \in Steps
    BY DEF Steps
  <2>2. token' \in [Messages -> BOOLEAN]
    BY <1>7 DEF TypeOK, CreateToken
  <2> QED BY <1>7, <2>1, <2>2, StepType DEF TypeOK, CreateToken, database, outcome, optouts, window
<1>8. ASSUME NEW m \in Messages, Drop(m) PROVE TypeOK'
  BY <1>8, ExitType DEF TypeOK, Drop, database, outcome, window
<1>20. ASSUME NEW m \in Messages, Return(m) PROVE TypeOK'
  BY <1>20, ExitType DEF TypeOK, Return, database, outcome, window
<1>9. ASSUME NEW m \in Messages, NEW accepted \in BOOLEAN, NEW reply \in {"ok", "error", "timeout"},
             Reinject(m, accepted, reply)
      PROVE  TypeOK'
  <2>1. linked' \subseteq Messages
    BY <1>9 DEF TypeOK, Reinject
  <2>2. CASE Step(m, "send", "resend") /\ UNCHANGED <<queue, locals, optouts>>
    <3>1. "resend" \in Steps
      BY DEF Steps
    <3> QED
      BY <1>9, <2>1, <2>2, <3>1, StepType, SessionType
         DEF TypeOK, Reinject, database, locals, optouts, window
  <2>3. CASE AfterSession(m, reply)
    BY <1>9, <2>1, <2>3, AfterSessionType, SessionType DEF TypeOK, Reinject, database, window
  <2> QED BY <1>9, <2>2, <2>3 DEF Reinject
<1>10. ASSUME NEW m \in Messages, NEW accepted \in BOOLEAN, NEW reply \in {"ok", "error", "timeout"},
             ReinjectUnmodified(m, accepted, reply)
      PROVE  TypeOK'
  BY <1>10, AfterSessionType, SessionType DEF TypeOK, ReinjectUnmodified, database, window
<1>11. ASSUME NEW m \in Messages, Kill(m) PROVE TypeOK'
  <2>1. unreported' \in [Messages -> Nat]
    BY <1>11 DEF TypeOK, Kill
  <2> QED BY <1>11, <2>1, ExitType, FaultType DEF TypeOK, Kill, database, window
<1>12. ASSUME NEW m \in Messages, Unsubscribe(m) PROVE TypeOK'
  <2>1. unsubscribed' \subseteq Parties /\ optedOut' \in [Messages -> BOOLEAN]
    BY <1>12 DEF TypeOK, Unsubscribe, Parties
  <2> QED BY <1>12, <2>1 DEF TypeOK, Unsubscribe, locals, outcome, window
<1>13. ASSUME NEW S \in SUBSET Messages, Discard(S) PROVE TypeOK'
  <2>1. /\ queue' \in [Messages -> {"queued", "gone", "deleted"}]
        /\ \A m \in Messages : pc[m] # "idle" => queue'[m] # "gone"
    BY <1>13 DEF TypeOK, Discard
  <2> QED
    BY <1>13, <2>1, FaultType DEF TypeOK, Discard, database, locals, outcome, optouts, window
<1>14. CASE LoseDb
  BY <1>14, FaultType DEF TypeOK, LoseDb, outcome, window
<1>15. CASE RestoreDb
  BY <1>15 DEF TypeOK, RestoreDb, locals, outcome, optouts, window
<1>16. ASSUME NEW r \in Rules, NewWindow(r) PROVE TypeOK'
  <2>1. \A k \in Keys : counts'[k] \in 0..(Limit[k[1]] + 1)
    <3>1. \A k \in Keys : counts'[k] = IF k[1] = r THEN 0 ELSE counts[k]
      BY <1>16 DEF TypeOK, NewWindow, Keys
    <3>2. \A k \in Keys : Limit[k[1]] \in Nat /\ counts[k] \in 0..(Limit[k[1]] + 1)
      BY IncrementType DEF TypeOK, Keys
    <3> QED BY <3>1, <3>2
  <2>3. DOMAIN counts' = Keys
    BY <1>16 DEF TypeOK, NewWindow, Keys
  <2>2. started' \in [Keys -> SUBSET Messages] /\ passed' \in [Keys -> SUBSET Messages]
    BY <1>16 DEF TypeOK, NewWindow, Keys
  <2> QED BY <1>16, <2>1, <2>2, <2>3 DEF TypeOK, NewWindow, locals, outcome, optouts, Keys
<1>17. ASSUME NEW p \in Parties, DeleteUnsubscribe(p) PROVE TypeOK'
  BY <1>17 DEF TypeOK, DeleteUnsubscribe, locals, outcome, window
<1>18. ASSUME NEW on \in BOOLEAN, SetFilter(on) PROVE TypeOK'
  BY <1>18 DEF TypeOK, SetFilter, locals, outcome, window
<1>19. CASE UNCHANGED vars
  BY <1>19 DEF TypeOK, vars, database, locals, outcome, optouts, window
<1> QED
  BY <1>1, <1>2, <1>3, <1>4, <1>5, <1>6, <1>7, <1>8, <1>9, <1>10, <1>11, <1>12, <1>13, <1>14,
     <1>15, <1>16, <1>17, <1>18, <1>19, <1>20
     DEF Next, Filter, Environment, delete_message, purge

-----------------------------------------------------------------------------
(* What an attempt does to the other parts of the invariant.               *)

\* Actions that keep what Suppression speaks of.
LEMMA SuppressionInv == ASSUME IInv, [Next]_vars PROVE Suppression'
<1> USE DEF IInv, TypeOK, Suppression
<1>1. ASSUME NEW m \in Messages, Start(m) PROVE Suppression'
  BY <1>1 DEF Start, database
<1>2. ASSUME NEW m \in Messages, NEW status, Exit(m, status), unsubscribed' = unsubscribed
      PROVE  Suppression'
  BY <1>2 DEF Exit
<1>3. ASSUME NEW m \in Messages, NEW from, NEW to \in Steps \ {"idle"}, from # "idle",
             Step(m, from, to), UNCHANGED <<unsubscribed, suppressed, optedOut, steady>>
      PROVE  Suppression'
  BY <1>3 DEF Step
<1>13. ASSUME NEW m \in Messages, NEW reply, AfterSession(m, reply), pc[m] # "idle",
              unsubscribed' = unsubscribed
       PROVE  Suppression'
  <2>1. CASE reply = "ok"
    BY <1>13, <2>1 DEF AfterSession, locals, optouts
  <2> QED BY <1>13, <1>2, <2>1 DEF AfterSession
<1>4. ASSUME NEW m \in Messages, CheckUnsubscribed(m) PROVE Suppression'
  BY <1>4 DEF CheckUnsubscribed, Step, is_unsubscribed, database, optouts
<1>5. ASSUME UNCHANGED <<pc, unsubscribed, suppressed, optedOut, steady>> PROVE Suppression'
  BY <1>5
<1>6. ASSUME NEW m \in Messages, Filter(m) PROVE Suppression'
  <2>1. ASSUME NEW accepted, NEW reply, Reinject(m, accepted, reply) PROVE Suppression'
    BY <2>1, <1>2, <1>3, <1>13 DEF Reinject, Steps, database, locals, optouts
  <2>2. ASSUME NEW accepted, NEW reply, ReinjectUnmodified(m, accepted, reply) PROVE Suppression'
    BY <2>2, <1>13 DEF ReinjectUnmodified, database
  <2>3. CASE OpenDb(m) \/ ReadRules(m) \/ CheckDomain(m) \/ CreateToken(m)
    BY <2>3, <1>3 DEF OpenDb, ReadRules, CheckDomain, CreateToken, OnOutage, Steps, database,
       locals, optouts
  <2>4. CASE CheckRule(m)
    BY <2>4, <1>2, <1>5 DEF CheckRule, optouts
  <2>5. CASE Drop(m) \/ Return(m)
    BY <2>5, <1>2 DEF Drop, Return, database
  <2> QED BY <1>6, <1>1, <1>4, <2>1, <2>2, <2>3, <2>4, <2>5 DEF Filter
<1>7. ASSUME NEW m \in Messages, Kill(m) PROVE Suppression'
  BY <1>7, <1>2 DEF Kill, database
<1>8. ASSUME NEW m \in Messages, Unsubscribe(m) PROVE Suppression'
  BY <1>8 DEF Unsubscribe, locals
<1>9. CASE LoseDb
  BY <1>9 DEF LoseDb
<1>10. ASSUME NEW p \in Parties, DeleteUnsubscribe(p) PROVE Suppression'
  BY <1>10 DEF DeleteUnsubscribe, locals
<1>11. ASSUME NEW on \in BOOLEAN, SetFilter(on) PROVE Suppression'
  BY <1>11 DEF SetFilter, locals
<1>12. CASE RestoreDb \/ (\E r \in Rules : NewWindow(r)) \/ purge
            \/ (\E m \in Messages : delete_message(m)) \/ UNCHANGED vars
  BY <1>12, <1>5 DEF RestoreDb, NewWindow, purge, delete_message, Discard, vars, database, locals,
     optouts
<1> QED
  BY <1>6, <1>7, <1>8, <1>9, <1>10, <1>11, <1>12 DEF Next, Environment

LEMMA SteadyInv == ASSUME IInv, [Next]_vars PROVE Steady'
<1> USE DEF IInv, TypeOK, Steady
<1>1. ASSUME NEW m \in Messages, Start(m) PROVE Steady'
  BY <1>1 DEF Start, database, Steps
<1>2. ASSUME NEW m \in Messages, NEW status, Exit(m, status), UNCHANGED <<dbUp, filterOn, unsubscribed>>
      PROVE  Steady'
  BY <1>2 DEF Exit
<1>3. ASSUME NEW m \in Messages, OpenDb(m) \/ ReadRules(m) \/ CheckDomain(m) PROVE Steady'
  BY <1>3 DEF OpenDb, ReadRules, CheckDomain, OnOutage, Step, database, locals, optouts
<1>4. ASSUME NEW m \in Messages, CheckUnsubscribed(m) PROVE Steady'
  BY <1>4 DEF CheckUnsubscribed, Step, is_unsubscribed, database, optouts
<1>5. ASSUME NEW m \in Messages, CreateToken(m) PROVE Steady'
  BY <1>5 DEF CreateToken, Step, database, optouts
<1>6. ASSUME NEW m \in Messages, NEW accepted, NEW reply,
             Reinject(m, accepted, reply) \/ ReinjectUnmodified(m, accepted, reply)
      PROVE  Steady'
  <2>1. CASE Step(m, "send", "resend") /\ UNCHANGED <<locals, optouts, database>> /\ ~suppressed[m]
    BY <2>1 DEF Step, locals, optouts, database
  <2>2. CASE /\ AfterSession(m, reply) /\ UNCHANGED database
             /\ pc[m] = "resend" \/ (pc[m] = "send" /\ ~suppressed[m])
    <3>1. CASE reply = "ok"
      BY <2>2, <3>1 DEF AfterSession, locals, optouts, database
    <3> QED BY <2>2, <3>1, <1>2 DEF AfterSession, database
  <2> QED BY <1>6, <2>1, <2>2 DEF Reinject, ReinjectUnmodified, database
<1>7. ASSUME UNCHANGED <<dbUp, filterOn, unsubscribed, pc, conn, suppressed, steady>> PROVE Steady'
  BY <1>7
<1>8. ASSUME NEW m \in Messages, CheckRule(m) \/ Drop(m) \/ Kill(m) \/ Return(m)
      PROVE Steady'
  BY <1>8, <1>2, <1>7 DEF CheckRule, Drop, Kill, Return, database, optouts
<1>9. ASSUME NEW m \in Messages, Unsubscribe(m) PROVE Steady'
  BY <1>9 DEF Unsubscribe, locals
<1>10. CASE LoseDb
  BY <1>10 DEF LoseDb
<1>11. ASSUME NEW p \in Parties, DeleteUnsubscribe(p) PROVE Steady'
  BY <1>11 DEF DeleteUnsubscribe, locals
<1>12. ASSUME NEW on \in BOOLEAN, SetFilter(on) PROVE Steady'
  BY <1>12 DEF SetFilter, locals
<1>13. CASE RestoreDb
  BY <1>13 DEF RestoreDb, locals, optouts
<1>14. CASE (\E r \in Rules : NewWindow(r)) \/ purge
            \/ (\E m \in Messages : delete_message(m)) \/ UNCHANGED vars
  BY <1>14, <1>7 DEF NewWindow, purge, delete_message, Discard, vars, database, locals, optouts
<1> QED
  BY <1>1, <1>3, <1>4, <1>5, <1>6, <1>8, <1>9, <1>10, <1>11, <1>12, <1>13, <1>14
     DEF Next, Environment, Filter

\* The fate of messages and their copies.
Fate == Unsent /\ NoSilentLoss /\ DuplicatesExplained

LEMMA FateInv == ASSUME IInv, [Next]_vars PROVE Fate'
<1> USE DEF IInv, TypeOK, Fate, Unsent, NoSilentLoss, DuplicatesExplained
<1>1. ASSUME NEW m \in Messages, Start(m) PROVE Fate'
  BY <1>1 DEF Start, outcome
<1>2. ASSUME NEW m \in Messages, Exit(m, EX_TEMPFAIL), copies' = copies, pc[m] # "idle",
             unreported' = [unreported EXCEPT ![m] = IF pc[m] = "exiting" THEN @ + 1 ELSE @]
      PROVE  Fate'
  <2>1. \A n \in Messages : copies[n] \in Nat /\ unreported[n] \in Nat
    OBVIOUS
  <2> QED BY <1>2, <2>1 DEF Exit, EX_TEMPFAIL
<1>3. ASSUME NEW m \in Messages, NEW from, NEW to \in Steps, from # "idle", Step(m, from, to),
             from # "exiting", to # "exiting", UNCHANGED <<queue, copies, unreported, optedOut>>
      PROVE  Fate'
  BY <1>3 DEF Step
<1>4. ASSUME NEW m \in Messages, Drop(m) PROVE Fate'
  BY <1>4 DEF Drop, Exit, Suppression, outcome
<1>5. ASSUME NEW m \in Messages, NEW accepted \in BOOLEAN, NEW reply \in {"ok", "error", "timeout"},
             pc[m] # "idle", pc[m] # "exiting", Session(m, accepted, reply),
             \/ reply = "error" /\ pc' = [pc EXCEPT ![m] = "resend"] /\ UNCHANGED <<queue, optedOut>>
             \/ AfterSession(m, reply)
      PROVE  Fate'
  <2>1. /\ copies'[m] = IF accepted THEN copies[m] + 1 ELSE copies[m]
        /\ unreported'[m] = IF accepted /\ reply # "ok" THEN unreported[m] + 1 ELSE unreported[m]
        /\ \A n \in Messages \ {m} : copies'[n] = copies[n] /\ unreported'[n] = unreported[n]
        /\ \A n \in Messages : copies[n] \in Nat /\ unreported[n] \in Nat
        /\ reply = "ok" => accepted
    BY <1>5 DEF Session
  <2>2. \A n \in Messages \ {m} : pc'[n] = pc[n] /\ queue'[n] = queue[n]
    BY <1>5 DEF AfterSession, Exit
  <2>3. optedOut' = optedOut /\ queue' = queue
    BY <1>5 DEF AfterSession, Exit, FailureStatus, EX_TEMPFAIL, optouts
  <2>4. copies[m] <= unreported[m] /\ queue[m] # "gone"
    BY <1>5
  <2> DEFINE F(n) == /\ pc'[n] = "exiting" => copies'[n] > 0 /\ copies'[n] <= 1 + unreported'[n]
                     /\ pc'[n] # "exiting" /\ (queue'[n] = "queued" \/ pc'[n] # "idle") =>
                          copies'[n] <= unreported'[n]
                     /\ queue'[n] = "gone" => copies'[n] > 0 \/ optedOut'[n]
                     /\ copies'[n] <= 1 + unreported'[n]
  <2>5. ASSUME NEW n \in Messages \ {m} PROVE F(n)
    BY <2>1, <2>2, <2>3
  <2>6. ASSUME reply # "ok" PROVE F(m)
    <3>1. pc'[m] # "exiting"
      BY <1>5, <2>6 DEF AfterSession, Exit
    <3>2. copies'[m] <= unreported'[m] /\ copies'[m] \in Nat /\ unreported'[m] \in Nat
      BY <2>1, <2>4, <2>6
    <3> QED BY <2>3, <2>4, <3>1, <3>2
  <2>7. ASSUME reply = "ok" PROVE F(m)
    <3>1. pc'[m] = "exiting"
      BY <1>5, <2>7 DEF AfterSession
    <3>2. copies'[m] <= 1 + unreported'[m] /\ copies'[m] > 0
      BY <2>1, <2>4, <2>7
    <3> QED BY <2>3, <2>4, <3>1, <3>2
  <2>8. F(m)
    BY <2>6, <2>7
  <2>9. \A n \in Messages : F(n)
    BY <2>5, <2>8
  <2> QED BY <2>9
<1>6. ASSUME UNCHANGED <<queue, pc, copies, unreported, optedOut>> PROVE Fate'
  BY <1>6
<1>7. ASSUME NEW m \in Messages, Filter(m) PROVE Fate'
  <2>1. CASE OpenDb(m) \/ ReadRules(m) \/ CheckDomain(m) \/ CheckUnsubscribed(m) \/ CreateToken(m)
    BY <2>1, <1>3 DEF OpenDb, ReadRules, CheckDomain, CheckUnsubscribed, CreateToken, OnOutage,
       Steps, outcome, optouts
  <2>2. CASE CheckRule(m)
    <3>1. pc[m] = "limit" /\ UNCHANGED <<copies, unreported>>
      BY <2>2 DEF CheckRule, outcome
    <3>2. unreported = [unreported EXCEPT ![m] = IF pc[m] = "exiting" THEN @ + 1 ELSE @]
      BY <3>1
    <3> QED BY <2>2, <3>1, <3>2, <1>2, <1>6 DEF CheckRule, optouts
  <2>5. CASE Return(m)
    BY <2>5 DEF Return, Exit, outcome
  <2>3. ASSUME NEW accepted \in BOOLEAN, NEW reply \in {"ok", "error", "timeout"},
               Reinject(m, accepted, reply)
        PROVE  Fate'
    <3>1. CASE Step(m, "send", "resend") /\ TriesUnmodified(reply) /\ UNCHANGED <<queue, optouts>>
      BY <2>3, <3>1, <1>5 DEF Reinject, TriesUnmodified, Step, optouts
    <3> QED BY <2>3, <3>1, <1>5 DEF Reinject
  <2>4. ASSUME NEW accepted \in BOOLEAN, NEW reply \in {"ok", "error", "timeout"},
               ReinjectUnmodified(m, accepted, reply)
        PROVE  Fate'
    BY <2>4, <1>5 DEF ReinjectUnmodified
  <2> QED BY <1>1, <1>4, <1>7, <2>1, <2>2, <2>3, <2>4, <2>5 DEF Filter
<1>8. ASSUME NEW m \in Messages, Kill(m) PROVE Fate'
  BY <1>8, <1>2 DEF Kill
<1>9. ASSUME NEW S \in SUBSET Messages, Discard(S) PROVE Fate'
  BY <1>9 DEF Discard, outcome, optouts
<1>10. ASSUME NEW m \in Messages, Unsubscribe(m) PROVE Fate'
  BY <1>10 DEF Unsubscribe, outcome
<1>11. CASE LoseDb \/ RestoreDb \/ (\E r \in Rules : NewWindow(r))
            \/ (\E p \in Parties : DeleteUnsubscribe(p)) \/ (\E on \in BOOLEAN : SetFilter(on))
            \/ UNCHANGED vars
  BY <1>11, <1>6 DEF LoseDb, RestoreDb, NewWindow, DeleteUnsubscribe, SetFilter, vars, outcome, optouts
<1> QED
  BY <1>7, <1>8, <1>9, <1>10, <1>11 DEF Next, Environment, delete_message, purge

LEMMA CountedInv == ASSUME IInv, [Next]_vars PROVE Counted'
<1>1. ASSUME UNCHANGED <<counts, passed>> PROVE Counted'
  BY <1>1 DEF IInv, Counted
<1>2. ASSUME NEW m \in Messages, CheckRule(m) PROVE Counted'
  <2>1. PICK k \in Keys : k = <<Head(rules[m]), Sender[m]>>
    <3>1. rules[m] \in Seq(Rules) /\ rules[m] # <<>>
      BY <1>2 DEF IInv, TypeOK, CheckRule
    <3> QED BY <3>1, HeadTailProperties DEF Keys, Senders
  <2>2. Limit[k[1]] \in Nat /\ counts[k] \in 0..(Limit[k[1]] + 1)
    BY <2>1, IncrementType DEF IInv, TypeOK, Keys
  <2>3. /\ IsFiniteSet(passed[k]) /\ Cardinality(passed[k]) \in Nat
        /\ Cardinality(passed[k]) <= counts[k] /\ Cardinality(passed[k]) <= Limit[k[1]]
    BY <2>1, FS_CardinalityType DEF IInv, Counted, Keys
  <2>4. /\ IsFiniteSet(passed[k] \cup {m})
        /\ Cardinality(passed[k] \cup {m}) <= Cardinality(passed[k]) + 1
        /\ Cardinality(passed[k] \cup {m}) \in Nat
    <3>1. /\ IsFiniteSet(passed[k] \cup {m})
          /\ Cardinality(passed[k] \cup {m}) =
               IF m \in passed[k] THEN Cardinality(passed[k]) ELSE Cardinality(passed[k]) + 1
      BY <2>3, FS_AddElement
    <3> QED BY <2>3, <3>1
  <2>5. \A j \in Keys \ {k} : counts'[j] = counts[j] /\ passed'[j] = passed[j]
    BY <1>2, <2>1 DEF IInv, TypeOK, CheckRule, Keys
  <2>6. \/ counts'[k] = counts[k] /\ passed'[k] = passed[k]
        \/ /\ counts'[k] = Increment(k)
           /\ \/ passed'[k] = passed[k]
              \/ passed'[k] = passed[k] \cup {m} /\ ~Exceeds(Increment(k), Limit[k[1]])
    BY <1>2, <2>1 DEF IInv, TypeOK, CheckRule, Keys
  <2>7. /\ IsFiniteSet(passed'[k]) /\ Cardinality(passed'[k]) <= counts'[k]
        /\ Cardinality(passed'[k]) <= Limit[k[1]]
    <3>1. CASE passed'[k] = passed[k]
      BY <2>2, <2>3, <2>6, <3>1 DEF Increment
    <3>2. CASE /\ counts'[k] = Increment(k) /\ passed'[k] = passed[k] \cup {m}
               /\ ~Exceeds(Increment(k), Limit[k[1]])
      <4>1. counts'[k] = counts[k] + 1 /\ counts'[k] <= Limit[k[1]]
        BY <2>2, <3>2 DEF Increment, Exceeds
      <4> QED BY <2>2, <2>3, <2>4, <3>2, <4>1
    <3> QED BY <2>6, <3>1, <3>2
  <2> QED BY <2>5, <2>7 DEF IInv, Counted, Keys
<1>3. ASSUME NEW r \in Rules, NewWindow(r) PROVE Counted'
  <2>1. \A k \in Keys : \/ counts'[k] = counts[k] /\ passed'[k] = passed[k]
                        \/ counts'[k] = 0 /\ passed'[k] = {}
    BY <1>3 DEF IInv, TypeOK, NewWindow, Keys
  <2>2. IsFiniteSet({}) /\ Cardinality({}) = 0
    BY FS_EmptySet
  <2>3. \A k \in Keys : Limit[k[1]] \in Nat
    BY IncrementType DEF IInv
  <2>4. ASSUME NEW k \in Keys
        PROVE  /\ IsFiniteSet(passed'[k]) /\ Cardinality(passed'[k]) <= counts'[k]
               /\ Cardinality(passed'[k]) <= Limit[k[1]]
    <3>1. CASE passed'[k] = passed[k] /\ counts'[k] = counts[k]
      BY <3>1 DEF IInv, Counted, Keys
    <3>2. CASE passed'[k] = {} /\ counts'[k] = 0
      BY <2>2, <2>3, <3>2
    <3> QED BY <2>1, <3>1, <3>2
  <2> QED BY <2>4 DEF Counted, Keys
<1>4. ASSUME NEW m \in Messages, Filter(m), ~CheckRule(m) PROVE Counted'
  BY <1>4, <1>1 DEF Filter, Start, OpenDb, ReadRules, CheckDomain, CheckUnsubscribed, CreateToken,
     Drop, Return, Reinject, ReinjectUnmodified, database, window
<1>5. CASE Environment /\ ~\E r \in Rules : NewWindow(r)
  BY <1>5, <1>1 DEF Environment, Kill, Unsubscribe, delete_message, purge, Discard, LoseDb, RestoreDb,
     DeleteUnsubscribe, SetFilter, database, window
<1>6. CASE UNCHANGED vars
  BY <1>6, <1>1 DEF vars, database, window
<1> QED BY <1>2, <1>3, <1>4, <1>5, <1>6 DEF Next

-----------------------------------------------------------------------------

LEMMA InitInv == Init => IInv
<1> SUFFICES ASSUME Init PROVE IInv
  OBVIOUS
<1>1. TypeOK
  <2>1. <<>> \in Seq(Rules)
    OBVIOUS
  <2>2. \A k \in Keys : Limit[k[1]] \in Nat
    BY MailFilterAssumption DEF Keys
  <2>3. rules \in [Messages -> Seq(Rules)]
    BY <2>1 DEF Init
  <2>4. pc \in [Messages -> Steps]
    BY DEF Init, Steps
  <2>5. \A k \in Keys : counts[k] \in 0..(Limit[k[1]] + 1)
    BY <2>2 DEF Init, Keys
  <2> QED BY <2>3, <2>4, <2>5, MailFilterAssumption DEF Init, TypeOK, Keys
<1>2. Counted
  <2>1. IsFiniteSet({}) /\ Cardinality({}) = 0
    BY FS_EmptySet
  <2>2. \A k \in Keys : Limit[k[1]] \in Nat /\ counts[k] = 0 /\ passed[k] = {}
    BY MailFilterAssumption DEF Init, Keys
  <2> QED BY <2>1, <2>2 DEF Counted, Keys
<1>3. Suppression /\ Unsent /\ Steady /\ NoSilentLoss /\ DuplicatesExplained
  BY DEF Init, Suppression, Unsent, Steady, NoSilentLoss, DuplicatesExplained
<1> QED BY <1>1, <1>2, <1>3 DEF IInv

LEMMA StepInv == ASSUME IInv, [Next]_vars PROVE IInv'
<1>1. TypeOK'
  BY TypeInv DEF IInv
<1> QED BY <1>1, SuppressionInv, SteadyInv, FateInv, CountedInv DEF IInv, Fate

\* The inductive invariant holds throughout.
THEOREM Inductive == Spec => []IInv
BY InitInv, StepInv, PTL DEF Spec

\* Types (run_filter).
THEOREM TypeCorrect == Spec => []TypeOK
<1>1. IInv => TypeOK
  BY DEF IInv
<1> QED BY Inductive, <1>1, PTL

\* Whatever fails, and whenever, a message that left the queue was delivered or its
\* recipient had opted out (run_filter, reinject_smtp).
THEOREM NothingLost == Spec => []NoSilentLoss
<1>1. IInv => NoSilentLoss
  BY DEF IInv
<1> QED BY Inductive, <1>1, PTL

\* Each copy but one was accepted in a session the filter saw fail (reinject_smtp).
THEOREM CopiesExplained == Spec => []DuplicatesExplained
<1>1. IInv => DuplicatesExplained
  BY DEF IInv
<1> QED BY Inductive, <1>1, PTL

\* No rule lets more messages of a sender through in a window than its limit, for any
\* rules, limits and number of processes (check_rate_limit).
THEOREM LimitsHold == Spec => []RateLimitHolds
<1>1. IInv => RateLimitHolds
  BY DEF IInv, Counted, RateLimitHolds
<1> QED BY Inductive, <1>1, PTL

\* An attempt throughout which the opt-out stood delivers nothing (is_unsubscribed).
THEOREM OptOutsHonoured == Spec => UnsubscribeHonoured
<1>1. IInv /\ [Next]_vars => [\A m \in Messages : steady[m] => copies'[m] = copies[m]]_vars
  <2> SUFFICES ASSUME IInv, Next, NEW m \in Messages, steady[m] PROVE copies'[m] = copies[m]
    OBVIOUS
  <2>1. ASSUME NEW n \in Messages, NEW accepted, NEW reply,
               Reinject(n, accepted, reply) \/ ReinjectUnmodified(n, accepted, reply)
        PROVE  copies'[m] = copies[m]
    <3>1. n # m
      BY <2>1 DEF IInv, Steady, Reinject, ReinjectUnmodified, Step
    <3> QED BY <2>1, <3>1 DEF IInv, TypeOK, Reinject, ReinjectUnmodified, Session
  <2> QED
    BY <2>1 DEF Next, Filter, Environment, Start, OpenDb, ReadRules, CheckRule, CheckDomain,
       CheckUnsubscribed, CreateToken, Drop, Return, Kill, Unsubscribe, delete_message, purge, Discard, LoseDb,
       RestoreDb, NewWindow, DeleteUnsubscribe, SetFilter, outcome
<1> QED BY Inductive, <1>1, PTL DEF Spec, UnsubscribeHonoured
=============================================================================
