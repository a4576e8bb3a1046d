------------------------ MODULE CommandExecution_proofs ------------------------
(***************************************************************************)
(* Proofs about CommandExecution for every number of keys, requests,       *)
(* users, retries and crashes, and about ConfirmedCommands for every       *)
(* number of commands and handlers on top of it.                           *)
(***************************************************************************)
EXTENDS ConfirmedCommands, TLAPS

-----------------------------------------------------------------------------
\* The inductive invariant

\* r has had a record of its key inserted.
Admitted(r) == record[KeyOf[r]] = r \/ r \in forgotten

\* r has not come to inserting one.
Early(r) == handler[r] \in {"idle", "check", "reclaim", "claim", "record"}

\* Some request of k took effect in MonicaHQ.
Applied(k) == \E s \in Requests : KeyOf[s] = k /\ effects[s] > 0

\* Nothing runs, waits or has taken effect for a request without a record.
RecordInv ==
    /\ \A k \in Keys : record[k] # NoRequest => KeyOf[record[k]] = k
    /\ \A r \in Requests : Early(r) =>
          ~Admitted(r) /\ run[r] = "none" /\ job[r] = "none" /\ effects[r] = 0
    /\ \A r \in Requests :
          \/ run[r] # "none"
          \/ job[r] # "none"
          \/ handler[r] \in {"enqueue", "process", "recheck"}
          \/ effects[r] > 0
          => Admitted(r)

\* A call is only ahead of a request whose previous calls are paid for by stalls.
CallInv ==
    /\ \A r \in Sync : job[r] = "none" /\ stalls[r] = 0 /\ handler[r] # "enqueue"
    /\ \A r \in Requests : stalls[r] > MaxStalledCount => job[r] = "failed"
    /\ \A r \in Requests : job[r] = "none" => stalls[r] = 0
    /\ \A r \in Requests : job[r] \in {"completed", "failed"} => run[r] \in {"none", "deadletter"}
    /\ \A r \in Requests : job[r] = "waiting" => run[r] = "none"
    /\ \A r \in Requests :
          handler[r] = "enqueue" => run[r] = "none" /\ job[r] = "none" /\ effects[r] = 0
    /\ \A r \in Requests : run[r] = "call" \/ job[r] = "waiting" => effects[r] <= stalls[r]
    /\ \A r \in Requests : effects[r] <= stalls[r] + 1
    /\ BoundedCalls

\* Every trace of success is backed by an effect.
SuccessInv ==
    /\ \A k \in Keys : keyRow[k] = "completed" => Applied(k)
    /\ \A r \in Requests :
          run[r] \in {"complete", "notify", "done"} \/ handler[r] = "recheck" => effects[r] > 0
    /\ \A r \in Requests : handler[r] = "completed" => Applied(KeyOf[r])

IInv == TypeOK /\ RecordInv /\ CallInv /\ SuccessInv

-----------------------------------------------------------------------------
\* Type correctness

LEMMA TypeInit == Init => TypeOK
BY ConstantsAssumption DEF Init, TypeOK, KeyRow, KeyAge, Handler, Run, Job

LEMMA TypeStep == ASSUME TypeOK, [Next]_vars PROVE TypeOK'
<1>. USE ConstantsAssumption DEF TypeOK, KeyRow, KeyAge, Handler, Run, Job, Waiting, Answered,
         keyVars, recordVars, jobVars
<1>1. ASSUME NEW r \in Requests, Arrive(r)  PROVE TypeOK'
  BY <1>1 DEF Arrive, HandlerGoes
<1>2. ASSUME NEW r \in Requests, Check(r)  PROVE TypeOK'
  BY <1>2 DEF Check, HandlerGoes
<1>3. ASSUME NEW r \in Requests, Reclaim(r)  PROVE TypeOK'
  BY <1>3 DEF Reclaim, HandlerGoes, Reclaimable
<1>4. ASSUME NEW r \in Requests, Claim(r)  PROVE TypeOK'
  BY <1>4 DEF Claim, HandlerGoes
<1>5. ASSUME NEW r \in Requests, InsertRecord(r)  PROVE TypeOK'
  BY <1>5 DEF InsertRecord, HandlerGoes
<1>6. ASSUME NEW r \in Requests, DuplicateRecord(r)  PROVE TypeOK'
  BY <1>6 DEF DuplicateRecord, HandlerGoes
<1>7. ASSUME NEW r \in Requests, Enqueue(r)  PROVE TypeOK'
  BY <1>7 DEF Enqueue, HandlerGoes
<1>8. ASSUME NEW r \in Requests, SyncReturns(r)  PROVE TypeOK'
  BY <1>8 DEF SyncReturns, HandlerGoes
<1>9. ASSUME NEW r \in Requests, Recheck(r)  PROVE TypeOK'
  BY <1>9 DEF Recheck, HandlerGoes
<1>10. ASSUME NEW r \in Requests, StoreFails(r)  PROVE TypeOK'
  BY <1>10 DEF StoreFails
<1>11. ASSUME NEW r \in Requests, CallSucceeds(r)  PROVE TypeOK'
  BY <1>11 DEF CallSucceeds
<1>12. ASSUME NEW r \in Requests, CallFails(r)  PROVE TypeOK'
  BY <1>12 DEF CallFails
<1>13. ASSUME NEW r \in Requests, CompleteKey(r)  PROVE TypeOK'
  BY <1>13 DEF CompleteKey
<1>14. ASSUME NEW r \in Requests, CompleteFails(r)  PROVE TypeOK'
  BY <1>14 DEF CompleteFails
<1>15. ASSUME NEW r \in Requests, Notify(r)  PROVE TypeOK'
  BY <1>15 DEF Notify
<1>16. ASSUME NEW r \in Requests, TakeJob(r)  PROVE TypeOK'
  BY <1>16 DEF TakeJob
<1>17. ASSUME NEW r \in Requests, JobSucceeds(r)  PROVE TypeOK'
  BY <1>17 DEF JobSucceeds
<1>18. ASSUME NEW r \in Requests, JobThrows(r)  PROVE TypeOK'
  BY <1>18 DEF JobThrows, FailJob
<1>19. ASSUME NEW r \in Requests, Stalled(r)  PROVE TypeOK'
  BY <1>19 DEF Stalled, FailJob
<1>20. ASSUME NEW r \in Requests, DeadLetter(r)  PROVE TypeOK'
  BY <1>20 DEF DeadLetter
<1>21. CASE \E k \in Keys : Expire(k) \/ Age(k)
  BY <1>21 DEF Expire, Age
<1>22. CASE PurgeExpiredKeys
  BY <1>22 DEF PurgeExpiredKeys
<1>23. CASE PurgeExpiredExecutions
  BY <1>23 DEF PurgeExpiredExecutions, DeleteRecords
<1>24. CASE \E u \in Users : PurgeUser(u)
  BY <1>24 DEF PurgeUser, DeleteRecords
<1>25. CASE Crash
  BY <1>25 DEF Crash
<1>26. CASE UNCHANGED vars
  BY <1>26 DEF vars
<1>. QED
  BY <1>1, <1>2, <1>3, <1>4, <1>5, <1>6, <1>7, <1>8, <1>9, <1>10, <1>11, <1>12, <1>13, <1>14, <1>15, <1>16, <1>17, <1>18, <1>19, <1>20, <1>21, <1>22, <1>23, <1>24, <1>25, <1>26 DEF Next, Environment, HandlerStep, RunStep, WorkerStep

\* Every reachable state of the execution path is well typed.
THEOREM TypeCorrect == Spec => []TypeOK
BY TypeInit, TypeStep, PTL DEF Spec

-----------------------------------------------------------------------------
\* The invariant is inductive, conjunct by conjunct

LEMMA InvInit == Init => IInv
<1>. SUFFICES ASSUME Init PROVE IInv
  OBVIOUS
<1>. USE ConstantsAssumption DEF Init
<1>1. TypeOK
  BY TypeInit
<1>2. RecordInv
  BY DEF RecordInv, Admitted, Early
<1>3. CallInv
  BY DEF CallInv, BoundedCalls, CallBudget
<1>4. SuccessInv
  BY DEF SuccessInv, Applied
<1>. QED
  BY <1>1, <1>2, <1>3, <1>4 DEF IInv

LEMMA RecordStep == ASSUME TypeOK, RecordInv, [Next]_vars PROVE RecordInv'
<1>. USE ConstantsAssumption DEF RecordInv, Admitted, Early, TypeOK, KeyRow, Handler, Run, Job,
         Waiting, Answered, keyVars, recordVars, jobVars
<1>1. ASSUME NEW r \in Requests, Arrive(r)  PROVE RecordInv'
  BY <1>1 DEF Arrive, HandlerGoes
<1>2. ASSUME NEW r \in Requests, Check(r)  PROVE RecordInv'
  BY <1>2 DEF Check, HandlerGoes
<1>3. ASSUME NEW r \in Requests, Reclaim(r)  PROVE RecordInv'
  BY <1>3 DEF Reclaim, HandlerGoes, Reclaimable
<1>4. ASSUME NEW r \in Requests, Claim(r)  PROVE RecordInv'
  BY <1>4 DEF Claim, HandlerGoes
<1>5. ASSUME NEW r \in Requests, InsertRecord(r)  PROVE RecordInv'
  BY <1>5 DEF InsertRecord, HandlerGoes
<1>6. ASSUME NEW r \in Requests, DuplicateRecord(r)  PROVE RecordInv'
  BY <1>6 DEF DuplicateRecord, HandlerGoes
<1>7. ASSUME NEW r \in Requests, Enqueue(r)  PROVE RecordInv'
  BY <1>7 DEF Enqueue, HandlerGoes
<1>8. ASSUME NEW r \in Requests, SyncReturns(r)  PROVE RecordInv'
  BY <1>8 DEF SyncReturns, HandlerGoes
<1>9. ASSUME NEW r \in Requests, Recheck(r)  PROVE RecordInv'
  BY <1>9 DEF Recheck, HandlerGoes
<1>10. ASSUME NEW r \in Requests, StoreFails(r)  PROVE RecordInv'
  BY <1>10 DEF StoreFails
<1>11. ASSUME NEW r \in Requests, CallSucceeds(r)  PROVE RecordInv'
  BY <1>11 DEF CallSucceeds
<1>12. ASSUME NEW r \in Requests, CallFails(r)  PROVE RecordInv'
  BY <1>12 DEF CallFails
<1>13. ASSUME NEW r \in Requests, CompleteKey(r)  PROVE RecordInv'
  BY <1>13 DEF CompleteKey
<1>14. ASSUME NEW r \in Requests, CompleteFails(r)  PROVE RecordInv'
  BY <1>14 DEF CompleteFails
<1>15. ASSUME NEW r \in Requests, Notify(r)  PROVE RecordInv'
  BY <1>15 DEF Notify
<1>16. ASSUME NEW r \in Requests, TakeJob(r)  PROVE RecordInv'
  BY <1>16 DEF TakeJob
<1>17. ASSUME NEW r \in Requests, JobSucceeds(r)  PROVE RecordInv'
  BY <1>17 DEF JobSucceeds
<1>18. ASSUME NEW r \in Requests, JobThrows(r)  PROVE RecordInv'
  BY <1>18 DEF JobThrows, FailJob
<1>19. ASSUME NEW r \in Requests, Stalled(r)  PROVE RecordInv'
  BY <1>19 DEF Stalled, FailJob
<1>20. ASSUME NEW r \in Requests, DeadLetter(r)  PROVE RecordInv'
  BY <1>20 DEF DeadLetter
<1>21. CASE \E k \in Keys : Expire(k) \/ Age(k)
  BY <1>21 DEF Expire, Age
<1>22. CASE PurgeExpiredKeys
  BY <1>22 DEF PurgeExpiredKeys
<1>23. CASE PurgeExpiredExecutions
  BY <1>23 DEF PurgeExpiredExecutions, DeleteRecords
<1>24. CASE \E u \in Users : PurgeUser(u)
  BY <1>24 DEF PurgeUser, DeleteRecords
<1>25. CASE Crash
  BY <1>25 DEF Crash
<1>26. CASE UNCHANGED vars
  BY <1>26 DEF vars
<1>. QED
  BY <1>1, <1>2, <1>3, <1>4, <1>5, <1>6, <1>7, <1>8, <1>9, <1>10, <1>11, <1>12, <1>13, <1>14, <1>15, <1>16, <1>17, <1>18, <1>19, <1>20, <1>21, <1>22, <1>23, <1>24, <1>25, <1>26 DEF Next, Environment, HandlerStep, RunStep, WorkerStep

LEMMA CallStep == ASSUME TypeOK, RecordInv, CallInv, [Next]_vars PROVE CallInv'
<1>. USE ConstantsAssumption DEF RecordInv, Early, CallInv, BoundedCalls, CallBudget, TypeOK,
         Handler, Run, Job, Waiting, Answered, keyVars, recordVars, jobVars
<1>1. ASSUME NEW r \in Requests, Arrive(r)  PROVE CallInv'
  BY <1>1 DEF Arrive, HandlerGoes
<1>2. ASSUME NEW r \in Requests, Check(r)  PROVE CallInv'
  BY <1>2 DEF Check, HandlerGoes
<1>3. ASSUME NEW r \in Requests, Reclaim(r)  PROVE CallInv'
  BY <1>3 DEF Reclaim, HandlerGoes, Reclaimable
<1>4. ASSUME NEW r \in Requests, Claim(r)  PROVE CallInv'
  BY <1>4 DEF Claim, HandlerGoes
<1>5. ASSUME NEW r \in Requests, InsertRecord(r)  PROVE CallInv'
  BY <1>5 DEF InsertRecord, HandlerGoes
<1>6. ASSUME NEW r \in Requests, DuplicateRecord(r)  PROVE CallInv'
  BY <1>6 DEF DuplicateRecord, HandlerGoes
<1>7. ASSUME NEW r \in Requests, Enqueue(r)  PROVE CallInv'
  BY <1>7 DEF Enqueue, HandlerGoes
<1>8. ASSUME NEW r \in Requests, SyncReturns(r)  PROVE CallInv'
  BY <1>8 DEF SyncReturns, HandlerGoes
<1>9. ASSUME NEW r \in Requests, Recheck(r)  PROVE CallInv'
  BY <1>9 DEF Recheck, HandlerGoes
<1>10. ASSUME NEW r \in Requests, StoreFails(r)  PROVE CallInv'
  BY <1>10 DEF StoreFails
<1>11. ASSUME NEW r \in Requests, CallSucceeds(r)  PROVE CallInv'
  BY <1>11 DEF CallSucceeds
<1>12. ASSUME NEW r \in Requests, CallFails(r)  PROVE CallInv'
  BY <1>12 DEF CallFails
<1>13. ASSUME NEW r \in Requests, CompleteKey(r)  PROVE CallInv'
  BY <1>13 DEF CompleteKey
<1>14. ASSUME NEW r \in Requests, CompleteFails(r)  PROVE CallInv'
  BY <1>14 DEF CompleteFails
<1>15. ASSUME NEW r \in Requests, Notify(r)  PROVE CallInv'
  BY <1>15 DEF Notify
<1>16. ASSUME NEW r \in Requests, TakeJob(r)  PROVE CallInv'
  BY <1>16 DEF TakeJob
<1>17. ASSUME NEW r \in Requests, JobSucceeds(r)  PROVE CallInv'
  BY <1>17 DEF JobSucceeds
<1>18. ASSUME NEW r \in Requests, JobThrows(r)  PROVE CallInv'
  BY <1>18 DEF JobThrows, FailJob
<1>19. ASSUME NEW r \in Requests, Stalled(r)  PROVE CallInv'
  BY <1>19 DEF Stalled, FailJob
<1>20. ASSUME NEW r \in Requests, DeadLetter(r)  PROVE CallInv'
  BY <1>20 DEF DeadLetter
<1>21. CASE \E k \in Keys : Expire(k) \/ Age(k)
  BY <1>21 DEF Expire, Age
<1>22. CASE PurgeExpiredKeys
  BY <1>22 DEF PurgeExpiredKeys
<1>23. CASE PurgeExpiredExecutions
  BY <1>23 DEF PurgeExpiredExecutions, DeleteRecords
<1>24. CASE \E u \in Users : PurgeUser(u)
  BY <1>24 DEF PurgeUser, DeleteRecords
<1>25. CASE Crash
  BY <1>25 DEF Crash
<1>26. CASE UNCHANGED vars
  BY <1>26 DEF vars
<1>. QED
  BY <1>1, <1>2, <1>3, <1>4, <1>5, <1>6, <1>7, <1>8, <1>9, <1>10, <1>11, <1>12, <1>13, <1>14, <1>15, <1>16, <1>17, <1>18, <1>19, <1>20, <1>21, <1>22, <1>23, <1>24, <1>25, <1>26 DEF Next, Environment, HandlerStep, RunStep, WorkerStep

LEMMA SuccessStep == ASSUME TypeOK, SuccessInv, [Next]_vars PROVE SuccessInv'
<1>. USE ConstantsAssumption DEF SuccessInv, Applied, TypeOK, KeyRow, Handler, Run, Job,
         Waiting, Answered, keyVars, recordVars, jobVars
<1>1. ASSUME NEW r \in Requests, Arrive(r)  PROVE SuccessInv'
  BY <1>1 DEF Arrive, HandlerGoes
<1>2. ASSUME NEW r \in Requests, Check(r)  PROVE SuccessInv'
  BY <1>2 DEF Check, HandlerGoes
<1>3. ASSUME NEW r \in Requests, Reclaim(r)  PROVE SuccessInv'
  BY <1>3 DEF Reclaim, HandlerGoes, Reclaimable
<1>4. ASSUME NEW r \in Requests, Claim(r)  PROVE SuccessInv'
  BY <1>4 DEF Claim, HandlerGoes
<1>5. ASSUME NEW r \in Requests, InsertRecord(r)  PROVE SuccessInv'
  BY <1>5 DEF InsertRecord, HandlerGoes
<1>6. ASSUME NEW r \in Requests, DuplicateRecord(r)  PROVE SuccessInv'
  BY <1>6 DEF DuplicateRecord, HandlerGoes
<1>7. ASSUME NEW r \in Requests, Enqueue(r)  PROVE SuccessInv'
  BY <1>7 DEF Enqueue, HandlerGoes
<1>8. ASSUME NEW r \in Requests, SyncReturns(r)  PROVE SuccessInv'
  BY <1>8 DEF SyncReturns, HandlerGoes
<1>9. ASSUME NEW r \in Requests, Recheck(r)  PROVE SuccessInv'
  BY <1>9 DEF Recheck, HandlerGoes
<1>10. ASSUME NEW r \in Requests, StoreFails(r)  PROVE SuccessInv'
  BY <1>10 DEF StoreFails
<1>11. ASSUME NEW r \in Requests, CallSucceeds(r)  PROVE SuccessInv'
  BY <1>11 DEF CallSucceeds
<1>12. ASSUME NEW r \in Requests, CallFails(r)  PROVE SuccessInv'
  BY <1>12 DEF CallFails
<1>13. ASSUME NEW r \in Requests, CompleteKey(r)  PROVE SuccessInv'
  BY <1>13 DEF CompleteKey
<1>14. ASSUME NEW r \in Requests, CompleteFails(r)  PROVE SuccessInv'
  BY <1>14 DEF CompleteFails
<1>15. ASSUME NEW r \in Requests, Notify(r)  PROVE SuccessInv'
  BY <1>15 DEF Notify
<1>16. ASSUME NEW r \in Requests, TakeJob(r)  PROVE SuccessInv'
  BY <1>16 DEF TakeJob
<1>17. ASSUME NEW r \in Requests, JobSucceeds(r)  PROVE SuccessInv'
  BY <1>17 DEF JobSucceeds
<1>18. ASSUME NEW r \in Requests, JobThrows(r)  PROVE SuccessInv'
  BY <1>18 DEF JobThrows, FailJob
<1>19. ASSUME NEW r \in Requests, Stalled(r)  PROVE SuccessInv'
  BY <1>19 DEF Stalled, FailJob
<1>20. ASSUME NEW r \in Requests, DeadLetter(r)  PROVE SuccessInv'
  BY <1>20 DEF DeadLetter
<1>21. CASE \E k \in Keys : Expire(k) \/ Age(k)
  BY <1>21 DEF Expire, Age
<1>22. CASE PurgeExpiredKeys
  BY <1>22 DEF PurgeExpiredKeys
<1>23. CASE PurgeExpiredExecutions
  BY <1>23 DEF PurgeExpiredExecutions, DeleteRecords
<1>24. CASE \E u \in Users : PurgeUser(u)
  BY <1>24 DEF PurgeUser, DeleteRecords
<1>25. CASE Crash
  BY <1>25 DEF Crash
<1>26. CASE UNCHANGED vars
  BY <1>26 DEF vars
<1>. QED
  BY <1>1, <1>2, <1>3, <1>4, <1>5, <1>6, <1>7, <1>8, <1>9, <1>10, <1>11, <1>12, <1>13, <1>14, <1>15, <1>16, <1>17, <1>18, <1>19, <1>20, <1>21, <1>22, <1>23, <1>24, <1>25, <1>26 DEF Next, Environment, HandlerStep, RunStep, WorkerStep

\* The inductive invariant holds in every reachable state.
THEOREM Invariant == Spec => []IInv
<1>1. IInv /\ [Next]_vars => IInv'
  BY TypeStep, RecordStep, CallStep, SuccessStep DEF IInv
<1>. QED
  BY <1>1, InvInit, PTL DEF Spec

-----------------------------------------------------------------------------
\* The properties

\* Two requests of one key both reach MonicaHQ only around a deleted record.
THEOREM AtMostOnceHolds == Spec => []AtMostOnce
<1>1. IInv => AtMostOnce
  BY ConstantsAssumption DEF IInv, RecordInv, Admitted, AtMostOnce
<1>. QED
  BY <1>1, Invariant, PTL

\* The number of calls one request can cause is bounded by its budget.
THEOREM BoundedCallsHolds == Spec => []BoundedCalls
<1>1. IInv => BoundedCalls
  BY DEF IInv, CallInv
<1>. QED
  BY <1>1, Invariant, PTL

\* No client is told "completed" about a command that never took effect.
THEOREM SuccessIsTruthfulHolds == Spec => []SuccessIsTruthful
<1>1. IInv => SuccessIsTruthful
  BY DEF IInv, SuccessInv, Applied, SuccessIsTruthful
<1>. QED
  BY <1>1, Invariant, PTL

-----------------------------------------------------------------------------
\* CommandExecution implements CommandLedger

LEMMA LedgerInit == Init => Ledger!Init
BY ConstantsAssumption DEF Init, Ledger!Init

\* Handlers, runs and jobs of a request that leave records, effects and
\* answers of "completed" alone are invisible in the ledger.
LEMMA Invisible ==
  ASSUME UNCHANGED <<record, forgotten, effects>>,
         \A r \in Requests : handler'[r] = "completed" <=> handler[r] = "completed"
  PROVE  UNCHANGED Ledger!ledgerVars
BY DEF Ledger!ledgerVars

LEMMA LedgerStep ==
  ASSUME IInv, [Next]_vars
  PROVE  [Ledger!Next]_(Ledger!ledgerVars)
<1>. USE ConstantsAssumption DEF IInv, TypeOK, keyVars, recordVars, jobVars
<1>. DEFINE Erasure == \E K \in SUBSET Keys : Ledger!Erase(K)
<1>1. ASSUME NEW r \in Requests,
             \/ Arrive(r) \/ Reclaim(r) \/ Claim(r) \/ DuplicateRecord(r)
             \/ Enqueue(r) \/ SyncReturns(r) \/ StoreFails(r)
      PROVE  UNCHANGED Ledger!ledgerVars
  <2>1. UNCHANGED <<record, forgotten, effects>>
    BY <1>1 DEF Arrive, Reclaim, Claim, DuplicateRecord, Enqueue, SyncReturns, StoreFails
  <2>2. \A s \in Requests : handler'[s] = "completed" <=> handler[s] = "completed"
    BY <1>1 DEF Arrive, Reclaim, Claim, DuplicateRecord, Enqueue, SyncReturns, StoreFails,
                HandlerGoes, Waiting
  <2>. QED
    BY <2>1, <2>2, Invisible
<1>2. ASSUME NEW r \in Requests, Check(r) \/ Recheck(r)
      PROVE  Ledger!Tell(r) \/ UNCHANGED Ledger!ledgerVars
  <2>1. UNCHANGED <<record, forgotten, effects>>
    BY <1>2 DEF Check, Recheck
  <2>2. CASE handler'[r] = "completed"
    <3>1. \E s \in Requests : KeyOf[s] = KeyOf[r] /\ effects[s] > 0
      BY <1>2, <2>2 DEF Check, Recheck, HandlerGoes, SuccessInv, Applied
    <3>2. {s \in Requests : handler'[s] = "completed"}
             = {s \in Requests : handler[s] = "completed"} \cup {r}
      BY <1>2, <2>2 DEF Check, Recheck, HandlerGoes
    <3>. QED
      BY <2>1, <3>1, <3>2 DEF Ledger!Tell
  <2>3. CASE handler'[r] # "completed"
    <3>1. \A s \in Requests : handler'[s] = "completed" <=> handler[s] = "completed"
      BY <1>2, <2>3 DEF Check, Recheck, HandlerGoes
    <3>. QED
      BY <2>1, <3>1, Invisible
  <2>. QED
    BY <2>2, <2>3
<1>3. ASSUME NEW r \in Requests, InsertRecord(r)
      PROVE  Ledger!Open(r)
  <2>1. record[KeyOf[r]] = NoRequest /\ ~Admitted(r)
    BY <1>3 DEF InsertRecord, HandlerGoes, RecordInv, Early
  <2>2. \A s \in Requests : Admitted(s)' <=> Admitted(s) \/ s = r
    BY <1>3, <2>1 DEF InsertRecord, Admitted
  <2>3. \A s \in Requests : handler'[s] = "completed" <=> handler[s] = "completed"
    BY <1>3 DEF InsertRecord, HandlerGoes
  <2>. QED
    BY <1>3, <2>1, <2>2, <2>3 DEF InsertRecord, Admitted, Ledger!Open
<1>4. ASSUME NEW r \in Requests, CallSucceeds(r) \/ CallFails(r)
      PROVE  Ledger!Apply(r) \/ UNCHANGED Ledger!ledgerVars
  <2>1. Admitted(r)
    BY <1>4 DEF CallSucceeds, CallFails, RecordInv
  <2>2. effects[r] < CallBudget[r]
    BY <1>4 DEF CallSucceeds, CallFails, CallInv, CallBudget
  <2>3. CASE effects' = effects
    BY <1>4, <2>3, Invisible DEF CallSucceeds, CallFails
  <2>4. CASE effects' = [effects EXCEPT ![r] = @ + 1]
    BY <1>4, <2>1, <2>2, <2>4 DEF CallSucceeds, CallFails, Admitted, Ledger!Apply
  <2>. QED
    BY <1>4, <2>3, <2>4 DEF CallSucceeds, CallFails
<1>5. ASSUME NEW r \in Requests,
             \/ CompleteKey(r) \/ CompleteFails(r) \/ Notify(r) \/ TakeJob(r)
             \/ JobSucceeds(r) \/ JobThrows(r) \/ Stalled(r) \/ DeadLetter(r)
      PROVE  UNCHANGED Ledger!ledgerVars
  BY <1>5, Invisible DEF CompleteKey, CompleteFails, Notify, TakeJob, JobSucceeds,
     JobThrows, Stalled, DeadLetter
<1>6. ASSUME NEW K \in SUBSET Keys, DeleteRecords(K), UNCHANGED <<handler, effects>>
      PROVE  Erasure
  <2>1. \A s \in Requests : Admitted(s)' <=> Admitted(s)
    BY <1>6 DEF DeleteRecords, Admitted
  <2>2. Ledger!Erase(K)
    BY <1>6, <2>1 DEF DeleteRecords, Admitted, Ledger!Erase
  <2>. QED
    BY <2>2
<1>7. ASSUME PurgeExpiredExecutions PROVE Erasure
  <2>. DEFINE old == {k \in Keys : record[k] \in deadLettered /\ Quiet(k)}
  <2>1. DeleteRecords(old) /\ UNCHANGED <<handler, effects>>
    BY <1>7 DEF PurgeExpiredExecutions
  <2>. QED
    BY <1>6, <2>1
<1>8. ASSUME NEW u \in Users, PurgeUser(u) PROVE Erasure
  <2>. DEFINE mine == {k \in Keys : Owner[k] = u /\ record[k] # NoRequest}
  <2>1. DeleteRecords(mine) /\ UNCHANGED <<handler, effects>>
    BY <1>8 DEF PurgeUser
  <2>. QED
    BY <1>6, <2>1
<1>9. CASE PurgeExpiredKeys \/ \E k \in Keys : Expire(k) \/ Age(k)
  BY <1>9, Invisible DEF PurgeExpiredKeys, Expire, Age
<1>10. CASE Crash
  BY <1>10, Invisible DEF Crash, Waiting
<1>11. CASE UNCHANGED vars
  BY <1>11, Invisible DEF vars
<1>. QED
  BY <1>1, <1>2, <1>3, <1>4, <1>5, <1>7, <1>8, <1>9, <1>10, <1>11
     DEF Next, Environment, HandlerStep, RunStep, WorkerStep, Ledger!Next

\* Handlers, workers, retention, purges and crashes together keep the promises
\* of the ledger: CommandExecution refines CommandLedger.
THEOREM Refinement == Spec => ImplementsLedger
BY LedgerInit, LedgerStep, Invariant, PTL DEF Spec, ImplementsLedger, Ledger!Spec

-----------------------------------------------------------------------------
\* ConfirmedCommands: the invariant that links the conversation and the scheduler

\* A command processed in the handler is never dead-lettered.
DeadInv == \A r \in Sync : run[r] # "deadletter" /\ r \notin deadLettered

LinkTypes ==
    /\ at \in [Handlers -> {"idle", "done"} \cup Loop!Busy]
    /\ target \in [Handlers -> Commands \cup {NoRequest}]
    /\ sent \subseteq Handlers

\* A request the scheduler knows was sent for the command it names.
LinkInv ==
    /\ \A h \in Handlers : at[h] \in {"execute", "wait"} \/ h \in sent => target[h] \in Commands
    /\ \A h \in sent : at[h] \notin {"idle", "execute"}
    /\ \A r \in Confirmation : handler[r] # "idle" => r[2] \in sent /\ target[r[2]] = r[1]

\* While calls have credentials no record of a command was deleted, so that only
\* the first request with a record ever takes effect.
OpenerInv ==
    /\ revoked \in BOOLEAN
    /\ opener \in [Commands -> Confirmation \cup {NoRequest}]
    /\ \A c \in Commands : opener[c] # NoRequest => KeyOf[opener[c]] = c
    /\ \A c \in Commands : opener[c] = NoRequest => record[c] = NoRequest
    /\ ~revoked =>
          /\ \A c \in Commands : record[c] = opener[c]
          /\ \A r \in Confirmation : r \notin forgotten
    /\ \A r \in Confirmation : effects[r] > 0 => opener[KeyOf[r]] = r

ConfirmedInv == IInv /\ DeadInv /\ LinkTypes /\ LinkInv /\ OpenerInv

LEMMA ConfirmedInvInit == ConfirmedInit => ConfirmedInv
<1>. SUFFICES ASSUME ConfirmedInit PROVE ConfirmedInv
  OBVIOUS
<1>. USE ConstantsAssumption, ConfirmedAssumption DEF ConfirmedInit
<1>1. IInv
  BY InvInit
<1>2. DeadInv /\ LinkTypes /\ LinkInv
  BY DEF Init, DeadInv, LinkTypes, LinkInv, Confirmation
<1>3. /\ revoked = FALSE /\ forgotten = {}
      /\ \A c \in Commands : opener[c] = NoRequest /\ record[c] = NoRequest
      /\ \A r \in Confirmation : effects[r] = 0
  BY DEF Init
<1>4. opener \in [Commands -> Confirmation \cup {NoRequest}]
  OBVIOUS
<1>5. OpenerInv
  <2>1. \A r \in Confirmation : ~(effects[r] > 0)
    BY <1>3
  <2>. QED
    BY <1>3, <1>4, <2>1, Zenon DEF OpenerInv
<1>. QED
  BY <1>1, <1>2, <1>5 DEF ConfirmedInv

\* To the scheduler the conversation is a client like any other.
LEMMA ClientStep == ASSUME [ConfirmedNext]_confirmedVars PROVE [Next]_vars
<1>1. CASE SchedulerStep
  BY <1>1 DEF SchedulerStep, Runs, Next, Environment
<1>2. CASE \E h \in Handlers : HandlerConverses(h) \/ HearsCompleted(h)
  BY <1>2 DEF HandlerConverses, HearsCompleted, vars
<1>3. CASE RowForgotten \/ Revoke \/ UNCHANGED confirmedVars
  BY <1>3 DEF RowForgotten, Revoke, confirmedVars, vars
<1>. QED
  BY <1>1, <1>2, <1>3 DEF ConfirmedNext

LEMMA DeadStep == ASSUME TypeOK, CallInv, DeadInv, [Next]_vars PROVE DeadInv'
<1>. USE ConstantsAssumption DEF DeadInv, TypeOK, Run, Job, keyVars, recordVars, jobVars
<1>1. ASSUME NEW r \in Requests,
             \/ Arrive(r) \/ Check(r) \/ Reclaim(r) \/ Claim(r) \/ InsertRecord(r)
             \/ DuplicateRecord(r) \/ Enqueue(r) \/ SyncReturns(r) \/ Recheck(r) \/ StoreFails(r)
      PROVE  DeadInv'
  BY <1>1 DEF Arrive, Check, Reclaim, Claim, InsertRecord, DuplicateRecord, Enqueue,
              SyncReturns, Recheck, StoreFails
<1>2. ASSUME NEW r \in Requests, RunStep(r)  PROVE DeadInv'
  BY <1>2 DEF RunStep, CallSucceeds, CallFails, CompleteKey, CompleteFails, Notify
<1>3. ASSUME NEW r \in Requests, TakeJob(r) \/ JobSucceeds(r)  PROVE DeadInv'
  BY <1>3 DEF TakeJob, JobSucceeds
<1>4. ASSUME NEW r \in Requests, JobThrows(r) \/ Stalled(r)  PROVE DeadInv'
  <2>1. r \notin Sync
    BY <1>4 DEF JobThrows, Stalled, CallInv
  <2>. QED
    BY <1>4, <2>1 DEF JobThrows, Stalled, FailJob
<1>5. ASSUME NEW r \in Requests, DeadLetter(r)  PROVE DeadInv'
  BY <1>5 DEF DeadLetter
<1>6. CASE Environment
  BY <1>6 DEF Environment, Expire, Age, PurgeExpiredKeys, PurgeExpiredExecutions, PurgeUser,
              DeleteRecords, Crash
<1>7. CASE UNCHANGED vars
  BY <1>7 DEF vars
<1>. QED
  BY <1>1, <1>2, <1>3, <1>4, <1>5, <1>6, <1>7 DEF Next, HandlerStep, WorkerStep

\* Who comes to the scheduler in a step of it.
LEMMA SchedulerHandles ==
  ASSUME TypeOK, SchedulerStep, NEW r \in Requests
  PROVE  /\ handler[r] # "idle" => handler'[r] # "idle"
         /\ handler[r] = "idle" /\ handler'[r] # "idle" => Posted(r)
<1>. DEFINE Goal == /\ handler[r] # "idle" => handler'[r] # "idle"
                    /\ handler[r] = "idle" /\ handler'[r] # "idle" => Posted(r)
<1>. USE DEF TypeOK, Handler, Waiting
<1>1. ASSUME NEW s \in Requests, Posted(s), Arrive(s)  PROVE Goal
  BY <1>1 DEF Arrive, HandlerGoes
<1>2. ASSUME NEW s \in Requests, HandlerStep(s)  PROVE Goal
  BY <1>2 DEF HandlerStep, HandlerGoes, Check, Reclaim, Claim, InsertRecord, DuplicateRecord,
              Enqueue, SyncReturns, Recheck, StoreFails
<1>3. ASSUME NEW s \in Requests, RunStep(s) \/ WorkerStep(s)  PROVE Goal
  <2>1. handler' = handler
    BY <1>3 DEF RunStep, WorkerStep, CallSucceeds, CallFails, CompleteKey, CompleteFails, Notify,
                TakeJob, JobSucceeds, JobThrows, Stalled, DeadLetter
  <2>. QED
    BY <2>1
<1>4. ASSUME \/ \E k \in Keys : Expire(k) \/ Age(k)
             \/ PurgeExpiredKeys \/ PurgeExpiredExecutions
             \/ \E u \in Users : PurgeUser(u)
      PROVE  Goal
  <2>1. handler' = handler
    BY <1>4 DEF Expire, Age, PurgeExpiredKeys, PurgeExpiredExecutions, PurgeUser
  <2>. QED
    BY <2>1
<1>5. ASSUME Crash  PROVE Goal
  BY <1>5 DEF Crash
<1>. QED
  BY <1>1, <1>2, <1>3, <1>4, <1>5 DEF SchedulerStep, Runs

\* The records of the keys in K are deleted: those of commands after a disconnect.
Deletion(K) ==
    /\ DeleteRecords(K)
    /\ effects' = effects
    /\ \A c \in Commands \cap K : revoked

\* A call of r that may have taken effect.
Effect(r) ==
    /\ run[r] = "call"
    /\ effects' = [effects EXCEPT ![r] = @ + 1]
    /\ r \in Confirmation => ~revoked
    /\ UNCHANGED <<record, forgotten>>

\* What a step of the scheduler does to records and effects.
LEMMA SchedulerRecords ==
  ASSUME IInv, DeadInv, SchedulerStep
  PROVE  \/ UNCHANGED <<record, forgotten, effects>>
         \/ \E r \in Requests : InsertRecord(r) \/ Effect(r)
         \/ \E K \in SUBSET Keys : Deletion(K)
<1>. DEFINE Nothing == UNCHANGED <<record, forgotten, effects>>
<1>. USE DEF keyVars, recordVars, jobVars
<1>1. ASSUME NEW r \in Requests, Posted(r) /\ Arrive(r)  PROVE Nothing
  BY <1>1 DEF Arrive
<1>2. ASSUME NEW r \in Requests, HandlerStep(r)  PROVE Nothing \/ InsertRecord(r)
  BY <1>2 DEF HandlerStep, Check, Reclaim, Claim, DuplicateRecord, Enqueue, SyncReturns, Recheck,
              StoreFails
<1>3. ASSUME NEW r \in Requests, Runs(r)  PROVE Nothing \/ Effect(r)
  <2>1. UNCHANGED <<record, forgotten>>
    BY <1>3 DEF Runs, RunStep, CallSucceeds, CallFails, CompleteKey, CompleteFails, Notify
  <2>2. \/ effects' = effects
        \/ run[r] = "call" /\ effects' = [effects EXCEPT ![r] = @ + 1]
    BY <1>3 DEF Runs, RunStep, CallSucceeds, CallFails, CompleteKey, CompleteFails, Notify
  <2>3. CASE revoked /\ r \in Confirmation
    BY <1>3, <2>1, <2>3 DEF Runs
  <2>. QED
    BY <2>1, <2>2, <2>3 DEF Effect
<1>4. ASSUME NEW r \in Requests, WorkerStep(r)  PROVE Nothing
  BY <1>4 DEF WorkerStep, TakeJob, JobSucceeds, JobThrows, Stalled, DeadLetter
<1>5. ASSUME \/ \E k \in Keys : Expire(k) \/ Age(k)
             \/ PurgeExpiredKeys \/ Crash
      PROVE  Nothing
  BY <1>5 DEF Expire, Age, PurgeExpiredKeys, Crash
<1>6. ASSUME PurgeExpiredExecutions  PROVE \E K \in SUBSET Keys : Deletion(K)
  <2>. DEFINE old == {k \in Keys : record[k] \in deadLettered /\ Quiet(k)}
  <2>1. DeleteRecords(old) /\ effects' = effects
    BY <1>6 DEF PurgeExpiredExecutions
  <2>2. ASSUME NEW c \in Commands \cap old  PROVE FALSE
    <3>1. record[c] \in Requests /\ KeyOf[record[c]] = c
      BY <2>2, ConstantsAssumption DEF IInv, RecordInv, TypeOK
    <3>2. record[c] \in Sync
      BY <3>1, <2>2, ConfirmedAssumption
    <3>. QED
      BY <3>2, <2>2 DEF DeadInv
  <2>3. Deletion(old)
    BY <2>1, <2>2 DEF Deletion
  <2>. QED
    BY <2>3
<1>7. ASSUME NEW u \in Users, Purgeable(u), PurgeUser(u)
      PROVE  \E K \in SUBSET Keys : Deletion(K)
  <2>. DEFINE mine == {k \in Keys : Owner[k] = u /\ record[k] # NoRequest}
  <2>1. DeleteRecords(mine) /\ effects' = effects
    BY <1>7 DEF PurgeUser
  <2>2. Deletion(mine)
    BY <2>1, <1>7 DEF Deletion, Purgeable
  <2>. QED
    BY <2>2
<1>. HIDE DEF Nothing
<1>8. \/ Nothing
      \/ \E r \in Requests : InsertRecord(r) \/ Effect(r)
      \/ \E K \in SUBSET Keys : Deletion(K)
  BY <1>1, <1>2, <1>3, <1>4, <1>5, <1>6, <1>7 DEF SchedulerStep
<1>. QED
  BY <1>8 DEF Nothing

\* A step of the conversation keeps the link.
LEMMA ConverseStep ==
  ASSUME LinkTypes, LinkInv, NEW h \in Handlers,
         HandlerConverses(h) \/ HearsCompleted(h)
  PROVE  LinkTypes' /\ LinkInv'
<1>. DEFINE Goal == LinkTypes' /\ LinkInv'
<1>. USE ConfirmedAssumption
     DEF LinkTypes, LinkInv, Confirmation, Loop!Busy, Loop!rowVars, Loop!handlerVars, Loop!userVars
<1>1. handler' = handler
  BY DEF HandlerConverses, HearsCompleted, vars
<1>2. ASSUME sent' = sent, target' = target,
             NEW p \in {"done", "think", "clear", "acknowledge"}, at' = [at EXCEPT ![h] = p]
      PROVE  Goal
  BY <1>1, <1>2
<1>3. ASSUME Loop!StartMessage(h)  PROVE Goal
  BY <1>2, <1>3 DEF Loop!StartMessage, Loop!Begin
<1>4. ASSUME NEW c \in Commands, Loop!RejectTap(h, c)  PROVE Goal
  BY <1>2, <1>4 DEF Loop!RejectTap, Loop!Begin
<1>5. ASSUME NEW c \in Commands, Loop!ExpiredTap(h, c)  PROVE Goal
  BY <1>2, <1>5 DEF Loop!ExpiredTap, Loop!Begin
<1>6. ASSUME NEW c \in Commands, Loop!StartConfirm(h, c)  PROVE Goal
  <2>1. at[h] = "idle" /\ h \notin sent
    BY <1>6 DEF Loop!StartConfirm, Loop!Begin
  <2>2. /\ at' = [at EXCEPT ![h] = "execute"] /\ target' = [target EXCEPT ![h] = c]
        /\ sent' = sent
    BY <1>6 DEF Loop!StartConfirm, Loop!Begin
  <2>. QED
    BY <1>1, <2>1, <2>2
<1>7. ASSUME NEW c \in Commands, Loop!StartCancelOrEdit(h, c)  PROVE Goal
  BY <1>2, <1>7 DEF Loop!StartCancelOrEdit, Loop!Begin
<1>8. ASSUME NEW c \in Commands, Loop!Propose(h, c)  PROVE Goal
  BY <1>2, <1>8 DEF Loop!Propose, Loop!Save
<1>9. ASSUME Loop!Send(h)  PROVE Goal
  <2>1. at[h] = "execute" /\ at' = [at EXCEPT ![h] = "wait"] /\ sent' = sent \cup {h}
    BY <1>9 DEF Loop!Send
  <2>2. target' = target
    BY <1>9 DEF Loop!Send
  <2>. QED
    BY <1>1, <2>1, <2>2
<1>10. ASSUME Loop!NotExecuted(h)  PROVE Goal
  BY <1>2, <1>10 DEF Loop!NotExecuted, Loop!ToolResult
<1>11. ASSUME Loop!Answer(h) \/ Loop!Abort(h)  PROVE Goal
  BY <1>2, <1>11 DEF Loop!Answer, Loop!Save, Loop!Abort
<1>12. ASSUME HearsCompleted(h)  PROVE Goal
  BY <1>2, <1>12 DEF HearsCompleted, Loop!ToolResult
<1>. HIDE DEF Goal
<1>13. Goal
  BY <1>3, <1>4, <1>5, <1>6, <1>7, <1>8, <1>9, <1>10, <1>11, <1>12 DEF HandlerConverses
<1>. QED
  BY <1>13 DEF Goal

\* A step of the scheduler keeps the link.
LEMMA SchedulerLinks ==
  ASSUME IInv, LinkTypes, LinkInv, SchedulerStep
  PROVE  LinkTypes' /\ LinkInv'
<1>1. UNCHANGED <<at, target, sent>>
  BY DEF SchedulerStep, loopVars
<1>2. \A r \in Confirmation : handler[r] = "idle" /\ handler'[r] # "idle" => Posted(r)
  BY SchedulerHandles, ConstantsAssumption, ConfirmedAssumption DEF IInv
<1>. QED
  BY <1>1, <1>2 DEF LinkTypes, LinkInv, Posted, Loop!Busy

\* A command's record, while none was deleted, is the first one it had.
LEMMA SchedulerOpener ==
  ASSUME IInv, DeadInv, OpenerInv, SchedulerStep
  PROVE  OpenerInv'
<1>. USE ConstantsAssumption, ConfirmedAssumption
<1>1. /\ revoked' = revoked
      /\ opener' = [c \in Commands |-> IF opener[c] = NoRequest THEN record'[c] ELSE opener[c]]
  BY DEF SchedulerStep
<1>2. ASSUME \A c \in Commands : record'[c] = NoRequest \/ record'[c] = record[c],
             ~revoked => record' = record /\ forgotten' = forgotten
      PROVE  /\ opener' = opener
             /\ \A c \in Commands : opener[c] = NoRequest => record'[c] = NoRequest
             /\ ~revoked =>
                   /\ \A c \in Commands : record'[c] = opener[c]
                   /\ \A r \in Confirmation : r \notin forgotten'
  BY <1>1, <1>2 DEF OpenerInv
<1>3. CASE UNCHANGED <<record, forgotten, effects>>
  BY <1>1, <1>2, <1>3 DEF OpenerInv
<1>4. ASSUME NEW q \in Requests, InsertRecord(q)
      PROVE  OpenerInv'
  <2>1. /\ forgotten' = forgotten /\ effects' = effects
        /\ record[KeyOf[q]] = NoRequest /\ record' = [record EXCEPT ![KeyOf[q]] = q]
    BY <1>4 DEF InsertRecord
  <2>2. ASSUME NEW c \in Commands
        PROVE  record'[c] = IF c = KeyOf[q] THEN q ELSE record[c]
    BY <2>1 DEF IInv, TypeOK
  <2>3. ASSUME NEW c \in Commands
        PROVE  /\ opener'[c] \in Confirmation \cup {NoRequest}
               /\ opener'[c] # NoRequest => KeyOf[opener'[c]] = c
               /\ opener'[c] = NoRequest => record'[c] = NoRequest
               /\ ~revoked => record'[c] = opener'[c]
               /\ opener[c] # NoRequest => opener'[c] = opener[c]
    BY <1>1, <2>1, <2>2 DEF OpenerInv
  <2>4. ASSUME NEW r \in Confirmation, effects'[r] > 0  PROVE opener'[KeyOf[r]] = r
    BY <2>1, <2>3, <2>4 DEF OpenerInv
  <2>5. opener' \in [Commands -> Confirmation \cup {NoRequest}]
    BY <1>1, <2>3
  <2>. QED
    BY <1>1, <2>1, <2>3, <2>4, <2>5 DEF OpenerInv
<1>5. ASSUME NEW q \in Requests, Effect(q)
      PROVE  OpenerInv'
  <2>1. /\ record' = record /\ forgotten' = forgotten /\ run[q] = "call"
        /\ effects' = [effects EXCEPT ![q] = @ + 1]
        /\ q \in Confirmation => ~revoked
    BY <1>5 DEF Effect
  <2>2. opener' = opener
    BY <1>2, <2>1
  <2>3. q \in Confirmation => opener[KeyOf[q]] = q
    BY <2>1 DEF OpenerInv, IInv, RecordInv, Admitted
  <2>4. ASSUME NEW r \in Confirmation, effects'[r] > 0  PROVE opener'[KeyOf[r]] = r
    <3>1. CASE r = q
      BY <2>2, <2>3, <3>1
    <3>2. CASE r # q
      BY <2>1, <2>2, <2>4, <3>2 DEF OpenerInv, IInv, TypeOK
    <3>. QED
      BY <3>1, <3>2
  <2>. QED
    BY <1>1, <2>1, <2>2, <2>4 DEF OpenerInv
<1>6. ASSUME NEW K \in SUBSET Keys, Deletion(K)
      PROVE  OpenerInv'
  <2>1. /\ record' = [k \in Keys |-> IF k \in K THEN NoRequest ELSE record[k]]
        /\ forgotten' = forgotten \cup {r \in Requests : KeyOf[r] \in K /\ record[KeyOf[r]] = r}
        /\ effects' = effects
        /\ \A c \in Commands \cap K : revoked
    BY <1>6 DEF Deletion, DeleteRecords
  <2>2. ASSUME NEW c \in Commands
        PROVE  record'[c] = NoRequest \/ record'[c] = record[c]
    BY <2>1
  <2>3. ASSUME ~revoked
        PROVE  /\ \A c \in Commands : record'[c] = record[c]
               /\ \A r \in Confirmation : r \notin forgotten'
    BY <2>1, <2>3 DEF OpenerInv
  <2>4. opener' = opener
    BY <1>1, <2>2 DEF OpenerInv
  <2>. QED
    BY <1>1, <2>1, <2>2, <2>3, <2>4 DEF OpenerInv
<1>7. \/ UNCHANGED <<record, forgotten, effects>>
      \/ \E q \in Requests : InsertRecord(q) \/ Effect(q)
      \/ \E K \in SUBSET Keys : Deletion(K)
  BY SchedulerRecords
<1>. QED
  BY <1>3, <1>4, <1>5, <1>6, <1>7

\* The invariant holds in every reachable state of the two together.
THEOREM ConfirmedInvariant == ConfirmedSpec => []ConfirmedInv
<1>1. ConfirmedInv /\ [ConfirmedNext]_confirmedVars => ConfirmedInv'
  <2>. SUFFICES ASSUME ConfirmedInv, [ConfirmedNext]_confirmedVars PROVE ConfirmedInv'
    OBVIOUS
  <2>1. [Next]_vars
    BY ClientStep
  <2>2. IInv'
    BY <2>1, TypeStep, RecordStep, CallStep, SuccessStep DEF ConfirmedInv, IInv
  <2>3. DeadInv'
    BY <2>1, DeadStep DEF ConfirmedInv, IInv
  <2>4. LinkTypes' /\ LinkInv' /\ OpenerInv'
    <3>1. ASSUME NEW h \in Handlers, HandlerConverses(h) \/ HearsCompleted(h)
          PROVE  LinkTypes' /\ LinkInv' /\ OpenerInv'
      <4>1. LinkTypes' /\ LinkInv'
        BY <3>1, ConverseStep DEF ConfirmedInv
      <4>2. UNCHANGED <<record, forgotten, effects, revoked, opener>>
        BY <3>1 DEF HandlerConverses, HearsCompleted, vars, accountVars
      <4>3. OpenerInv'
        BY <4>2 DEF ConfirmedInv, OpenerInv
      <4>. QED
        BY <4>1, <4>3
    <3>2. CASE SchedulerStep
      BY <3>2, SchedulerLinks, SchedulerOpener DEF ConfirmedInv
    <3>3. CASE RowForgotten
      <4>1. UNCHANGED <<record, forgotten, effects, revoked, opener, handler, at, target, sent>>
        BY <3>3 DEF RowForgotten, vars, accountVars, Loop!Forget, Loop!Expire, Loop!handlerVars
      <4>. QED
        BY <4>1 DEF ConfirmedInv, LinkTypes, LinkInv, OpenerInv, Loop!Busy
    <3>4. CASE Revoke
      BY <3>4 DEF Revoke, ConfirmedInv, LinkTypes, LinkInv, OpenerInv, loopVars, vars, Loop!Busy
    <3>5. CASE UNCHANGED confirmedVars
      BY <3>5 DEF ConfirmedInv, LinkTypes, LinkInv, OpenerInv, confirmedVars, loopVars, vars,
                  accountVars, Loop!Busy
    <3>. QED
      BY <3>1, <3>2, <3>3, <3>4, <3>5 DEF ConfirmedNext
  <2>. QED
    BY <2>2, <2>3, <2>4 DEF ConfirmedInv
<1>. QED
  BY <1>1, ConfirmedInvInit, PTL DEF ConfirmedSpec

-----------------------------------------------------------------------------
\* With the scheduler there is, the conversation follows ConversationLoop

LEMMA LoopInit == ConfirmedInit => Loop!Init
<1>. SUFFICES ASSUME ConfirmedInit PROVE Loop!Init
  OBVIOUS
<1>1. /\ LoopOpened = {}
      /\ LoopEffects = [r \in Loop!Request |-> 0]
  BY ConfirmedAssumption, ConstantsAssumption
     DEF ConfirmedInit, Init, LoopOpened, LoopEffects, Confirmation, Loop!Request
<1>. QED
  BY <1>1 DEF ConfirmedInit, Loop!Init, Loop!Scheduler!Init

LEMMA SchedulerUnseen ==
  ASSUME UNCHANGED <<opener, effects>>
  PROVE  UNCHANGED <<LoopOpened, LoopEffects>>
BY DEF LoopOpened, LoopEffects

\* The first record of a command opens it; a later one is not seen.
LEMMA InsertionOpens ==
  ASSUME IInv, LinkInv, OpenerInv, NEW r \in Requests, InsertRecord(r), SchedulerStep
  PROVE  UNCHANGED Loop!vars \/ \E h \in Handlers : Loop!SchedulerOpens(h)
<1>. USE ConstantsAssumption, ConfirmedAssumption
<1>1. /\ record' = [record EXCEPT ![KeyOf[r]] = r] /\ effects' = effects
      /\ handler[r] # "idle"
      /\ UNCHANGED loopVars
      /\ opener' = [c \in Commands |-> IF opener[c] = NoRequest THEN record'[c] ELSE opener[c]]
  BY DEF InsertRecord, HandlerGoes, SchedulerStep
<1>2. LoopEffects' = LoopEffects
  BY <1>1 DEF LoopEffects
<1>3. ASSUME NEW d \in Commands, d # KeyOf[r] \/ opener[d] # NoRequest
      PROVE  opener'[d] = opener[d]
  BY <1>1, <1>3 DEF OpenerInv, IInv, TypeOK
<1>4. CASE KeyOf[r] \notin Commands \/ opener[KeyOf[r]] # NoRequest
  <2>1. opener' = opener
    BY <1>1, <1>3, <1>4 DEF OpenerInv
  <2>. QED
    BY <1>1, <2>1, SchedulerUnseen DEF Loop!vars, loopVars
<1>5. CASE KeyOf[r] \in Commands /\ opener[KeyOf[r]] = NoRequest
  <2>. DEFINE c == r[1]
              h == r[2]
  <2>1. /\ r \in Confirmation /\ c \in Commands /\ h \in Handlers /\ r = <<c, h>>
        /\ KeyOf[r] = c
    BY <1>5 DEF Confirmation
  <2>2. h \in sent /\ target[h] = c
    BY <1>1, <2>1 DEF LinkInv
  <2>. HIDE DEF c, h
  <2>3. opener[c] = NoRequest /\ opener' = [opener EXCEPT ![c] = r]
    <3>1. opener'[c] = r
      BY <1>1, <1>5, <2>1 DEF IInv, TypeOK
    <3>2. ASSUME NEW d \in Commands  PROVE opener'[d] = [opener EXCEPT ![c] = r][d]
      BY <1>3, <2>1, <3>1 DEF OpenerInv
    <3>3. opener' = [d \in Commands |-> opener'[d]]
      BY <1>1
    <3>4. opener = [d \in Commands |-> opener[d]]
      BY DEF OpenerInv
    <3>. QED
      BY <1>5, <2>1, <3>2, <3>3, <3>4
  <2>4. r \notin LoopOpened /\ LoopOpened' = LoopOpened \cup {r}
    BY <2>1, <2>3 DEF LoopOpened, OpenerInv
  <2>5. Loop!RequestOf(h) = r
    BY <2>1, <2>2 DEF Loop!RequestOf
  <2>6. r \in Loop!Request /\ [s \in Loop!Request |-> s[1]][r] = c
    BY <2>1 DEF Loop!Request
  <2>7. Loop!Scheduler!Open(r)
    BY <1>1, <1>2, <2>3, <2>4, <2>6 DEF Loop!Scheduler!Open, loopVars
  <2>8. Loop!SchedulerOpens(h)
    BY <1>1, <2>2, <2>5, <2>7
       DEF Loop!SchedulerOpens, Loop!rowVars, Loop!handlerVars, Loop!userVars, loopVars
  <2>. QED
    BY <2>1, <2>8
<1>. QED
  BY <1>4, <1>5

\* A call to MonicaHQ that may have taken effect: it is applied, for the first time.
LEMMA CallApplies ==
  ASSUME IInv, LinkInv, OpenerInv, OpenerInv', NEW r \in Requests, Effect(r), opener' = opener,
         UNCHANGED loopVars
  PROVE  UNCHANGED Loop!vars \/ \E h \in Handlers : Loop!SchedulerApplies(h)
<1>. USE ConstantsAssumption, ConfirmedAssumption
<1>1. LoopOpened' = LoopOpened
  BY DEF LoopOpened
<1>2. run[r] = "call" /\ effects' = [effects EXCEPT ![r] = @ + 1]
  BY DEF Effect
<1>3. CASE r \notin Confirmation
  <2>1. LoopEffects' = LoopEffects
    BY <1>2, <1>3 DEF LoopEffects, IInv, TypeOK
  <2>. QED
    BY <1>1, <2>1 DEF Loop!vars, loopVars
<1>4. CASE r \in Confirmation
  <2>. DEFINE c == r[1]
              h == r[2]
  <2>1. c \in Commands /\ h \in Handlers /\ r = <<c, h>> /\ KeyOf[r] = c
    BY <1>4 DEF Confirmation
  <2>2. ~Early(r)
    BY <1>2 DEF IInv, RecordInv
  <2>3. h \in sent /\ target[h] = c
    BY <1>4, <2>1, <2>2 DEF LinkInv, Early
  <2>4. effects[r] = 0
    BY <1>2, <1>4 DEF IInv, CallInv, TypeOK
  <2>. HIDE DEF c, h
  <2>5. effects'[r] > 0
    BY <1>2, <2>4 DEF IInv, TypeOK
  <2>6. r \in LoopOpened
    BY <1>4, <2>5 DEF LoopOpened, OpenerInv
  <2>7. r \in Loop!Request /\ [s \in Loop!Request |-> 1][r] = 1
    BY <2>1 DEF Loop!Request
  <2>8. LoopEffects[r] < 1
    BY <1>4, <2>4 DEF LoopEffects
  <2>9. LoopEffects' = [LoopEffects EXCEPT ![r] = @ + 1]
    BY <1>2, <1>4 DEF LoopEffects, IInv, TypeOK
  <2>10. Loop!Scheduler!Apply(r)
    BY <1>1, <2>6, <2>7, <2>8, <2>9 DEF Loop!Scheduler!Apply, loopVars
  <2>11. Loop!RequestOf(h) = r
    BY <2>1, <2>3 DEF Loop!RequestOf
  <2>12. Loop!SchedulerApplies(h)
    BY <2>3, <2>10, <2>11
       DEF Loop!SchedulerApplies, Loop!rowVars, Loop!handlerVars, Loop!userVars, loopVars
  <2>. QED
    BY <2>1, <2>12
<1>. QED
  BY <1>3, <1>4

\* An answer "completed" is true, so the ideal scheduler could have given it.
LEMMA HearingTells ==
  ASSUME IInv, LinkTypes, LinkInv, NEW h \in Handlers, HearsCompleted(h)
  PROVE  Loop!Executed(h)
<1>. USE ConstantsAssumption, ConfirmedAssumption
<1>. DEFINE r == <<target[h], h>>
<1>1. r \in Confirmation /\ KeyOf[r] = target[h] /\ Loop!RequestOf(h) = r
  BY DEF HearsCompleted, LinkInv, Confirmation, Loop!RequestOf
<1>2. PICK s \in Requests : KeyOf[s] = target[h] /\ effects[s] > 0
  BY <1>1 DEF HearsCompleted, IInv, SuccessInv, Applied
<1>3. s \in Confirmation /\ s[1] = target[h] /\ LoopEffects[s] > 0
  BY <1>1, <1>2 DEF LoopEffects, Confirmation
<1>4. UNCHANGED <<opener, LoopOpened, LoopEffects>>
  BY SchedulerUnseen DEF HearsCompleted, vars, accountVars
<1>5. told' = told \cup {r}
  BY DEF HearsCompleted
<1>. HIDE DEF r
<1>6. /\ s \in Loop!Request /\ r \in Loop!Request
      /\ [q \in Loop!Request |-> q[1]][s] = [q \in Loop!Request |-> q[1]][r]
  BY <1>1, <1>3 DEF Loop!Request, Confirmation
<1>7. Loop!Scheduler!Tell(r)
  BY <1>3, <1>4, <1>5, <1>6 DEF Loop!Scheduler!Tell
<1>. QED
  BY <1>1, <1>7 DEF HearsCompleted, Loop!Executed, Loop!rowVars, Loop!userVars

LEMMA LoopStep ==
  ASSUME ConfirmedInv, ConfirmedInv', [ConfirmedNext]_confirmedVars
  PROVE  [Loop!Next]_(Loop!vars)
<1>. USE DEF ConfirmedInv
<1>1. ASSUME NEW h \in Handlers, HandlerConverses(h)
      PROVE  Loop!Next
  BY <1>1 DEF HandlerConverses, Loop!Next
<1>2. ASSUME NEW h \in Handlers, HearsCompleted(h)
      PROVE  Loop!Next
  BY <1>2, HearingTells DEF Loop!Next
<1>3. CASE RowForgotten
  BY <1>3 DEF RowForgotten, Loop!Next
<1>4. CASE Revoke \/ UNCHANGED confirmedVars
  <2>1. UNCHANGED <<loopVars, opener, effects>>
    BY <1>4 DEF Revoke, confirmedVars, accountVars, vars
  <2>. QED
    BY <2>1, SchedulerUnseen DEF loopVars, Loop!vars
<1>5. ASSUME SchedulerStep  PROVE UNCHANGED Loop!vars \/ Loop!Next
  <2>1. /\ UNCHANGED loopVars
        /\ opener' = [c \in Commands |-> IF opener[c] = NoRequest THEN record'[c] ELSE opener[c]]
    BY <1>5 DEF SchedulerStep
  <2>2. ASSUME \A c \in Commands : record'[c] = NoRequest \/ record'[c] = record[c]
        PROVE  opener' = opener
    BY <2>1, <2>2 DEF OpenerInv
  <2>3. CASE UNCHANGED <<record, forgotten, effects>>
    BY <2>1, <2>2, <2>3, SchedulerUnseen DEF loopVars, Loop!vars
  <2>4. ASSUME NEW r \in Requests, InsertRecord(r)
        PROVE  UNCHANGED Loop!vars \/ Loop!Next
    BY <1>5, <2>4, InsertionOpens DEF Loop!Next
  <2>5. ASSUME NEW r \in Requests, Effect(r)
        PROVE  UNCHANGED Loop!vars \/ Loop!Next
    <3>1. opener' = opener
      BY <2>2, <2>5 DEF Effect
    <3>. QED
      BY <2>1, <2>5, <3>1, CallApplies DEF Loop!Next
  <2>6. ASSUME NEW K \in SUBSET Keys, Deletion(K)
        PROVE  UNCHANGED Loop!vars
    <3>1. opener' = opener /\ effects' = effects
      BY <2>2, <2>6, ConfirmedAssumption DEF Deletion, DeleteRecords
    <3>. QED
      BY <2>1, <3>1, SchedulerUnseen DEF loopVars, Loop!vars
  <2>. QED
    BY <1>5, <2>3, <2>4, <2>5, <2>6, SchedulerRecords
<1>. QED
  BY <1>1, <1>2, <1>3, <1>4, <1>5 DEF ConfirmedNext

\* Claims that expire, records that are purged, crashes, lost requests and late
\* answers show the conversation nothing an ideal scheduler would not: the two
\* together refine ConversationLoop.
THEOREM LoopRefinement == ConfirmedSpec => FollowsLoop
BY LoopInit, LoopStep, ConfirmedInvariant, PTL DEF ConfirmedSpec, FollowsLoop, Loop!Spec

\* One request of a confirmed command calls MonicaHQ, once, for ever.
THEOREM OneCallHolds == ConfirmedSpec => []OneCall
<1>1. ConfirmedInv => OneCall
  <2>. SUFFICES ASSUME ConfirmedInv, NEW r \in Confirmation, NEW s \in Confirmation,
                       KeyOf[r] = KeyOf[s], effects[r] > 0, effects[s] > 0
                PROVE  r = s /\ effects[r] = 1
    BY DEF OneCall
  <2>. USE ConstantsAssumption, ConfirmedAssumption DEF ConfirmedInv, IInv
  <2>1. r = s
    BY DEF OpenerInv
  <2>2. effects[r] = 1
    BY DEF CallInv, TypeOK
  <2>. QED
    BY <2>1, <2>2
<1>. QED
  BY <1>1, ConfirmedInvariant, PTL

=============================================================================
