---------------------------- MODULE UserData_proofs ----------------------------
(***************************************************************************)
(* Proofs about DataPurge for every number of requests, services, retries, *)
(* faults and overlapping passes, about Reminders for every reminder time, *)
(* timezone, number of polls, crashes and repeated jobs, and about the two *)
(* together, UserData.                                                     *)
(***************************************************************************)
EXTENDS UserData, SequenceTheorems, FiniteSetTheorems, TLAPS

-----------------------------------------------------------------------------
\* The purge: its inductive invariant

Holding == {"call", "complete", "fail"}

\* The passes that have claimed r and not yet settled it.
Holders(r) == {w \in Sweeps : r \in claimed[w] \/ (current[w] = r /\ sweep[w] \in Holding)}

\* A pass has a request only while it is at one, and none it has begun is ahead.
PassInv ==
    \A w \in Sweeps :
        /\ sweep[w] \in Holding => current[w] \in Requests /\ current[w] \notin claimed[w]
        /\ sweep[w] \notin Holding \cup {"next"} => claimed[w] = {}

\* A request that has used up its retries is at rest: no pass takes it again, and
\* those that still hold it pay for what they may add.
RetryInv ==
    \A r \in Requests :
        retries[r] >= MaxRetries =>
            /\ status[r] \in {"failed", "completed"}
            /\ retries[r] + Cardinality(Holders(r)) <= MaxRetries + Cardinality(Sweeps) - 1

\* Answers are backed by what the services did.
AnswerInv ==
    /\ \A w \in Sweeps :
          /\ sweep[w] = "call" => {current[w]} \X answered[w] \subseteq purged \cup refused
          /\ sweep[w] = "complete" => {current[w]} \X Services \subseteq purged \cup refused
    /\ CompletedWasAsked

PurgeInv == PurgeTypeOK /\ PassInv /\ RetryInv /\ AnswerInv

-----------------------------------------------------------------------------
\* Type correctness

LEMMA PurgeTypeInit == PurgeInit => PurgeTypeOK
BY DataPurgeAssumption DEF PurgeInit, PurgeTypeOK, Statements

LEMMA PurgeTypeStep ==
    ASSUME PurgeTypeOK, PassInv, [PurgeNext]_purgeVars PROVE PurgeTypeOK'
<1>. USE DataPurgeAssumption DEF PurgeTypeOK, Statements, requestVars, sweepVars, callVars
<1>1. ASSUME NEW r \in Requests, Disconnect(r) PROVE PurgeTypeOK'
  BY <1>1 DEF Disconnect
<1>2. ASSUME NEW r \in Requests, FallDue(r) PROVE PurgeTypeOK'
  BY <1>2 DEF FallDue
<1>3. ASSUME NEW r \in Requests, GrowStale(r) PROVE PurgeTypeOK'
  BY <1>3 DEF GrowStale
<1>4. ASSUME PurgeCrash PROVE PurgeTypeOK'
  BY <1>4 DEF PurgeCrash
<1>5. ASSUME NEW r \in Requests, NEW s \in Services, Reach(r, s) PROVE PurgeTypeOK'
  BY <1>5 DEF Reach
<1>6. ASSUME NEW w \in Sweeps PROVE
      /\ StartSweep(w) => PurgeTypeOK'
      /\ Reclaim(w) => PurgeTypeOK'
      /\ Reset(w) => PurgeTypeOK'
      /\ Claim(w) => PurgeTypeOK'
      /\ LastDone(w) => PurgeTypeOK'
      /\ AllAnswered(w) => PurgeTypeOK'
      /\ CallFails(w) => PurgeTypeOK'
  <2>1. StartSweep(w) => PurgeTypeOK'
    BY DEF StartSweep, Goes
  <2>2. Reclaim(w) => PurgeTypeOK'
    BY DEF Reclaim, Goes, Restate
  <2>3. Reset(w) => PurgeTypeOK'
    BY DEF Reset, Goes, Restate
  <2>4. Claim(w) => PurgeTypeOK'
    BY DEF Claim, Goes, Restate
  <2>5. LastDone(w) => PurgeTypeOK'
    BY DEF LastDone, Goes
  <2>6. AllAnswered(w) \/ CallFails(w) => PurgeTypeOK'
    BY DEF AllAnswered, CallFails, Goes
  <2>. QED
    BY <2>1, <2>2, <2>3, <2>4, <2>5, <2>6
<1>7. ASSUME NEW w \in Sweeps, NEW r \in Requests, Call(w, r) PROVE PurgeTypeOK'
  BY <1>7 DEF Call, Goes
<1>8. ASSUME NEW w \in Sweeps, NEW s \in Services, Answer(w, s) PROVE PurgeTypeOK'
  <2>1. current[w] \in Requests
    BY <1>8 DEF Answer, PassInv, Holding
  <2>. QED
    BY <1>8, <2>1 DEF Answer
<1>9. ASSUME NEW w \in Sweeps, MarkCompleted(w) \/ MarkFailed(w) PROVE PurgeTypeOK'
  BY <1>9 DEF MarkCompleted, MarkFailed, Goes
<1>10. ASSUME NEW w \in Sweeps, StatementFails(w) PROVE PurgeTypeOK'
  BY <1>10 DEF StatementFails, Abandon, Goes
<1>11. CASE UNCHANGED purgeVars
  BY <1>11 DEF purgeVars
<1>. QED
  BY <1>1, <1>2, <1>3, <1>4, <1>5, <1>6, <1>7, <1>8, <1>9, <1>10, <1>11
     DEF PurgeNext, PurgeOwn, SweepStep

-----------------------------------------------------------------------------
\* Passes

LEMMA PassStep ==
    ASSUME PurgeTypeOK, PassInv, [PurgeNext]_purgeVars PROVE PassInv'
<1>. USE DataPurgeAssumption DEF PurgeTypeOK, Statements, requestVars, sweepVars, callVars,
         PassInv, Holding
<1>1. ASSUME UNCHANGED sweepVars PROVE PassInv'
  BY <1>1
<1>2. ASSUME PurgeCrash PROVE PassInv'
  BY <1>2 DEF PurgeCrash
<1>3. ASSUME NEW w \in Sweeps,
             \/ StartSweep(w) \/ Reclaim(w) \/ Reset(w) \/ Claim(w) \/ LastDone(w)
             \/ AllAnswered(w) \/ CallFails(w) \/ MarkCompleted(w) \/ MarkFailed(w)
      PROVE  PassInv'
  BY <1>3 DEF StartSweep, Reclaim, Reset, Claim, LastDone, AllAnswered, CallFails,
     MarkCompleted, MarkFailed, Goes
<1>4. ASSUME NEW w \in Sweeps, NEW r \in Requests, Call(w, r) PROVE PassInv'
  BY <1>4 DEF Call, Goes
<1>5. ASSUME NEW w \in Sweeps, NEW s \in Services, Answer(w, s) PROVE PassInv'
  BY <1>5 DEF Answer
<1>6. ASSUME NEW w \in Sweeps, StatementFails(w) PROVE PassInv'
  BY <1>6 DEF StatementFails, Abandon, Goes
<1>. QED
  BY <1>1, <1>2, <1>3, <1>4, <1>5, <1>6
     DEF PurgeNext, PurgeOwn, SweepStep, Disconnect, FallDue, GrowStale, Reach, purgeVars

-----------------------------------------------------------------------------
\* Retries

\* What the bound needs: fewer holders leave the sum in place, and a holder that
\* leaves pays for one retry.
LEMMA FewerHolders ==
    ASSUME NEW r, Holders(r)' \subseteq Holders(r)
    PROVE  Cardinality(Holders(r)') <= Cardinality(Holders(r))
           /\ Cardinality(Holders(r)') \in Nat /\ Cardinality(Holders(r)) \in Nat
<1>1. IsFiniteSet(Holders(r))
  BY DataPurgeAssumption, FS_Subset DEF Holders
<1>. QED
  BY <1>1, FS_Subset, FS_CardinalityType

LEMMA HolderLeaves ==
    ASSUME NEW r, NEW w \in Holders(r), Holders(r)' \subseteq Holders(r) \ {w}
    PROVE  Cardinality(Holders(r)') <= Cardinality(Holders(r)) - 1
           /\ Cardinality(Holders(r)') \in Nat /\ Cardinality(Holders(r)) \in Nat
           /\ Cardinality(Holders(r)) <= Cardinality(Sweeps) /\ Cardinality(Sweeps) \in Nat
<1>1. IsFiniteSet(Holders(r)) /\ Cardinality(Holders(r)) <= Cardinality(Sweeps)
  BY DataPurgeAssumption, FS_Subset DEF Holders
<1>2. IsFiniteSet(Holders(r) \ {w}) /\ Cardinality(Holders(r) \ {w}) = Cardinality(Holders(r)) - 1
  BY <1>1, FS_RemoveElement
<1>. QED
  BY <1>1, <1>2, FS_Subset, FS_CardinalityType, DataPurgeAssumption

LEMMA RetryStep ==
    ASSUME PurgeTypeOK, PassInv, RetryInv, [PurgeNext]_purgeVars PROVE RetryInv'
<1>. USE DEF requestVars, sweepVars, callVars
<1>0. Cardinality(Sweeps) \in Nat /\ MaxRetries \in Nat
  BY DataPurgeAssumption, FS_CardinalityType
\* Steps that neither add a holder nor a retry.
<1>1. ASSUME NEW r \in Requests,
             retries'[r] = retries[r],
             retries[r] >= MaxRetries => status'[r] \in {"failed", "completed"}
                                         /\ Holders(r)' \subseteq Holders(r),
             retries'[r] >= MaxRetries
      PROVE  /\ status'[r] \in {"failed", "completed"}
             /\ retries'[r] + Cardinality(Holders(r)') <= MaxRetries + Cardinality(Sweeps) - 1
  <2>1. Cardinality(Holders(r)') <= Cardinality(Holders(r))
        /\ Cardinality(Holders(r)') \in Nat /\ Cardinality(Holders(r)) \in Nat
    BY <1>1, FewerHolders
  <2>. QED
    BY <1>0, <1>1, <2>1 DEF RetryInv, PurgeTypeOK
<1>. DEFINE Rests(r) == retries'[r] = retries[r]
                        /\ (retries[r] >= MaxRetries => status'[r] \in {"failed", "completed"}
                                                        /\ Holders(r)' \subseteq Holders(r))
<1>2. ASSUME \A r \in Requests : Rests(r) PROVE RetryInv'
  <2>. SUFFICES ASSUME NEW r \in Requests, retries'[r] >= MaxRetries
                PROVE  /\ status'[r] \in {"failed", "completed"}
                       /\ retries'[r] + Cardinality(Holders(r)') <= MaxRetries + Cardinality(Sweeps) - 1
    BY DEF RetryInv
  <2>. QED
    BY <1>1, <1>2
<1>3. ASSUME NEW q \in Requests, Disconnect(q) \/ FallDue(q) \/ GrowStale(q) PROVE RetryInv'
  <2>1. \A r \in Requests : Rests(r)
    BY <1>3 DEF Disconnect, FallDue, GrowStale, Holders, PurgeTypeOK, RetryInv
  <2>. QED
    BY <1>2, <2>1
<1>4. ASSUME PurgeCrash PROVE RetryInv'
  <2>1. \A r \in Requests : Rests(r)
    BY <1>4 DEF PurgeCrash, Holders, Holding, PurgeTypeOK, RetryInv
  <2>. QED
    BY <1>2, <2>1
<1>5. ASSUME NEW q \in Requests, NEW s \in Services, Reach(q, s) PROVE RetryInv'
  <2>1. \A r \in Requests : Rests(r)
    BY <1>5 DEF Reach, Holders, RetryInv
  <2>. QED
    BY <1>2, <2>1
<1>6. ASSUME NEW w \in Sweeps, StartSweep(w) \/ LastDone(w) \/ AllAnswered(w) \/ CallFails(w)
      PROVE  RetryInv'
  <2>1. \A r \in Requests : Rests(r)
    BY <1>6 DEF StartSweep, LastDone, AllAnswered, CallFails, Goes, Holders, Holding,
       PurgeTypeOK, RetryInv
  <2>. QED
    BY <1>2, <2>1
<1>7. ASSUME NEW w \in Sweeps, Reclaim(w) PROVE RetryInv'
  <2>1. \A r \in Requests : Rests(r)
    BY <1>7 DEF Reclaim, Goes, Restate, Holders, Holding, PurgeTypeOK, RetryInv
  <2>. QED
    BY <1>2, <2>1
<1>8. ASSUME NEW w \in Sweeps, Reset(w) PROVE RetryInv'
  <2>0. SUFFICES ASSUME NEW r \in Requests PROVE Rests(r)
    BY <1>2
  <2>1. \A v \in Sweeps : sweep'[v] \in Holding <=> sweep[v] \in Holding
    BY <1>8 DEF Reset, Goes, Holding, PurgeTypeOK
  <2>2. Holders(r)' \subseteq Holders(r)
    BY <1>8, <2>1 DEF Reset, Holders
  <2>3. retries[r] >= MaxRetries => status'[r] = status[r]
    BY <1>0, <1>8 DEF Reset, Restate, PurgeTypeOK
  <2>. QED
    BY <1>8, <2>2, <2>3 DEF Reset, RetryInv
<1>9. ASSUME NEW w \in Sweeps, Claim(w) PROVE RetryInv'
  <2>. DEFINE found == {r \in due : status[r] = "pending"}
  <2>1. \A r \in Requests : retries[r] >= MaxRetries => r \notin found
    BY DEF RetryInv
  <2>2. \A r \in Requests : Rests(r)
    BY <1>9, <2>1 DEF Claim, Goes, Restate, Holders, Holding, PurgeTypeOK, RetryInv
  <2>. QED
    BY <1>2, <2>2
<1>10. ASSUME NEW w \in Sweeps, NEW q \in Requests, Call(w, q) PROVE RetryInv'
  <2>1. \A r \in Requests : Rests(r)
    BY <1>10 DEF Call, Goes, Holders, Holding, PurgeTypeOK, RetryInv
  <2>. QED
    BY <1>2, <2>1
<1>11. ASSUME NEW w \in Sweeps, NEW s \in Services, Answer(w, s) PROVE RetryInv'
  <2>1. \A r \in Requests : Rests(r)
    BY <1>11 DEF Answer, Holders, RetryInv
  <2>. QED
    BY <1>2, <2>1
<1>12. ASSUME NEW w \in Sweeps, StatementFails(w) PROVE RetryInv'
  <2>1. \A r \in Requests : Rests(r)
    BY <1>12 DEF StatementFails, Abandon, Goes, Holders, Holding, PurgeTypeOK, RetryInv
  <2>. QED
    BY <1>2, <2>1
<1>13. ASSUME NEW w \in Sweeps, MarkCompleted(w) PROVE RetryInv'
  <2>1. \A r \in Requests : Rests(r)
    BY <1>13 DEF MarkCompleted, Goes, Holders, Holding, PurgeTypeOK, RetryInv
  <2>. QED
    BY <1>2, <2>1
<1>14. ASSUME NEW w \in Sweeps, MarkFailed(w) PROVE RetryInv'
  <2>0. PICK q \in Requests : q = current[w]
    BY <1>14 DEF MarkFailed, Goes, PassInv, Holding
  <2>1. q \in Requests /\ w \in Holders(q) /\ w \notin Holders(q)'
    BY <1>14, <2>0 DEF MarkFailed, Goes, Holders, Holding, PassInv, PurgeTypeOK
  <2>2. \A r \in Requests : Holders(r)' \subseteq Holders(r)
    BY <1>14 DEF MarkFailed, Goes, Holders, Holding, PurgeTypeOK
  <2>3. \A r \in Requests \ {q} : Rests(r)
    BY <1>14, <2>0, <2>2 DEF MarkFailed, PurgeTypeOK, RetryInv
  <2>4. retries'[q] = retries[q] + 1 /\ status'[q] = "failed"
    BY <1>14, <2>0 DEF MarkFailed, PurgeTypeOK
  <2>5. retries'[q] >= MaxRetries =>
           retries'[q] + Cardinality(Holders(q)') <= MaxRetries + Cardinality(Sweeps) - 1
    <3>1. /\ Cardinality(Holders(q)') <= Cardinality(Holders(q)) - 1
          /\ Cardinality(Holders(q)') \in Nat /\ Cardinality(Holders(q)) \in Nat
          /\ Cardinality(Holders(q)) <= Cardinality(Sweeps)
      BY <2>1, <2>2, HolderLeaves
    <3>2. retries[q] \in Nat
      BY <2>1 DEF PurgeTypeOK
    <3>3. CASE retries[q] >= MaxRetries
      BY <1>0, <2>1, <2>4, <3>1, <3>2, <3>3 DEF RetryInv
    <3>4. CASE retries[q] < MaxRetries
      BY <1>0, <2>4, <3>1, <3>2, <3>4
    <3>. QED
      BY <1>0, <3>2, <3>3, <3>4
  <2>6. SUFFICES ASSUME NEW r \in Requests, retries'[r] >= MaxRetries
                 PROVE  /\ status'[r] \in {"failed", "completed"}
                        /\ retries'[r] + Cardinality(Holders(r)') <= MaxRetries + Cardinality(Sweeps) - 1
    BY DEF RetryInv
  <2>7. CASE r = q
    BY <2>4, <2>5, <2>6, <2>7
  <2>8. CASE r # q
    <3>1. Rests(r)
      BY <2>3, <2>8
    <3>. QED
      BY <1>1, <2>6, <3>1
  <2>. QED
    BY <2>7, <2>8
<1>15. CASE UNCHANGED purgeVars
  <2>1. \A r \in Requests : Rests(r)
    BY <1>15 DEF purgeVars, Holders, RetryInv
  <2>. QED
    BY <1>2, <2>1
<1>. QED
  BY <1>3, <1>4, <1>5, <1>6, <1>7, <1>8, <1>9, <1>10, <1>11, <1>12, <1>13, <1>14, <1>15
     DEF PurgeNext, PurgeOwn, SweepStep

-----------------------------------------------------------------------------
\* Answers

LEMMA AnswerStep ==
    ASSUME PurgeTypeOK, PassInv, AnswerInv, [PurgeNext]_purgeVars PROVE AnswerInv'
<1>. USE DEF requestVars, sweepVars, callVars, AnswerInv, CompletedWasAsked, PurgeTypeOK
<1>1. ASSUME NEW r \in Requests, Disconnect(r) \/ FallDue(r) \/ GrowStale(r) PROVE AnswerInv'
  BY <1>1 DEF Disconnect, FallDue, GrowStale
<1>2. ASSUME PurgeCrash PROVE AnswerInv'
  BY <1>2 DEF PurgeCrash
<1>3. ASSUME NEW r \in Requests, NEW s \in Services, Reach(r, s) PROVE AnswerInv'
  BY <1>3 DEF Reach
<1>4. ASSUME NEW w \in Sweeps,
             \/ StartSweep(w) \/ Reclaim(w) \/ Reset(w) \/ Claim(w) \/ LastDone(w)
             \/ CallFails(w) \/ MarkFailed(w)
      PROVE  AnswerInv'
  BY <1>4 DEF StartSweep, Reclaim, Reset, Claim, LastDone, CallFails, MarkFailed, Goes, Restate
<1>5. ASSUME NEW w \in Sweeps, NEW r \in Requests, Call(w, r) PROVE AnswerInv'
  BY <1>5 DEF Call, Goes
<1>6. ASSUME NEW w \in Sweeps, NEW s \in Services, Answer(w, s) PROVE AnswerInv'
  BY <1>6 DEF Answer
<1>7. ASSUME NEW w \in Sweeps, AllAnswered(w) PROVE AnswerInv'
  BY <1>7 DEF AllAnswered, Goes
<1>8. ASSUME NEW w \in Sweeps, MarkCompleted(w) PROVE AnswerInv'
  BY <1>8 DEF MarkCompleted, Goes, PassInv, Holding
<1>9. ASSUME NEW w \in Sweeps, StatementFails(w) PROVE AnswerInv'
  BY <1>9 DEF StatementFails, Abandon, Goes
<1>10. CASE UNCHANGED purgeVars
  BY <1>10 DEF purgeVars
<1>. QED
  BY <1>1, <1>2, <1>3, <1>4, <1>5, <1>6, <1>7, <1>8, <1>9, <1>10
     DEF PurgeNext, PurgeOwn, SweepStep

-----------------------------------------------------------------------------
\* Theorems

LEMMA PurgeInvInit == PurgeInit => PurgeInv
<1>. SUFFICES ASSUME PurgeInit PROVE PurgeInv
  OBVIOUS
<1>1. PassInv /\ AnswerInv
  BY DEF PurgeInit, PassInv, Holding, AnswerInv, CompletedWasAsked
<1>2. RetryInv
  BY DataPurgeAssumption DEF PurgeInit, RetryInv
<1>. QED
  BY <1>1, <1>2, PurgeTypeInit DEF PurgeInv

LEMMA PurgeInvStep == PurgeInv /\ [PurgeNext]_purgeVars => PurgeInv'
BY PurgeTypeStep, PassStep, RetryStep, AnswerStep DEF PurgeInv

LEMMA PurgeInvariant == PurgeSpec => []PurgeInv
BY PurgeInvInit, PurgeInvStep, PTL DEF PurgeSpec

LEMMA PurgeBound == PurgeInv => RetriesBounded
<1>. SUFFICES ASSUME PurgeInv, NEW r \in Requests
              PROVE  retries[r] <= MaxRetries + Cardinality(Sweeps) - 1
  BY DEF RetriesBounded
<1>1. Cardinality(Sweeps) \in Nat /\ Cardinality(Sweeps) >= 1
  BY DataPurgeAssumption, FS_CardinalityType, FS_EmptySet
<1>2. Cardinality(Holders(r)) \in Nat
  BY DataPurgeAssumption, FS_Subset, FS_CardinalityType DEF Holders
<1>. QED
  BY <1>1, <1>2, DataPurgeAssumption DEF PurgeInv, RetryInv, PurgeTypeOK

\* The types of the purge's state.
THEOREM PurgeTypeCorrect == PurgeSpec => []PurgeTypeOK
BY PurgeInvariant, PTL DEF PurgeInv

\* However many passes overlap, each adds at most one try to a request that has
\* had its retries.
THEOREM RetriesStayBounded == PurgeSpec => []RetriesBounded
BY PurgeInvariant, PurgeBound, PTL

\* No request is completed unless all services answered a DELETE for it.
THEOREM CompletedMeansAsked == PurgeSpec => []CompletedWasAsked
BY PurgeInvariant, PTL DEF PurgeInv, AnswerInv

-----------------------------------------------------------------------------
\* Reminders: the inductive invariant

\* A poll has the time it started at; a job belongs to a poll that has ended.
PollInv ==
    \A p \in Polls :
        /\ poll[p] \in Polling => pollNow[p] = now
        /\ poll[p] = "insert" => Firing[Due(pollNow[p])] < pollNow[p]
        /\ job[p] # "none" => poll[p] = "ended"
        /\ run[p] # "none" => job[p] = "active"

\* The last window row of an era is still there for the job that came with it.
OnceInv ==
    /\ \A p \in Polls :
          Queued(p) => /\ era[p] <= erased[WindowOf(p)]
                       /\ era[p] = erased[WindowOf(p)] => row[WindowOf(p)] \in Fired
    /\ QueuedOnce

\* A delivery belongs to a run of its job that has begun, and the connector to a
\* delivery that has got so far; each of its two renderings shows one message.
DigestInv ==
    \A p \in Polls, n \in 0 .. MaxStalls :
        LET i == <<p, n>>
        IN  /\ at[i] # "idle" => job[p] # "none" /\ n <= stalls[p]
            /\ at[i] \in {"idle", "audit"} => connector[i] = "idle"
            /\ connector[i] \in {"idle", "markdown"} => shown[i] = 0
            /\ connector[i] = "plain" => shown[i] <= 1
            /\ shown[i] <= 2

\* A window becomes "sent" only after the answer.
SentInv ==
    /\ \A p \in Polls : run[p] = "mark" => at[Digest(p)] \in Answered
    /\ SentWasAnswered

\* A window is skipped after its catch-up hours, and a poll within them leaves
\* the window fired.
SkipInv ==
    ~Weekly =>
        /\ \A d \in Days : row[d] = "skipped" => Firing[d] + CatchUp < now
        /\ \A p \in Polls, d \in Days :
              /\ poll[p] \in {"enqueue", "ended"}
              /\ Firing[d] < pollNow[p]
              /\ pollNow[p] \in Firing[d] + Shift .. Firing[d] + CatchUp
              => row[d] \in Fired \/ erased[d] > 0

IInv ==
    TypeOK /\ PollInv /\ OnceInv /\ CatchUpAccounted /\ DigestInv /\ SentInv /\ SkipInv

-----------------------------------------------------------------------------
\* Windows

NatLess == {e \in Nat \X Nat : e[1] < e[2]}

LEMMA LeastNat ==
    ASSUME NEW T \in SUBSET Nat, T # {}
    PROVE  \E x \in T : \A y \in T : x <= y
<1>1. IsWellFoundedOn(NatLess, Nat)
  BY NatLessThanWellFounded DEF OpToRel, NatLess
<1>2. PICK x \in T : \A y \in T : ~ (<<y, x>> \in NatLess)
  BY <1>1, WFMin
<1>3. \A y \in T : ~ (y < x)
  BY <1>2 DEF NatLess
<1>. QED
  BY <1>3

LEMMA DaysFact == /\ Days = 1 .. Len(Firing) /\ Len(Firing) \in Nat \ {0}
                  /\ \A d \in Days : Firing[d] \in Int
                  /\ Period \in Nat
BY RemindersAssumption DEF Days, Period

\* A poll within the horizon finds a day, the first to fire within its period.
LEMMA DueFact ==
    ASSUME NEW t \in 0 .. Horizon
    PROVE  /\ Due(t) \in Days
           /\ Firing[Due(t)] > t - Period
           /\ \A e \in Days : e < Due(t) => Firing[e] <= t - Period
<1>. DEFINE T == {d \in Days : Firing[d] > t - Period}
<1>1. t \in Int /\ t <= Horizon /\ Horizon \in Nat
  BY RemindersAssumption
<1>2. Len(Firing) \in T
  BY <1>1, DaysFact, RemindersAssumption
<1>3. PICK x \in T : \A y \in T : x <= y
  <2>1. T \in SUBSET Nat /\ T # {}
    BY <1>2, DaysFact
  <2>. HIDE DEF T
  <2>. QED
    BY <2>1, LeastNat
<1>4. \A e \in Days : e < x => Firing[e] <= t - Period
  BY <1>1, <1>3, DaysFact
<1>5. \E d \in Days : Firing[d] > t - Period /\ \A e \in Days : e < d => Firing[e] <= t - Period
  BY <1>3, <1>4
<1>. QED
  BY <1>5 DEF Due, NextFiring

LEMMA WindowFact ==
    ASSUME TypeOK, NEW p \in Polls PROVE WindowOf(p) \in Windows
BY DueFact DEF TypeOK, WindowOf, Windows

\* A daily poll in the catch-up hours of a day finds that day, whatever the clocks
\* do, and records it for catch-up.
LEMMA DueInTime ==
    ASSUME ~Weekly, NEW t \in 0 .. Horizon, NEW d \in Days,
           Firing[d] < t, t \in Firing[d] + Shift .. Firing[d] + CatchUp
    PROVE  Due(t) = d /\ StatusAt(t) = "catch_up"
<1>1. /\ t \in Nat /\ Day \in Nat /\ Shift \in Nat /\ CatchUp \in Nat /\ CatchUp < Day
      /\ Period = Day /\ Firing[1] <= -Day
  BY RemindersAssumption DEF Period
<1>2. Firing[d] > t - Day
  BY <1>1, DaysFact
<1>3. d # 1
  BY <1>1, <1>2, DaysFact
<1>4. d - 1 \in Days /\ Firing[d - 1] <= t - Day
  <2>1. d - 1 \in Days
    BY <1>3, DaysFact
  <2>2. Firing[d] - Firing[d - 1] \in Day - Shift .. Day + Shift
    BY <1>3, RemindersAssumption
  <2>3. Firing[d] \in Int /\ Firing[d - 1] \in Int
    BY <2>1, DaysFact
  <2>4. Firing[d] + Shift <= t /\ Firing[d] - Firing[d - 1] >= Day - Shift
    BY <1>1, <2>2, <2>3
  <2>. QED
    BY <1>1, <2>1, <2>3, <2>4
<1>5. \A e \in Days : e < d => Firing[e] <= t - Day
  <2>. SUFFICES ASSUME NEW e \in Days, e < d PROVE Firing[e] <= t - Day
    OBVIOUS
  <2>1. e = d - 1 \/ e < d - 1
    BY DaysFact
  <2>2. e < d - 1 => Firing[e] < Firing[d - 1]
    BY <1>4, RemindersAssumption
  <2>. QED
    BY <1>1, <1>4, <2>1, <2>2, DaysFact
<1>6. Due(t) = d
  <2>1. Due(t) \in Days /\ Firing[Due(t)] > t - Day
        /\ \A e \in Days : e < Due(t) => Firing[e] <= t - Day
    BY <1>1, DueFact
  <2>2. \A e \in Days : e \in Int /\ Firing[e] \in Int
    BY DaysFact
  <2>3. t - Day \in Int
    BY <1>1
  <2>4. ~ (Due(t) < d)
    BY <1>5, <2>1, <2>2, <2>3
  <2>5. ~ (d < Due(t))
    BY <1>2, <2>1, <2>2, <2>3
  <2>. QED
    BY <2>1, <2>2, <2>4, <2>5
<1>7. t - Firing[d] \in 0 .. CatchUp
  BY <1>1, DaysFact
<1>. QED
  BY <1>6, <1>7 DEF StatusAt

\* A daily window is skipped only after its catch-up hours.
LEMMA SkippedLate ==
    ASSUME NEW t \in 0 .. Horizon, Firing[Due(t)] < t, StatusAt(t) # "catch_up"
    PROVE  Firing[Due(t)] + CatchUp < t
<1>1. t \in Int /\ CatchUp \in Nat /\ Firing[Due(t)] \in Int
  BY DueFact, DaysFact, RemindersAssumption
<1>2. t - Firing[Due(t)] \notin 0 .. CatchUp
  BY DEF StatusAt
<1>. QED
  BY <1>1, <1>2

LEMMA DailyWindow == ~Weekly => Windows = Days /\ \A d \in Days : Window(d) = d
BY DEF Windows, Window

-----------------------------------------------------------------------------
\* Type correctness

LEMMA TypeInit == Init => TypeOK
<1>1. DeliveryInit => DeliveryTypeOK
  BY DEF DeliveryInit, DeliveryTypeOK, Audit
<1>2. 0 \in 0 .. Horizon /\ 0 \in 0 .. MaxStalls /\ 0 \in 0 .. MaxCrashes
  BY RemindersAssumption
<1>. QED
  BY <1>1, <1>2 DEF Init, TypeOK, Row

LEMMA DeliveryTypeStep ==
    ASSUME DeliveryTypeOK, NEW i \in Intents,
           Accept(i) \/ DeliveryStep(i) \/ Render(i) \/ HandlerLost(i)
    PROVE  DeliveryTypeOK'
<1>. USE DEF DeliveryTypeOK, Working, Answered, Audit, Rendering
<1>1. ASSUME Accept(i) PROVE DeliveryTypeOK'
  BY <1>1 DEF Accept, HandlerAt
<1>2. ASSUME InsertAudit(i) PROVE DeliveryTypeOK'
  BY <1>2 DEF InsertAudit, HandlerAt
<1>3. ASSUME SendReturns(i) PROVE DeliveryTypeOK'
  BY <1>3 DEF SendReturns, HandlerAt
<1>4. ASSUME RecordDelivered(i) PROVE DeliveryTypeOK'
  BY <1>4 DEF RecordDelivered, HandlerAt, SetAudit
<1>5. ASSUME RecordFailed(i) PROVE DeliveryTypeOK'
  BY <1>5 DEF RecordFailed, HandlerAt, SetAudit
<1>6. ASSUME Render(i) PROVE DeliveryTypeOK'
  BY <1>6 DEF Render, Renders
<1>7. ASSUME HandlerLost(i) PROVE DeliveryTypeOK'
  BY <1>7 DEF HandlerLost
<1>. QED
  BY <1>1, <1>2, <1>3, <1>4, <1>5, <1>6, <1>7 DEF DeliveryStep

LEMMA DigestFact ==
    ASSUME TypeOK, NEW p \in Polls
    PROVE  Digest(p) \in Intents /\ Digest(p) \in DigestsOf(p) /\ stalls[p] \in 0 .. MaxStalls
BY RemindersAssumption DEF TypeOK, Digest, DigestsOf

LEMMA TypeStep == ASSUME TypeOK, [Next]_vars PROVE TypeOK'
<1>. USE RemindersAssumption DEF TypeOK, Polling, Running, JobEnds, Row,
         pollVars, jobVars, reminderVars, deliveryVars
<1>0. ASSUME UNCHANGED deliveryVars PROVE DeliveryTypeOK'
  BY <1>0 DEF DeliveryTypeOK
<1>1. ASSUME NEW p \in Polls, StartPoll(p) PROVE TypeOK'
  BY <1>0, <1>1 DEF StartPoll, PollAt
<1>2. ASSUME NEW p \in Polls, InsertWindow(p) PROVE TypeOK'
  <2>1. WindowOf(p) \in Windows /\ erased[WindowOf(p)] \in Nat
    BY WindowFact
  <2>2. StatusAt(pollNow[p]) \in {"catch_up", "skipped"}
    BY DEF StatusAt
  <2>. QED
    BY <1>0, <1>2, <2>1, <2>2 DEF InsertWindow, PollAt
<1>3. ASSUME NEW p \in Polls, Enqueue(p) \/ PollFails(p) PROVE TypeOK'
  BY <1>0, <1>3 DEF Enqueue, PollFails, PollAt
<1>4. ASSUME NEW p \in Polls, TakeJob(p) PROVE TypeOK'
  BY <1>0, <1>4 DEF TakeJob
<1>5. ASSUME NEW p \in Polls, Fetch(p) PROVE TypeOK'
  <2>1. DeliveryTypeOK'
    BY <1>0, <1>5, DigestFact, DeliveryTypeStep DEF Fetch
  <2>2. /\ now' = now /\ row' = row /\ erased' = erased /\ poll' = poll
        /\ pollNow' = pollNow /\ era' = era /\ stalls' = stalls /\ crashes' = crashes
    BY <1>5 DEF Fetch
  <2>3. /\ run' \in [Polls -> {"none"} \cup Running]
        /\ job' \in [Polls -> {"none", "waiting", "active"} \cup JobEnds]
    BY <1>5 DEF Fetch, RunAt, Ends
  <2>. QED
    BY <2>1, <2>2, <2>3
<1>6. ASSUME NEW p \in Polls, Delivered(p) PROVE TypeOK'
  BY <1>0, <1>6 DEF Delivered, RunAt, Ends
<1>7. ASSUME NEW p \in Polls, MarkSent(p) PROVE TypeOK'
  <2>1. UNCHANGED deliveryVars
    BY <1>7 DEF MarkSent
  <2>2. row' \in [Windows -> Row]
    BY <1>7 DEF MarkSent
  <2>3. /\ run' \in [Polls -> {"none"} \cup Running]
        /\ job' \in [Polls -> {"none", "waiting", "active"} \cup JobEnds]
    BY <1>7 DEF MarkSent, RunAt, Ends
  <2>. QED
    BY <1>0, <1>7, <2>1, <2>2, <2>3 DEF MarkSent
<1>8. ASSUME NEW p \in Polls, Stalled(p) PROVE TypeOK'
  <2>0. MaxStalls \in Nat /\ stalls[p] \in 0 .. MaxStalls
    OBVIOUS
  <2>1. stalls[p] < MaxStalls => stalls[p] + 1 \in 0 .. MaxStalls
    BY ONLY <2>0
  <2>2. stalls' \in [Polls -> 0 .. MaxStalls]
    BY <1>8, <2>1 DEF Stalled
  <2>3. job' \in [Polls -> {"none", "waiting", "active"} \cup JobEnds]
    BY <1>8 DEF Stalled
  <2>. QED
    BY <1>0, <1>8, <2>2, <2>3 DEF Stalled
<1>9. ASSUME NEW i \in Intents, DeliveryStep(i) \/ Render(i) \/ HandlerLost(i),
             UNCHANGED reminderVars
      PROVE  TypeOK'
  <2>1. DeliveryTypeOK'
    BY <1>9, DeliveryTypeStep
  <2>2. /\ now' = now /\ row' = row /\ erased' = erased /\ poll' = poll
        /\ pollNow' = pollNow /\ era' = era /\ job' = job /\ run' = run
        /\ stalls' = stalls /\ crashes' = crashes
    BY <1>9
  <2>. QED
    BY <2>1, <2>2
<1>10. ASSUME NEW w \in Windows, PurgeWindow(w) PROVE TypeOK'
  BY <1>0, <1>10 DEF PurgeWindow
<1>11. ASSUME Crash PROVE TypeOK'
  BY <1>0, <1>11 DEF Crash
<1>12. ASSUME Tick PROVE TypeOK'
  BY <1>0, <1>12 DEF Tick
<1>13. ASSUME PurgeUser PROVE TypeOK'
  <2>1. CASE EraseWindows /\ UNCHANGED deliveryVars
    BY <1>0, <2>1 DEF EraseWindows
  <2>2. CASE PurgeAudits /\ UNCHANGED reminderVars
    <3>1. DeliveryTypeOK'
      BY <2>2 DEF PurgeAudits, DeliveryTypeOK, Audit
    <3>. QED
      BY <2>2, <3>1
  <2>. QED
    BY <1>13, <2>1, <2>2 DEF PurgeUser
<1>14. CASE UNCHANGED vars
  BY <1>0, <1>14 DEF vars
<1>. QED
  BY <1>1, <1>2, <1>3, <1>4, <1>5, <1>6, <1>7, <1>8, <1>9, <1>10, <1>11, <1>12, <1>13, <1>14
     DEF Next, RemindersOwn, PollStep, JobStep

-----------------------------------------------------------------------------
\* Polls and jobs

LEMMA PollInvStep == ASSUME TypeOK, PollInv, [Next]_vars PROVE PollInv'
<1>. USE DEF TypeOK, PollInv, Polling, Running, JobEnds, pollVars, jobVars, reminderVars
<1>1. ASSUME NEW p \in Polls, StartPoll(p) PROVE PollInv'
  BY <1>1 DEF StartPoll, PollAt
<1>2. ASSUME NEW p \in Polls, InsertWindow(p) PROVE PollInv'
  BY <1>2 DEF InsertWindow, PollAt
<1>3. ASSUME NEW p \in Polls, Enqueue(p) \/ PollFails(p) PROVE PollInv'
  BY <1>3 DEF Enqueue, PollFails, PollAt
<1>4. ASSUME NEW p \in Polls, TakeJob(p) \/ Stalled(p) PROVE PollInv'
  BY <1>4 DEF TakeJob, Stalled
<1>5. ASSUME NEW p \in Polls, Fetch(p) \/ Delivered(p) \/ MarkSent(p) PROVE PollInv'
  BY <1>5 DEF Fetch, Delivered, MarkSent, RunAt, Ends
<1>6. ASSUME UNCHANGED <<now, pollVars, jobVars>> PROVE PollInv'
  BY <1>6
<1>7. ASSUME Crash PROVE PollInv'
  BY <1>7 DEF Crash
<1>8. ASSUME Tick PROVE PollInv'
  BY <1>8 DEF Tick
<1>. QED
  BY <1>1, <1>2, <1>3, <1>4, <1>5, <1>6, <1>7, <1>8
     DEF Next, RemindersOwn, PollStep, JobStep, PurgeWindow, PurgeUser, EraseWindows,
         PurgeAudits, vars

-----------------------------------------------------------------------------
\* One job per window

LEMMA WindowStays ==
    ASSUME NEW p \in Polls, pollNow'[p] = pollNow[p] PROVE WindowOf(p)' = WindowOf(p)
BY DEF WindowOf

\* Steps that leave the jobs, their eras and the fired windows alone.
LEMMA OnceKept ==
    ASSUME OnceInv,
           \A p \in Polls :
              Queued(p)' => /\ Queued(p) /\ pollNow'[p] = pollNow[p] /\ era'[p] = era[p]
                            /\ erased'[WindowOf(p)] = erased[WindowOf(p)]
                            /\ row[WindowOf(p)] \in Fired => row'[WindowOf(p)] \in Fired
    PROVE  OnceInv'
<1>1. \A p \in Polls : Queued(p)' => WindowOf(p)' = WindowOf(p)
  BY WindowStays
<1>2. ASSUME NEW p \in Polls, Queued(p)'
      PROVE  /\ era'[p] <= erased'[WindowOf(p)']
             /\ era'[p] = erased'[WindowOf(p)'] => row'[WindowOf(p)'] \in Fired
  BY <1>1, <1>2 DEF OnceInv
<1>3. QueuedOnce'
  BY <1>1 DEF OnceInv, QueuedOnce
<1>. QED
  BY <1>2, <1>3 DEF OnceInv

LEMMA OnceStep == ASSUME TypeOK, PollInv, OnceInv, [Next]_vars PROVE OnceInv'
<1>. USE DEF Queued, pollVars, jobVars, reminderVars
<1>1. ASSUME NEW p \in Polls, StartPoll(p) PROVE OnceInv'
  BY <1>1, OnceKept DEF StartPoll, PollAt, TypeOK, PollInv
<1>2. ASSUME NEW p \in Polls, InsertWindow(p) PROVE OnceInv'
  <2>. DEFINE w == Window(Due(pollNow[p]))
  <2>0. /\ pollNow' = pollNow /\ erased' = erased /\ job' = job /\ WindowOf(p) \in Windows
        /\ poll[p] = "insert" /\ job[p] = "none"
    BY <1>2, WindowFact DEF InsertWindow, PollAt, PollInv
  <2>1. CASE row[WindowOf(p)] # "none" \/ StatusAt(pollNow[p]) # "catch_up"
    <3>1. \A q \in Polls : q # p => poll'[q] = poll[q] /\ era'[q] = era[q]
      BY <1>2 DEF InsertWindow, PollAt, TypeOK
    <3>2. poll'[p] = "ended"
      BY <1>2, <2>1 DEF InsertWindow, PollAt, TypeOK
    <3>3. \A v \in Windows : row[v] \in Fired => row'[v] \in Fired
      BY <1>2 DEF InsertWindow, TypeOK, Fired
    <3>. QED
      BY <2>0, <3>1, <3>2, <3>3, OnceKept, WindowFact
  <2>2. CASE row[WindowOf(p)] = "none" /\ StatusAt(pollNow[p]) = "catch_up"
    <3>1. /\ row' = [row EXCEPT ![WindowOf(p)] = "catch_up"]
          /\ era' = [era EXCEPT ![p] = erased[WindowOf(p)]]
          /\ poll' = [poll EXCEPT ![p] = "enqueue"]
      BY <1>2, <2>2 DEF InsertWindow, PollAt
    <3>2. \A q \in Polls : WindowOf(q)' = WindowOf(q) /\ WindowOf(q) \in Windows
      BY <2>0, WindowStays, WindowFact
    <3>3. \A q \in Polls \ {p} : Queued(q)' <=> Queued(q)
      BY <2>0, <3>1 DEF TypeOK
    <3>4. \A q \in Polls \ {p} :
             Queued(q) /\ WindowOf(q) = WindowOf(p) => era[q] < erased[WindowOf(p)]
      BY <2>2, <3>2 DEF OnceInv, Fired, TypeOK
    <3>5. era'[p] = erased[WindowOf(p)] /\ \A q \in Polls \ {p} : era'[q] = era[q]
      BY <3>1 DEF TypeOK
    <3>6. /\ row'[WindowOf(p)] = "catch_up"
          /\ \A v \in Windows : v # WindowOf(p) => row'[v] = row[v]
      BY <2>0, <3>1 DEF TypeOK
    <3>7. \A v \in Windows : erased[v] \in Nat
      BY DEF TypeOK
    <3>8. \A q \in Polls : era[q] \in Nat
      BY DEF TypeOK
    <3>9. ASSUME NEW q \in Polls, Queued(q)'
          PROVE  /\ era'[q] <= erased'[WindowOf(q)']
                 /\ era'[q] = erased'[WindowOf(q)'] => row'[WindowOf(q)'] \in Fired
      <4>1. CASE q = p
        BY <2>0, <3>2, <3>5, <3>6, <3>7, <4>1 DEF Fired
      <4>2. CASE q # p
        BY <2>0, <3>2, <3>3, <3>5, <3>6, <3>9, <4>2 DEF OnceInv, Fired
      <4>. QED
        BY <4>1, <4>2
    <3>10. QueuedOnce'
      <4>. SUFFICES ASSUME NEW q \in Polls, NEW r \in Polls, q # r, Queued(q)', Queued(r)',
                           WindowOf(q)' = WindowOf(r)'
                    PROVE  era'[q] # era'[r]
        BY DEF QueuedOnce
      <4>1. CASE q = p
        BY <3>2, <3>3, <3>4, <3>5, <3>7, <3>8, <4>1
      <4>2. CASE r = p
        BY <3>2, <3>3, <3>4, <3>5, <3>7, <3>8, <4>2
      <4>3. CASE q # p /\ r # p
        BY <3>2, <3>3, <3>5, <4>3 DEF OnceInv, QueuedOnce
      <4>. QED
        BY <4>1, <4>2, <4>3
    <3>. QED
      BY <3>9, <3>10 DEF OnceInv
  <2>. QED
    BY <2>1, <2>2
<1>3. ASSUME NEW p \in Polls, Enqueue(p) \/ PollFails(p) PROVE OnceInv'
  BY <1>3, OnceKept DEF Enqueue, PollFails, PollAt, TypeOK, Polling
<1>4. ASSUME NEW p \in Polls, TakeJob(p) \/ Fetch(p) \/ Delivered(p) \/ Stalled(p)
      PROVE  OnceInv'
  BY <1>4, OnceKept DEF TakeJob, Fetch, Delivered, Stalled, RunAt, Ends, TypeOK
<1>5. ASSUME NEW p \in Polls, MarkSent(p) PROVE OnceInv'
  <2>1. \A v \in Windows : row[v] \in Fired => row'[v] \in Fired
    BY <1>5 DEF MarkSent, TypeOK, Fired
  <2>. QED
    BY <1>5, <2>1, OnceKept, WindowFact DEF MarkSent, Ends, RunAt, TypeOK
<1>6. ASSUME UNCHANGED reminderVars PROVE OnceInv'
  BY <1>6, OnceKept
<1>7. ASSUME NEW w \in Windows, PurgeWindow(w) PROVE OnceInv'
  <2>1. \A v \in Windows : row[v] \in Fired => row'[v] \in Fired
    BY <1>7 DEF PurgeWindow, TypeOK, Fired
  <2>. QED
    BY <1>7, <2>1, OnceKept, WindowFact DEF PurgeWindow
<1>8. ASSUME Crash \/ Tick PROVE OnceInv'
  BY <1>8, OnceKept DEF Crash, Tick, Polling, TypeOK
<1>9. ASSUME EraseWindows PROVE OnceInv'
  <2>1. \A q \in Polls : /\ WindowOf(q)' = WindowOf(q) /\ WindowOf(q) \in Windows
                         /\ Queued(q)' <=> Queued(q)
    BY <1>9, WindowStays, WindowFact DEF EraseWindows
  <2>2. \A v \in Windows : erased[v] \in Nat /\ row'[v] = "none"
                          /\ erased'[v] = IF row[v] \in Fired THEN erased[v] + 1 ELSE erased[v]
    BY <1>9 DEF EraseWindows, TypeOK
  <2>3. era' = era /\ \A q \in Polls : era[q] \in Nat
    BY <1>9 DEF EraseWindows, TypeOK
  <2>4. ASSUME NEW q \in Polls, Queued(q)
        PROVE  era[q] < erased'[WindowOf(q)]
    BY <2>1, <2>2, <2>3, <2>4 DEF OnceInv
  <2>5. QueuedOnce'
    BY <2>1, <2>3 DEF QueuedOnce, OnceInv
  <2>6. ASSUME NEW q \in Polls, Queued(q)'
        PROVE  /\ era'[q] <= erased'[WindowOf(q)']
               /\ era'[q] = erased'[WindowOf(q)'] => row'[WindowOf(q)'] \in Fired
    BY <2>1, <2>2, <2>3, <2>4, <2>6
  <2>. QED
    BY <2>5, <2>6 DEF OnceInv
<1>. QED
  BY <1>1, <1>2, <1>3, <1>4, <1>5, <1>6, <1>7, <1>8, <1>9
     DEF Next, RemindersOwn, PollStep, JobStep, PurgeUser, vars

-----------------------------------------------------------------------------
\* Catch-up windows are accounted for

Accounts(p) == job[p] # "none" \/ poll[p] \in {"enqueue", "failed"}

\* Steps that record nothing and keep every account.
LEMMA AccountKept ==
    ASSUME TypeOK, CatchUpAccounted,
           \A w \in Windows : row'[w] = "catch_up" => row[w] = "catch_up",
           \A p \in Polls : pollNow'[p] = pollNow[p] /\ (Accounts(p) => Accounts(p)')
    PROVE  CatchUpAccounted'
<1>1. \A p \in Polls : WindowOf(p)' = WindowOf(p)
  BY WindowStays
<1>. QED
  BY <1>1 DEF CatchUpAccounted, Accounts

LEMMA AccountStep ==
    ASSUME TypeOK, PollInv, CatchUpAccounted, [Next]_vars PROVE CatchUpAccounted'
<1>. USE DEF pollVars, jobVars, reminderVars
<1>1. ASSUME NEW p \in Polls, StartPoll(p) PROVE CatchUpAccounted'
  <2>1. \A q \in Polls : Accounts(q) => q # p
    BY <1>1 DEF StartPoll, PollAt, PollInv, Accounts, TypeOK
  <2>2. \A q \in Polls : q # p => WindowOf(q)' = WindowOf(q) /\ (Accounts(q) => Accounts(q)')
    BY <1>1, WindowStays DEF StartPoll, PollAt, Accounts, TypeOK
  <2>. QED
    BY <1>1, <2>1, <2>2 DEF CatchUpAccounted, Accounts, StartPoll
<1>2. ASSUME NEW p \in Polls, InsertWindow(p) PROVE CatchUpAccounted'
  <2>1. pollNow' = pollNow /\ \A q \in Polls : Accounts(q) => Accounts(q)'
    BY <1>2 DEF InsertWindow, PollAt, Accounts, TypeOK
  <2>2. CASE row' = row
    BY <2>1, <2>2, AccountKept
  <2>3. CASE StatusAt(pollNow[p]) # "catch_up"
    <3>1. \A w \in Windows : row'[w] = "catch_up" => row[w] = "catch_up"
      BY <1>2, <2>3 DEF InsertWindow, TypeOK
    <3>. QED
      BY <2>1, <3>1, AccountKept
  <2>4. CASE row[WindowOf(p)] = "none" /\ StatusAt(pollNow[p]) = "catch_up"
    <3>1. poll'[p] = "enqueue" /\ \A w \in Windows \ {WindowOf(p)} : row'[w] = row[w]
      BY <1>2, <2>4 DEF InsertWindow, PollAt, TypeOK
    <3>2. \A q \in Polls : WindowOf(q)' = WindowOf(q)
      BY <2>1, WindowStays
    <3>3. Accounts(p)'
      BY <3>1 DEF Accounts
    <3>. QED
      BY <2>1, <3>1, <3>2, <3>3 DEF CatchUpAccounted, Accounts
  <2>. QED
    BY <1>2, <2>2, <2>3, <2>4 DEF InsertWindow
<1>3. ASSUME NEW p \in Polls, Enqueue(p) \/ PollFails(p) PROVE CatchUpAccounted'
  BY <1>3, AccountKept DEF Enqueue, PollFails, PollAt, TypeOK, Polling, Accounts
<1>4. ASSUME NEW p \in Polls, TakeJob(p) \/ Fetch(p) \/ Delivered(p) \/ Stalled(p)
      PROVE  CatchUpAccounted'
  BY <1>4, AccountKept DEF TakeJob, Fetch, Delivered, Stalled, RunAt, Ends, TypeOK, Accounts
<1>5. ASSUME NEW p \in Polls, MarkSent(p) PROVE CatchUpAccounted'
  <2>1. \A w \in Windows : row'[w] = "catch_up" => row[w] = "catch_up"
    BY <1>5 DEF MarkSent, TypeOK
  <2>. QED
    BY <1>5, <2>1, AccountKept DEF MarkSent, Ends, RunAt, TypeOK, Accounts
<1>6. ASSUME UNCHANGED reminderVars PROVE CatchUpAccounted'
  BY <1>6, AccountKept DEF Accounts
<1>7. ASSUME NEW w \in Windows, PurgeWindow(w) PROVE CatchUpAccounted'
  BY <1>7, AccountKept DEF PurgeWindow, Accounts, TypeOK
<1>8. ASSUME Crash \/ Tick PROVE CatchUpAccounted'
  BY <1>8, AccountKept DEF Crash, Tick, Polling, TypeOK, Accounts
<1>9. ASSUME EraseWindows PROVE CatchUpAccounted'
  BY <1>9, AccountKept DEF EraseWindows, Accounts
<1>. QED
  BY <1>1, <1>2, <1>3, <1>4, <1>5, <1>6, <1>7, <1>8, <1>9
     DEF Next, RemindersOwn, PollStep, JobStep, PurgeUser, vars

-----------------------------------------------------------------------------
\* Digests in the chat

\* The part of DigestInv about one delivery.
Shows(i) == /\ at[i] \in {"idle", "audit"} => connector[i] = "idle"
            /\ connector[i] \in {"idle", "markdown"} => shown[i] = 0
            /\ connector[i] = "plain" => shown[i] <= 1
            /\ shown[i] <= 2

LEMMA ShowsStep ==
    ASSUME DeliveryTypeOK, NEW i \in Intents, NEW j \in Intents, Shows(i),
           Accept(j) \/ DeliveryStep(j) \/ Render(j) \/ HandlerLost(j)
    PROVE  Shows(i)' /\ (j # i \/ at[i] # "idle" => (at'[i] = "idle" <=> at[i] = "idle"))
<1>. USE DEF Shows, DeliveryTypeOK
<1>1. CASE Accept(j)
  BY <1>1 DEF Accept, HandlerAt
<1>2. CASE InsertAudit(j)
  BY <1>2 DEF InsertAudit, HandlerAt
<1>3. CASE SendReturns(j)
  BY <1>3 DEF SendReturns, HandlerAt
<1>4. CASE RecordDelivered(j) \/ RecordFailed(j)
  BY <1>4 DEF RecordDelivered, RecordFailed, HandlerAt
<1>5. CASE Render(j)
  BY <1>5 DEF Render, Renders, Rendering
<1>6. CASE HandlerLost(j)
  BY <1>6 DEF HandlerLost, Working
<1>. QED
  BY <1>1, <1>2, <1>3, <1>4, <1>5, <1>6 DEF DeliveryStep

\* A digest's delivery belongs to a run of its job that has begun.
Begun(p, n) == at[<<p, n>>] # "idle" => job[p] # "none" /\ n <= stalls[p]

LEMMA DigestParts ==
    DigestInv <=> \A p \in Polls, n \in 0 .. MaxStalls : Begun(p, n) /\ Shows(<<p, n>>)
BY DEF DigestInv, Begun, Shows

LEMMA DigestStep == ASSUME TypeOK, DigestInv, [Next]_vars PROVE DigestInv'
<1>. USE RemindersAssumption DEF pollVars, jobVars, reminderVars, deliveryVars
<1>1. ASSUME UNCHANGED <<at, connector, shown>>,
             \A p \in Polls : /\ job[p] # "none" => job'[p] # "none"
                              /\ stalls'[p] \in Int /\ stalls'[p] >= stalls[p]
      PROVE  DigestInv'
  <2>1. ASSUME NEW p \in Polls, NEW n \in 0 .. MaxStalls PROVE Begun(p, n)' /\ Shows(<<p, n>>)'
    <3>1. stalls[p] \in Int /\ stalls'[p] \in Int /\ stalls'[p] >= stalls[p] /\ (at[<<p, n>>] # "idle" => n <= stalls[p])
      BY <1>1, DigestParts DEF TypeOK, Begun
    <3>2. at[<<p, n>>] # "idle" => job'[p] # "none"
      BY <1>1, DigestParts DEF Begun
    <3>3. Shows(<<p, n>>)
      BY DigestParts
    <3>. QED
      BY <1>1, <3>1, <3>2, <3>3 DEF Begun, Shows
  <2>. QED
    BY <2>1, DigestParts DEF DigestInv, Begun, Shows
<1>2. ASSUME NEW p \in Polls, StartPoll(p) \/ InsertWindow(p) \/ Enqueue(p) \/ PollFails(p)
      PROVE  DigestInv'
  BY <1>1, <1>2 DEF StartPoll, InsertWindow, Enqueue, PollFails, TypeOK
<1>3. ASSUME NEW p \in Polls, TakeJob(p) \/ Delivered(p) \/ MarkSent(p) PROVE DigestInv'
  BY <1>1, <1>3 DEF TakeJob, Delivered, MarkSent, Ends, RunAt, TypeOK
<1>4. ASSUME NEW p \in Polls, Stalled(p) PROVE DigestInv'
  BY <1>1, <1>4 DEF Stalled, TypeOK
<1>5. ASSUME NEW q \in Polls, RunAt(q, "fetch", "deliver"), Accept(Digest(q)),
             UNCHANGED <<job, stalls>>
      PROVE  DigestInv'
  <2>1. ASSUME NEW p \in Polls, NEW n \in 0 .. MaxStalls PROVE Begun(p, n)' /\ Shows(<<p, n>>)'
    <3>1. <<p, n>> \in Intents /\ Begun(p, n) /\ Shows(<<p, n>>) /\ DeliveryTypeOK
      BY DigestParts DEF TypeOK
    <3>2. Shows(<<p, n>>)'
      BY <1>5, <3>1, DigestFact, ShowsStep
    <3>3. CASE <<p, n>> = Digest(q)
      BY <1>5, <3>2, <3>3, DigestFact DEF Begun, Digest, RunAt
    <3>4. CASE <<p, n>> # Digest(q)
      BY <1>5, <3>1, <3>2, <3>4 DEF Begun, Accept, HandlerAt, DeliveryTypeOK
    <3>. QED
      BY <3>2, <3>3, <3>4
  <2>. QED
    BY <2>1, DigestParts DEF DigestInv, Begun, Shows
<1>6. ASSUME NEW p \in Polls, Fetch(p) PROVE DigestInv'
  <2>1. CASE Ends(p, "fetch", "completed") \/ Ends(p, "fetch", "failed")
    BY <1>1, <1>6, <2>1 DEF Fetch, Ends, RunAt, TypeOK
  <2>. QED
    BY <1>5, <1>6, <2>1 DEF Fetch
<1>7. ASSUME NEW j \in Intents, DeliveryStep(j) \/ Render(j) \/ HandlerLost(j),
             UNCHANGED reminderVars
      PROVE  DigestInv'
  <2>1. at[j] # "idle" \/ at'[j] = at[j]
    BY <1>7 DEF DeliveryStep, InsertAudit, SendReturns, RecordDelivered, RecordFailed,
       HandlerAt, Render, HandlerLost, Working
  <2>2. ASSUME NEW p \in Polls, NEW n \in 0 .. MaxStalls PROVE Begun(p, n)' /\ Shows(<<p, n>>)'
    <3>1. <<p, n>> \in Intents /\ Begun(p, n) /\ Shows(<<p, n>>) /\ DeliveryTypeOK
      BY DigestParts DEF TypeOK
    <3>2. Shows(<<p, n>>)' /\ (at'[<<p, n>>] = "idle" <=> at[<<p, n>>] = "idle")
      BY <1>7, <2>1, <3>1, ShowsStep
    <3>. QED
      BY <1>7, <3>1, <3>2 DEF Begun
  <2>. QED
    BY <2>2, DigestParts DEF DigestInv, Begun, Shows
<1>8. ASSUME PurgeAudits, UNCHANGED reminderVars PROVE DigestInv'
  BY <1>1, <1>8 DEF PurgeAudits, TypeOK
<1>9. ASSUME NEW w \in Windows, PurgeWindow(w) PROVE DigestInv'
  BY <1>1, <1>9 DEF PurgeWindow, TypeOK
<1>10. ASSUME Crash \/ Tick PROVE DigestInv'
  <2>1. UNCHANGED <<at, connector, shown, job, stalls>>
    BY <1>10 DEF Crash, Tick
  <2>2. \A p \in Polls : stalls[p] \in Int
    BY DEF TypeOK
  <2>. QED
    BY <1>1, <2>1, <2>2
<1>11. ASSUME EraseWindows, UNCHANGED deliveryVars PROVE DigestInv'
  BY <1>1, <1>11 DEF EraseWindows, TypeOK
<1>12. CASE UNCHANGED vars
  BY <1>1, <1>12 DEF vars, TypeOK
<1>. QED
  BY <1>2, <1>3, <1>4, <1>6, <1>7, <1>8, <1>9, <1>10, <1>11, <1>12
     DEF Next, RemindersOwn, PollStep, JobStep, PurgeUser

-----------------------------------------------------------------------------
\* Sent windows

LEMMA SentStep ==
    ASSUME TypeOK, PollInv, DigestInv, SentInv, [Next]_vars PROVE SentInv'
<1>. USE DEF pollVars, jobVars, reminderVars, deliveryVars
\* Answers stay, and the polls whose jobs got them.
<1>1. ASSUME NEW p \in Polls, NEW i \in DigestsOf(p), at[i] \in Answered
      PROVE  at'[i] \in Answered /\ WindowOf(p)' = WindowOf(p)
  <2>1. i \in Intents /\ job[p] # "none"
    <3>1. PICK n \in 0 .. MaxStalls : i = <<p, n>>
      BY DEF DigestsOf
    <3>. QED
      BY <1>1, <3>1, RemindersAssumption DEF DigestInv, Answered
  <2>2. at'[i] = at[i]
    BY <1>1, <2>1 DEF Answered, Working, Next, RemindersOwn, PollStep, JobStep, StartPoll,
       InsertWindow, Enqueue, PollFails, TakeJob, Fetch, Accept, Delivered, MarkSent, Stalled,
       DeliveryStep, InsertAudit, SendReturns, RecordDelivered, RecordFailed, Render,
       HandlerLost, HandlerAt, PurgeWindow, Crash, Tick, PurgeUser, EraseWindows, PurgeAudits,
       vars, TypeOK, DeliveryTypeOK
  <2>3. poll[p] = "ended"
    BY <2>1 DEF PollInv
  <2>4. pollNow'[p] = pollNow[p]
    BY <2>3 DEF Next, RemindersOwn, PollStep, JobStep, StartPoll, PollAt,
       InsertWindow, Enqueue, PollFails, TakeJob, Fetch, Delivered, MarkSent, Stalled,
       PurgeWindow, Crash, Tick, PurgeUser, EraseWindows, vars, TypeOK
  <2>. QED
    BY <1>1, <2>2, <2>4, WindowStays
<1>2. ASSUME NEW w \in Windows,
             \E p \in Polls : WindowOf(p) = w /\ \E i \in DigestsOf(p) : at[i] \in Answered
      PROVE  \E p \in Polls : WindowOf(p)' = w /\ \E i \in DigestsOf(p) : at'[i] \in Answered
  BY <1>1, <1>2
<1>3. ASSUME \A w \in Windows : row'[w] = "sent" => row[w] = "sent" PROVE SentWasAnswered'
  BY <1>2, <1>3 DEF SentInv, SentWasAnswered
<1>4. ASSUME NEW p \in Polls, MarkSent(p) PROVE SentWasAnswered'
  <2>1. run[p] = "mark"
    BY <1>4 DEF MarkSent, Ends, RunAt
  <2>2. \A w \in Windows : row'[w] = "sent" => row[w] = "sent" \/ w = WindowOf(p)
    BY <1>4 DEF MarkSent, TypeOK
  <2>3. \E i \in DigestsOf(p) : at[i] \in Answered
    BY <2>1, DigestFact DEF SentInv
  <2>. QED
    BY <1>2, <2>2, <2>3 DEF SentInv, SentWasAnswered
<1>5. SentWasAnswered'
  <2>1. CASE \E p \in Polls : MarkSent(p)
    BY <1>4, <2>1
  <2>2. CASE \E p \in Polls : InsertWindow(p)
    BY <1>3, <2>2 DEF InsertWindow, StatusAt, TypeOK
  <2>3. CASE row' = row
    BY <1>3, <2>3
  <2>4. CASE (\E w \in Windows : PurgeWindow(w)) \/ EraseWindows
    BY <1>3, <2>4 DEF PurgeWindow, EraseWindows, TypeOK
  <2>. QED
    BY <2>1, <2>2, <2>3, <2>4 DEF Next, RemindersOwn, PollStep, JobStep, StartPoll,
       Enqueue, PollFails, TakeJob, Fetch, Delivered, Stalled, Crash, Tick, PurgeUser, vars
<1>6. ASSUME NEW q \in Polls, run'[q] = "mark" PROVE at'[Digest(q)'] \in Answered
  <2>1. CASE run[q] = "mark" /\ stalls'[q] = stalls[q]
    BY <1>1, <2>1, DigestFact DEF SentInv, Digest
  <2>2. CASE run[q] # "mark"
    <3>1. Delivered(q) /\ at[Digest(q)] \in Answered
      BY <1>6, <2>2 DEF Next, RemindersOwn, PollStep, JobStep, StartPoll, InsertWindow,
         Enqueue, PollFails, TakeJob, Fetch, Delivered, MarkSent, Stalled, RunAt, Ends,
         PurgeWindow, Crash, Tick, PurgeUser, EraseWindows, vars, TypeOK
    <3>2. stalls' = stalls
      BY <3>1 DEF Delivered
    <3>. QED
      BY <1>1, <3>1, <3>2, DigestFact DEF Digest
  <2>3. stalls'[q] = stalls[q] \/ run'[q] # "mark"
    BY <1>6 DEF Next, RemindersOwn, PollStep, JobStep, StartPoll, InsertWindow,
       Enqueue, PollFails, TakeJob, Fetch, Delivered, MarkSent, Stalled,
       PurgeWindow, Crash, Tick, PurgeUser, EraseWindows, vars, TypeOK
  <2>. QED
    BY <1>6, <2>1, <2>2, <2>3
<1>. QED
  BY <1>5, <1>6 DEF SentInv

-----------------------------------------------------------------------------
\* Skipped windows

LEMMA SkipStep ==
    ASSUME TypeOK, PollInv, SkipInv, [Next]_vars PROVE SkipInv'
<1>. SUFFICES ASSUME ~Weekly PROVE SkipInv'
  BY DEF SkipInv
<1>. USE DEF pollVars, jobVars, reminderVars, deliveryVars
<1>0. /\ Windows = Days /\ \A d \in Days : Window(d) = d /\ Firing[d] \in Int
      /\ CatchUp \in Nat /\ Shift \in Nat /\ now \in 0 .. Horizon
      /\ \A p \in Polls : pollNow[p] \in 0 .. Horizon
      /\ \A d \in Days : erased[d] \in Nat
  BY DailyWindow, DaysFact, RemindersAssumption DEF TypeOK
<1>1. ASSUME \A d \in Days : row'[d] = "skipped" => row[d] = "skipped",
             \A d \in Days : row[d] \in Fired \/ erased[d] > 0 => row'[d] \in Fired \/ erased'[d] > 0,
             now' >= now, now' \in Int,
             \A p \in Polls : poll'[p] \in {"enqueue", "ended"} =>
                 poll[p] \in {"enqueue", "ended"} /\ pollNow'[p] = pollNow[p]
      PROVE  SkipInv'
  <2>0. ASSUME NEW d \in Days, row'[d] = "skipped" PROVE Firing[d] + CatchUp < now'
    <3>0. row[d] = "skipped"
      BY <1>1, <2>0
    <3>1. Firing[d] + CatchUp < now /\ now' >= now
      BY <1>1, <2>0, <3>0 DEF SkipInv
    <3>2. Firing[d] \in Int /\ CatchUp \in Int /\ now \in Int /\ now' \in Int
      BY <1>0, <1>1
    <3>. QED
      BY ONLY <3>1, <3>2
  <2>1. \A d \in Days : row'[d] = "skipped" => Firing[d] + CatchUp < now'
    BY <2>0
  <2>2. ASSUME NEW p \in Polls, NEW d \in Days, poll'[p] \in {"enqueue", "ended"},
               Firing[d] < pollNow'[p],
               pollNow'[p] \in Firing[d] + Shift .. Firing[d] + CatchUp
        PROVE  row'[d] \in Fired \/ erased'[d] > 0
    <3>1. /\ poll[p] \in {"enqueue", "ended"} /\ Firing[d] < pollNow[p]
          /\ pollNow[p] \in Firing[d] + Shift .. Firing[d] + CatchUp
      BY <1>1, <2>2
    <3>2. row[d] \in Fired \/ erased[d] > 0
      BY <3>1 DEF SkipInv
    <3>. QED
      BY <1>1, <2>2, <3>2
  <2>. QED
    BY <2>1, <2>2 DEF SkipInv
<1>2. ASSUME NEW p \in Polls, StartPoll(p) PROVE SkipInv'
  <2>1. ASSUME NEW q \in Polls, NEW d \in Days, poll'[q] \in {"enqueue", "ended"},
               Firing[d] < pollNow'[q],
               pollNow'[q] \in Firing[d] + Shift .. Firing[d] + CatchUp
        PROVE  row'[d] \in Fired \/ erased'[d] > 0
    <3>1. CASE q # p
      BY <1>2, <2>1, <3>1 DEF StartPoll, PollAt, SkipInv, TypeOK
    <3>2. CASE q = p
      <4>1. pollNow'[p] = now /\ poll'[p] = "ended" /\ Firing[Due(now)] >= now
        BY <1>2, <2>1, <3>2 DEF StartPoll, PollAt, TypeOK
      <4>2. Due(now) = d
        BY <1>0, <2>1, <3>2, <4>1, DueInTime
      <4>. QED
        BY <1>0, <2>1, <3>2, <4>1, <4>2
    <3>. QED
      BY <3>1, <3>2
  <2>2. \A d \in Days : row'[d] = "skipped" => Firing[d] + CatchUp < now'
    BY <1>2 DEF StartPoll, SkipInv
  <2>. QED
    BY <2>1, <2>2 DEF SkipInv
<1>3. ASSUME NEW p \in Polls, InsertWindow(p) PROVE SkipInv'
  <2>1. /\ pollNow[p] = now /\ poll[p] = "insert" /\ Firing[Due(now)] < now
        /\ Due(now) \in Days /\ WindowOf(p) = Due(now)
        /\ now' = now /\ pollNow' = pollNow /\ erased' = erased
    BY <1>0, <1>3, DueFact DEF InsertWindow, PollAt, PollInv, Polling, WindowOf
  <2>2. \A d \in Days : d # Due(now) => row'[d] = row[d]
    BY <1>0, <1>3, <2>1 DEF InsertWindow, TypeOK
  <2>3. IF row[Due(now)] = "none" THEN row'[Due(now)] = StatusAt(now) ELSE row' = row
    BY <1>0, <1>3, <2>1 DEF InsertWindow, TypeOK
  <2>4. \A d \in Days : row'[d] = "skipped" => Firing[d] + CatchUp < now'
    <3>1. StatusAt(now) = "skipped" => Firing[Due(now)] + CatchUp < now
      BY <1>0, <2>1, SkippedLate
    <3>. QED
      BY <2>1, <2>2, <2>3, <3>1 DEF SkipInv
  <2>5. \A d \in Days : row[d] \in Fired => row'[d] \in Fired
    BY <2>2, <2>3 DEF Fired
  <2>6. ASSUME NEW q \in Polls, NEW d \in Days, poll'[q] \in {"enqueue", "ended"},
               Firing[d] < pollNow'[q],
               pollNow'[q] \in Firing[d] + Shift .. Firing[d] + CatchUp
        PROVE  row'[d] \in Fired \/ erased'[d] > 0
    <3>1. CASE q # p
      BY <1>3, <2>1, <2>5, <2>6, <3>1 DEF InsertWindow, PollAt, SkipInv, TypeOK
    <3>2. CASE q = p
      <4>1. Due(now) = d /\ StatusAt(now) = "catch_up"
        BY <1>0, <2>1, <2>6, <3>2, DueInTime
      <4>2. row[d] # "skipped"
        BY <1>0, <2>1, <2>6, <3>2 DEF SkipInv
      <4>3. row[d] \in Row
        BY <1>0 DEF TypeOK
      <4>. QED
        BY <2>3, <2>5, <4>1, <4>2, <4>3 DEF Row, Fired
    <3>. QED
      BY <3>1, <3>2
  <2>. QED
    BY <2>4, <2>6 DEF SkipInv
<1>4. ASSUME NEW p \in Polls, Enqueue(p) \/ PollFails(p) PROVE SkipInv'
  BY <1>0, <1>1, <1>4 DEF Enqueue, PollFails, PollAt, TypeOK, Polling
<1>5. ASSUME UNCHANGED <<now, erased, poll, pollNow>>,
             \A d \in Days : row'[d] = row[d] \/ row'[d] = "sent"
      PROVE  SkipInv'
  BY <1>0, <1>1, <1>5 DEF Fired
<1>6. ASSUME NEW p \in Polls,
             TakeJob(p) \/ Fetch(p) \/ Delivered(p) \/ MarkSent(p) \/ Stalled(p)
      PROVE  SkipInv'
  BY <1>0, <1>5, <1>6 DEF TakeJob, Fetch, Delivered, MarkSent, Stalled, TypeOK
<1>7. ASSUME UNCHANGED reminderVars PROVE SkipInv'
  BY <1>5, <1>7
<1>8. ASSUME NEW w \in Windows, PurgeWindow(w) PROVE SkipInv'
  BY <1>0, <1>1, <1>8 DEF PurgeWindow, TypeOK, Fired
<1>9. ASSUME Crash PROVE SkipInv'
  BY <1>0, <1>1, <1>9 DEF Crash, TypeOK, Polling
<1>10. ASSUME Tick PROVE SkipInv'
  BY <1>0, <1>1, <1>10 DEF Tick
<1>11. ASSUME EraseWindows PROVE SkipInv'
  <2>1. \A d \in Days : /\ row'[d] = "none"
                       /\ erased'[d] = IF row[d] \in Fired THEN erased[d] + 1 ELSE erased[d]
    BY <1>0, <1>11 DEF EraseWindows
  <2>2. UNCHANGED <<now, poll, pollNow>>
    BY <1>11 DEF EraseWindows
  <2>. QED
    BY <1>0, <1>1, <2>1, <2>2
<1>. QED
  BY <1>2, <1>3, <1>4, <1>6, <1>7, <1>8, <1>9, <1>10, <1>11
     DEF Next, RemindersOwn, PollStep, JobStep, PurgeUser, vars

-----------------------------------------------------------------------------
\* Theorems about Reminders

LEMMA IInvInit == Init => IInv
<1>. SUFFICES ASSUME Init PROVE IInv
  OBVIOUS
<1>1. \A p \in Polls, n \in 0 .. MaxStalls : <<p, n>> \in Intents
  BY RemindersAssumption
<1>2. PollInv /\ OnceInv /\ CatchUpAccounted
  BY DEF Init, PollInv, Polling, OnceInv, Queued, QueuedOnce, CatchUpAccounted
<1>3. DigestInv
  <2>1. \A i \in Intents : at[i] = "idle" /\ connector[i] = "idle" /\ shown[i] = 0
    BY DEF Init, DeliveryInit
  <2>2. \A p \in Polls, n \in 0 .. MaxStalls :
           at[<<p, n>>] = "idle" /\ connector[<<p, n>>] = "idle" /\ shown[<<p, n>>] = 0
    BY <1>1, <2>1
  <2>3. ASSUME NEW p \in Polls, NEW n \in 0 .. MaxStalls PROVE Begun(p, n) /\ Shows(<<p, n>>)
    <3>1. at[<<p, n>>] = "idle" /\ connector[<<p, n>>] = "idle" /\ shown[<<p, n>>] = 0
      BY <2>2
    <3>. QED
      BY <3>1 DEF Begun, Shows
  <2>. QED
    BY <2>3, DigestParts
<1>4. SentInv
  BY DEF Init, SentInv, SentWasAnswered
<1>5. SkipInv
  BY DailyWindow DEF Init, SkipInv
<1>. QED
  BY <1>2, <1>3, <1>4, <1>5, TypeInit DEF IInv

LEMMA IInvStep == IInv /\ [Next]_vars => IInv'
BY TypeStep, PollInvStep, OnceStep, AccountStep, DigestStep, SentStep, SkipStep DEF IInv

LEMMA Invariant == Spec => []IInv
BY IInvInit, IInvStep, PTL DEF Spec

LEMMA DigestBound == IInv => DigestsBounded
<1>. SUFFICES ASSUME IInv, NEW p \in Polls, NEW n \in 0 .. MaxStalls
              PROVE  /\ shown[<<p, n>>] <= 2
                     /\ shown[<<p, n>>] > 0 => job[p] # "none" /\ n <= stalls[p]
  BY DEF DigestsBounded
<1>1. <<p, n>> \in Intents /\ DigestInv /\ DeliveryTypeOK
  BY RemindersAssumption DEF IInv, TypeOK
<1>2. at[<<p, n>>] = "idle" => shown[<<p, n>>] = 0
  BY <1>1 DEF DigestInv
<1>. QED
  BY <1>1, <1>2 DEF DigestInv

LEMMA SkipBound == ~Weekly /\ IInv => SkippedWasMissed
<1>. SUFFICES ASSUME ~Weekly, IInv, NEW p \in Polls, NEW d \in Days, poll[p] = "ended",
                     Firing[d] < pollNow[p],
                     pollNow[p] \in Firing[d] + Shift .. Firing[d] + CatchUp
              PROVE  row[Window(d)] # "skipped" \/ erased[Window(d)] > 0
  BY DEF SkippedWasMissed
<1>. QED
  BY DailyWindow DEF IInv, SkipInv, Fired

\* The types of reminders and deliveries.
THEOREM TypeCorrect == Spec => []TypeOK
BY Invariant, PTL DEF IInv

\* One reminder job per window, for any number of overlapping and crashing polls.
THEOREM OneJobPerWindow == Spec => []QueuedOnce
BY Invariant, PTL DEF IInv, OnceInv

\* A caught-up window has a job, or lost it to a failure its poll swallowed.
THEOREM CatchUpHasJob == Spec => []CatchUpAccounted
BY Invariant, PTL DEF IInv

\* "sent" needs an answer of delivery, across crashes and repeated jobs.
THEOREM SentNeedsAnswer == Spec => []SentWasAnswered
BY Invariant, PTL DEF IInv, SentInv

\* Two messages at most per run of a job, whatever confirmations are lost.
THEOREM AtMostTwoPerRun == Spec => []DigestsBounded
BY Invariant, DigestBound, PTL

\* Whatever the clock changes, a daily reminder polled in its catch-up hours is not
\* skipped.
THEOREM DailyNotSkipped == ASSUME ~Weekly PROVE Spec => []SkippedWasMissed
BY Invariant, SkipBound, PTL

-----------------------------------------------------------------------------
\* UserData

LEMMA UserDataStep == [UserDataNext]_userDataVars => [Next]_vars
BY DEF UserDataNext, userDataVars, Erase, Next, PurgeUser, vars

LEMMA UserDataPurges == [UserDataNext]_userDataVars => [PurgeNext]_purgeVars
BY DEF UserDataNext, userDataVars, Erase, PurgeNext, purgeVars

\* The purge sees the scheduler and delivery as the services it calls, and they see
\* it as purges of the user: all theorems above hold of the two together.
THEOREM UserDataImplements == UserDataSpec => Spec /\ PurgeSpec
BY UserDataStep, UserDataPurges, PTL DEF UserDataSpec, UserDataInit, Spec, PurgeSpec

\* The types of both.
THEOREM UserDataTypeCorrect == UserDataSpec => []UserDataTypeOK
BY UserDataImplements, TypeCorrect, PurgeTypeCorrect, PTL DEF UserDataTypeOK

=============================================================================
