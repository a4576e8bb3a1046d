------------------------- MODULE TelegramIntake_proofs -------------------------
(***************************************************************************)
(* However many requests are between the two calls of Redis that read the  *)
(* budget and add to it: what is let through is within the budget. The     *)
(* invariant adds that a request past the budget is paid for, and that a   *)
(* handled one has not gone back before it.                                *)
(***************************************************************************)
EXTENDS TelegramIntake, TLAPS

PaidWhenPast ==
    \A q \in Requests : stage[q] \in {"gate", "acquire"} => Cost[q[2]] <= admitted[bill[q]]

HandledArePast ==
    \A q \in handled : stage[q] \in {"handle", "retry", "release", "over"}

BudgetInv == AdmittedWithinBudget /\ PaidWhenPast /\ HandledArePast

HandlersHaveUpdates == \A d \in Deliveries : at[d] \in Waiting => update[d] \in Updates

Inv == IntakeTypeOK /\ HandlersHaveUpdates /\ BudgetInv

LEMMA CostIsNat == \A q \in Requests : Cost[q[2]] \in Nat
<1>1. SUFFICES ASSUME NEW q \in Requests PROVE q[2] \in Services
  BY GuardrailsAssumption
<1>2. QED BY <1>1 DEF Requests

-----------------------------------------------------------------------------
(* Types. *)

LEMMA AnsweredTypes ==
    ASSUME GuardrailsTypeOK, NEW q \in Requests, NEW v \in {"none", "ok", "failed", "refused"},
           Answered(q, v)
    PROVE  stage' \in [Requests -> Stages]
           /\ verdict' \in [Requests -> {"none", "ok", "failed", "refused"}]
BY SMT DEF GuardrailsTypeOK, Answered, Stages

LEMMA ToTypes ==
    ASSUME GuardrailsTypeOK, NEW q \in Requests, NEW p \in Stages, To(q, p)
    PROVE  stage' \in [Requests -> Stages]
           /\ verdict' \in [Requests -> {"none", "ok", "failed", "refused"}]
BY SMT DEF GuardrailsTypeOK, To

LEMMA FailureCounts ==
    ASSUME GuardrailsTypeOK, failures < MaxFailures, failures' = failures + 1
    PROVE  failures' \in 0 .. MaxFailures
BY GuardrailsAssumption, SMT DEF GuardrailsTypeOK

LEMMA RedisFailsTypes ==
    ASSUME GuardrailsTypeOK, NEW q \in Requests, RedisFails(q)
    PROVE  stage' \in [Requests -> Stages] /\ failures' \in 0 .. MaxFailures
           /\ verdict' \in [Requests -> {"none", "ok", "failed", "refused"}]
BY AnsweredTypes, FailureCounts DEF RedisFails, Refused

LEMMA GuardStepTypes ==
    ASSUME GuardrailsTypeOK, NEW q \in Requests, GuardStep(q) PROVE GuardrailsTypeOK'
<1> USE DEF GuardrailsTypeOK
<1>0. Cost[q[2]] \in Nat /\ {"budget", "charge", "gate", "acquire", "handle", "retry", "release"} \subseteq Stages
  BY CostIsNat DEF Stages, Underway
<1>1. CASE Enter(q)
  <2>1. stage' \in [Requests -> Stages] /\ failures' \in 0 .. MaxFailures
        /\ verdict' \in [Requests -> {"none", "ok", "failed", "refused"}]
    BY <1>0, <1>1, AnsweredTypes, ToTypes, RedisFailsTypes DEF Enter, Refused
  <2>2. recent' \subseteq Requests
    BY <1>1 DEF Enter
  <2>3. QED BY <1>1, <2>1, <2>2 DEF Enter
<1>2. CASE ReadBudget(q)
  <2>1. stage' \in [Requests -> Stages] /\ failures' \in 0 .. MaxFailures
        /\ verdict' \in [Requests -> {"none", "ok", "failed", "refused"}]
    BY <1>0, <1>2, AnsweredTypes, ToTypes, RedisFailsTypes DEF ReadBudget, Refused
  <2>2. month' \in Months /\ bill' \in [Requests -> Months]
    BY <1>2 DEF ReadBudget
  <2>3. QED BY <1>2, <2>1, <2>2 DEF ReadBudget, redisVars
<1>3. CASE Charge(q)
  <2>1. stage' \in [Requests -> Stages] /\ failures' \in 0 .. MaxFailures
        /\ verdict' \in [Requests -> {"none", "ok", "failed", "refused"}]
    BY <1>0, <1>3, AnsweredTypes, ToTypes, RedisFailsTypes DEF Charge, Refused
  <2>2. spent' \in [Months -> Nat]
    BY <1>0, <1>3, SMT DEF Charge
  <2>3. admitted' \in [Months -> Nat]
    BY <1>0, <1>3, SMT DEF Charge
  <2>4. QED BY <1>3, <2>1, <2>2, <2>3 DEF Charge
<1>4. CASE CheckGate(q)
  <2>1. stage' \in [Requests -> Stages] /\ failures' \in 0 .. MaxFailures
        /\ verdict' \in [Requests -> {"none", "ok", "failed", "refused"}]
    BY <1>0, <1>4, AnsweredTypes, ToTypes, RedisFailsTypes DEF CheckGate, Refused
  <2>2. QED BY <1>4, <2>1 DEF CheckGate, redisVars
<1>5. CASE Acquire(q)
  <2>1. stage' \in [Requests -> Stages] /\ failures' \in 0 .. MaxFailures
        /\ verdict' \in [Requests -> {"none", "ok", "failed", "refused"}]
    BY <1>0, <1>5, ToTypes, RedisFailsTypes DEF Acquire
  <2>2. slots' \subseteq Requests /\ handled' \subseteq Requests
    BY <1>5 DEF Acquire
  <2>3. QED BY <1>5, <2>1, <2>2 DEF Acquire
<1>6. CASE Handle(q)
  <2>1. stage' \in [Requests -> Stages]
        /\ verdict' \in [Requests -> {"none", "ok", "failed", "refused"}]
    BY <1>0, <1>6, ToTypes, SMT DEF Handle
  <2>2. QED BY <1>6, <2>1 DEF Handle, redisVars
<1>7. CASE Release(q)
  <2>1. verdict[q] \in {"none", "ok", "failed", "refused"}
    OBVIOUS
  <2>2. stage' \in [Requests -> Stages] /\ failures' \in 0 .. MaxFailures
        /\ verdict' \in [Requests -> {"none", "ok", "failed", "refused"}]
    BY <1>7, <2>1, AnsweredTypes, FailureCounts DEF Release
  <2>3. slots' \subseteq Requests
    BY <1>7 DEF Release
  <2>4. QED BY <1>7, <2>2, <2>3 DEF Release
<1>8. QED BY <1>1, <1>2, <1>3, <1>4, <1>5, <1>6, <1>7 DEF GuardStep

LEMMA EnvironmentTypes ==
    ASSUME GuardrailsTypeOK, GuardEnvironment PROVE GuardrailsTypeOK'
<1>1. ASSUME NEW s \in Services, Restart(s) PROVE GuardrailsTypeOK'
  <2>1. failures' \in 0 .. MaxFailures
    BY <1>1, FailureCounts DEF Restart
  <2>2. stage' \in [Requests -> Stages]
        /\ verdict' \in [Requests -> {"none", "ok", "failed", "refused"}]
    BY <1>1, SMT DEF Restart, GuardrailsTypeOK, Stages
  <2>3. QED BY <1>1, <2>1, <2>2 DEF Restart, GuardrailsTypeOK, redisVars
<1>2. ASSUME NEW q \in Requests, SlotExpires(q) PROVE GuardrailsTypeOK'
  BY <1>2 DEF SlotExpires, GuardrailsTypeOK
<1>3. QED BY <1>1, <1>2 DEF GuardEnvironment

\* A request of a bridge handler that begins, or nothing, for the guardrails.
LEMMA SendTypes ==
    ASSUME GuardrailsTypeOK, NEW q \in Requests, Arrive(q),
           UNCHANGED <<verdict, month, bill, admitted, handled, failures, redisVars>>
    PROVE  GuardrailsTypeOK'
<1>1. stage' \in [Requests -> Stages]
  BY SMT DEF Arrive, GuardrailsTypeOK, Stages, Underway
<1>2. QED BY <1>1 DEF GuardrailsTypeOK, redisVars

BridgeTypeOK ==
    /\ at \in [Deliveries -> {"away", "done"} \cup Waiting]
    /\ update \in [Deliveries -> Updates \cup {NoUpdate}]
    /\ seen \subseteq Updates /\ excused \subseteq Updates
    /\ reply \in [Deliveries -> {"none", "answer", "error"}]

LEMMA GotoTypes ==
    ASSUME BridgeTypeOK, NEW d \in Deliveries, NEW p \in Waiting, Goto(d, p),
           seen' \subseteq Updates, excused' \subseteq Updates
    PROVE  BridgeTypeOK'
BY SMT DEF BridgeTypeOK, Goto

LEMMA EndsTypes ==
    ASSUME BridgeTypeOK, NEW d \in Deliveries, NEW t \in {"none", "answer", "error"},
           Ends(d, t), seen' \subseteq Updates, excused' \subseteq Updates
    PROVE  BridgeTypeOK'
BY SMT DEF BridgeTypeOK, Ends

\* What a handler of telegram-bridge does to the guardrails: nothing, a request
\* that begins, or a failure counted.
HandlerTouches(d) ==
    \/ UNCHANGED guardVars
    \/ \E s \in Services : Send(d, s)
    \/ /\ failures < MaxFailures /\ failures' = failures + 1
       /\ UNCHANGED <<stage, verdict, month, bill, admitted, handled, redisVars>>

LEMMA HandlerStepTypes ==
    ASSUME IntakeTypeOK, NEW d \in Deliveries, HandlerStep(d),
           update[d] \in Updates \/ at[d] # "dedup"
    PROVE  BridgeTypeOK' /\ HandlerTouches(d)
<1>0. BridgeTypeOK /\ {"resolve", "download", "transcribe", "ask", "command"} \subseteq Waiting
      /\ {"ai", "voice"} \subseteq Services /\ seen \subseteq Updates /\ excused \subseteq Updates
  BY IntakeAssumption DEF IntakeTypeOK, BridgeTypeOK, Waiting
<1>1. CASE Dedup(d)
  <2>1. update[d] \in Updates
    BY <1>1 DEF Dedup
  <2>2. seen' \subseteq Updates /\ excused' \subseteq Updates
    BY <1>0, <1>1, <2>1 DEF Dedup
  <2>3. Goto(d, "resolve") \/ Ends(d, "none")
    BY <1>1 DEF Dedup
  <2>4. BridgeTypeOK'
    BY <1>0, <2>2, <2>3, GotoTypes, EndsTypes
  <2>5. HandlerTouches(d)
    BY <1>1 DEF Dedup, HandlerTouches, guardVars
  <2>6. QED BY <2>4, <2>5
<1>2. CASE Resolve(d)
  <2>1. seen' \subseteq Updates /\ excused' \subseteq Updates
    BY <1>0, <1>2 DEF Resolve
  <2>2. (\E p \in Waiting : Goto(d, p)) \/ (\E t \in {"error", "none"} : Ends(d, t))
    BY <1>0, <1>2 DEF Resolve
  <2>3. BridgeTypeOK'
    BY <1>0, <2>1, <2>2, GotoTypes, EndsTypes
  <2>4. HandlerTouches(d)
    BY <1>0, <1>2 DEF Resolve, HandlerTouches
  <2>5. QED BY <2>3, <2>4
<1>3. CASE Download(d)
  <2>1. seen' \subseteq Updates /\ excused' \subseteq Updates
    BY <1>0, <1>3 DEF Download
  <2>2. Goto(d, "transcribe") \/ Ends(d, "error")
    BY <1>3 DEF Download
  <2>3. BridgeTypeOK'
    BY <1>0, <2>1, <2>2, GotoTypes, EndsTypes
  <2>4. HandlerTouches(d)
    BY <1>0, <1>3 DEF Download, HandlerTouches
  <2>5. QED BY <2>3, <2>4
<1>4. CASE Transcribed(d)
  <2>1. seen' \subseteq Updates /\ excused' \subseteq Updates
    BY <1>0, <1>4 DEF Transcribed
  <2>2. Goto(d, "ask") \/ Ends(d, "error")
    BY <1>4 DEF Transcribed
  <2>3. BridgeTypeOK'
    BY <1>0, <2>1, <2>2, GotoTypes, EndsTypes
  <2>4. HandlerTouches(d)
    BY <1>0, <1>4 DEF Transcribed, HandlerTouches
  <2>5. QED BY <2>3, <2>4
<1>5. CASE Asked(d) \/ TimeOut(d) \/ Command(d)
  <2>1. seen' = seen /\ excused' = excused /\ UNCHANGED guardVars
    BY <1>5 DEF Asked, TimeOut, Command
  <2>2. \E t \in {"answer", "error"} : Ends(d, t)
    <3>1. CASE Asked(d)
      BY <3>1 DEF Asked
    <3>2. CASE TimeOut(d)
      BY <3>2 DEF TimeOut
    <3>3. CASE Command(d)
      BY <3>3 DEF Command
    <3>4. QED BY <1>5, <3>1, <3>2, <3>3
  <2>3. BridgeTypeOK'
    BY <1>0, <2>1, <2>2, EndsTypes
  <2>4. QED BY <2>1, <2>3 DEF HandlerTouches
<1>6. QED BY <1>1, <1>2, <1>3, <1>4, <1>5 DEF HandlerStep

-----------------------------------------------------------------------------
(* The budget. *)

\* A request that moves on, neither past the budget check nor, once handled, back.
LEMMA MoveKeepsBudget ==
    ASSUME GuardrailsTypeOK, BudgetInv, NEW q \in Requests, NEW p,
           stage' = [stage EXCEPT ![q] = p], UNCHANGED <<spent, admitted, bill, handled>>,
           p \in {"gate", "acquire"} => stage[q] \in {"gate", "acquire"},
           stage[q] \in {"handle", "retry", "release", "over"} =>
               p \in {"handle", "retry", "release", "over"}
    PROVE  BudgetInv'
<1>1. \A r \in Requests : stage'[r] = IF r = q THEN p ELSE stage[r]
  BY DEF GuardrailsTypeOK
<1>2. AdmittedWithinBudget'
  BY DEF BudgetInv, AdmittedWithinBudget
<1>3. PaidWhenPast'
  BY <1>1, Zenon DEF BudgetInv, PaidWhenPast
<1>4. HandledArePast'
  BY <1>1, Zenon DEF BudgetInv, HandledArePast, GuardrailsTypeOK
<1>5. QED BY <1>2, <1>3, <1>4 DEF BudgetInv

LEMMA ReadBudgetKeepsBudget ==
    ASSUME GuardrailsTypeOK, BudgetInv, NEW q \in Requests, ReadBudget(q) PROVE BudgetInv'
<1>1. stage[q] = "budget" /\ UNCHANGED <<spent, admitted, handled>>
  BY DEF ReadBudget, redisVars
<1>2. PICK p \in {"charge", "over"} : stage' = [stage EXCEPT ![q] = p]
  BY DEF ReadBudget, To, Refused, RedisFails, Answered
<1>3. \A r \in Requests : r # q => stage'[r] = stage[r] /\ bill'[r] = bill[r]
  BY <1>2 DEF GuardrailsTypeOK, ReadBudget
<1>4. stage'[q] \notin {"gate", "acquire"} /\ q \notin handled
  BY <1>1, <1>2, SMT DEF GuardrailsTypeOK, BudgetInv, HandledArePast
<1>5. AdmittedWithinBudget'
  BY <1>1, <1>3, <1>4, Zenon DEF BudgetInv, AdmittedWithinBudget, GuardrailsTypeOK
<1>6. PaidWhenPast'
  BY <1>1, <1>3, <1>4, Zenon DEF BudgetInv, PaidWhenPast
<1>7. HandledArePast'
  BY <1>1, <1>3, <1>4, Zenon DEF BudgetInv, HandledArePast, GuardrailsTypeOK
<1>8. QED BY <1>5, <1>6, <1>7 DEF BudgetInv

\* What INCRBY answers decides: if it is within the budget, so is what was let
\* through before and this request together.
LEMMA ChargeKeepsBudget ==
    ASSUME GuardrailsTypeOK, BudgetInv, NEW q \in Requests, Charge(q) PROVE BudgetInv'
<1> DEFINE m == bill[q]
           c == Cost[q[2]]
<1>1. /\ stage[q] = "charge" /\ UNCHANGED <<bill, handled>> /\ m \in Months /\ c \in Nat
      /\ \A k \in Months : spent[k] \in Nat /\ admitted[k] \in Nat
      /\ BudgetLimit \in Nat
  BY CostIsNat, GuardrailsAssumption DEF Charge, GuardrailsTypeOK
<1>2. q \notin handled
  BY <1>1, SMT DEF BudgetInv, HandledArePast
<1>3. CASE /\ spent' = [spent EXCEPT ![m] = @ + c] /\ spent'[m] <= BudgetLimit
           /\ stage' = [stage EXCEPT ![q] = "gate"] /\ admitted' = [admitted EXCEPT ![m] = @ + c]
  <2>1. spent'[m] = spent[m] + c /\ admitted'[m] = admitted[m] + c
        /\ \A k \in Months : k # m => spent'[k] = spent[k] /\ admitted'[k] = admitted[k]
    BY <1>1, <1>3 DEF GuardrailsTypeOK
  <2>2. \A k \in Months : admitted'[k] <= BudgetLimit /\ admitted'[k] <= spent'[k]
                         /\ admitted[k] <= admitted'[k] /\ admitted'[k] \in Nat
    BY <1>1, <1>3, <2>1, SMT DEF BudgetInv, AdmittedWithinBudget
  <2>3. \A r \in Requests : bill[r] \in Months /\ Cost[r[2]] \in Nat
    BY CostIsNat DEF GuardrailsTypeOK
  <2>4. c <= admitted'[m]
    BY <1>1, <2>1, SMT
  <2>5. \A r \in Requests : Cost[r[2]] <= admitted[bill[r]] => Cost[r[2]] <= admitted'[bill[r]]
    BY <1>1, <2>2, <2>3, SMT
  <2>6. \A r \in Requests : r # q => stage'[r] = stage[r]
    BY <1>3 DEF GuardrailsTypeOK
  <2>7. AdmittedWithinBudget'
    BY <1>1, <2>2, <2>5 DEF BudgetInv, AdmittedWithinBudget, GuardrailsTypeOK
  <2>8. PaidWhenPast'
    BY <1>1, <2>4, <2>5, <2>6 DEF BudgetInv, PaidWhenPast
  <2>9. HandledArePast'
    BY <1>1, <1>2, <2>6 DEF BudgetInv, HandledArePast, GuardrailsTypeOK
  <2>10. QED BY <2>7, <2>8, <2>9 DEF BudgetInv
<1>4. CASE /\ stage' = [stage EXCEPT ![q] = "over"] /\ UNCHANGED admitted
           /\ spent' \in {spent, [spent EXCEPT ![m] = @ + c]}
  <2>1. \A k \in Months : spent[k] <= spent'[k] /\ spent'[k] \in Nat
    <3>1. CASE spent' = spent
      BY <1>1, <3>1, SMT
    <3>2. CASE spent' = [spent EXCEPT ![m] = @ + c]
      <4>1. \A k \in Months : spent'[k] = IF k = m THEN spent[k] + c ELSE spent[k]
        BY <1>1, <3>2 DEF GuardrailsTypeOK
      <4>2. QED BY <1>1, <4>1, SMT
    <3>3. QED BY <1>4, <3>1, <3>2
  <2>2. \A k \in Months : admitted'[k] <= BudgetLimit /\ admitted'[k] <= spent'[k]
    BY <1>1, <1>4, <2>1, SMT DEF BudgetInv, AdmittedWithinBudget
  <2>3. \A r \in Requests : stage'[r] = IF r = q THEN "over" ELSE stage[r]
    BY <1>4 DEF GuardrailsTypeOK
  <2>4. AdmittedWithinBudget'
    BY <1>1, <1>4, <2>2 DEF BudgetInv, AdmittedWithinBudget
  <2>5. PaidWhenPast'
    <3>1. ASSUME NEW r \in Requests, stage'[r] \in {"gate", "acquire"}
          PROVE  Cost[r[2]] <= admitted'[bill'[r]]
      <4>1. stage[r] \in {"gate", "acquire"}
        BY <2>3, <3>1
      <4>2. Cost[r[2]] <= admitted[bill[r]]
        BY <4>1 DEF BudgetInv, PaidWhenPast
      <4>3. admitted' = admitted /\ bill' = bill
        BY <1>1, <1>4
      <4>4. QED BY <4>2, <4>3
    <3>2. QED BY <3>1 DEF PaidWhenPast
  <2>6. HandledArePast'
    BY <1>1, <2>3, Zenon DEF BudgetInv, HandledArePast, GuardrailsTypeOK
  <2>7. QED BY <2>4, <2>5, <2>6 DEF BudgetInv
<1>5. QED BY <1>3, <1>4, Zenon DEF Charge, To, Refused, RedisFails, Answered

LEMMA AcquireKeepsBudget ==
    ASSUME GuardrailsTypeOK, BudgetInv, NEW q \in Requests, Acquire(q) PROVE BudgetInv'
<1>1. stage[q] = "acquire" /\ UNCHANGED <<spent, admitted, bill>>
  BY DEF Acquire
<1>2. CASE RedisFails(q) /\ UNCHANGED handled
  BY <1>1, <1>2, MoveKeepsBudget DEF RedisFails, Refused, Answered
<1>3. CASE To(q, "handle") /\ handled' = handled \cup {q}
  <2>1. \A r \in Requests : stage'[r] = IF r = q THEN "handle" ELSE stage[r]
    BY <1>3 DEF To, GuardrailsTypeOK
  <2>2. Cost[q[2]] <= admitted[bill[q]]
    BY <1>1 DEF BudgetInv, PaidWhenPast
  <2>3. AdmittedWithinBudget'
    BY <1>1, <1>3, <2>2 DEF BudgetInv, AdmittedWithinBudget
  <2>4. PaidWhenPast'
    BY <1>1, <2>1, Zenon DEF BudgetInv, PaidWhenPast
  <2>5. HandledArePast'
    BY <1>3, <2>1, Zenon DEF BudgetInv, HandledArePast, GuardrailsTypeOK
  <2>6. QED BY <2>3, <2>4, <2>5 DEF BudgetInv
<1>4. QED BY <1>2, <1>3 DEF Acquire

LEMMA GuardStepKeepsBudget ==
    ASSUME GuardrailsTypeOK, BudgetInv, NEW q \in Requests, GuardStep(q) PROVE BudgetInv'
<1>1. CASE Enter(q)
  <2>1. PICK p \in {"over", "budget"} : stage' = [stage EXCEPT ![q] = p]
    BY <1>1 DEF Enter, To, Refused, RedisFails, Answered
  <2>2. stage[q] = "enter" /\ UNCHANGED <<spent, admitted, bill, handled>>
    BY <1>1 DEF Enter
  <2>3. QED BY <2>1, <2>2, MoveKeepsBudget
<1>2. CASE CheckGate(q)
  <2>1. PICK p \in {"over", "acquire"} : stage' = [stage EXCEPT ![q] = p]
    BY <1>2 DEF CheckGate, To, Refused, RedisFails, Answered
  <2>2. stage[q] = "gate" /\ UNCHANGED <<spent, admitted, bill, handled>>
    BY <1>2 DEF CheckGate, redisVars
  <2>3. QED BY <2>1, <2>2, MoveKeepsBudget
<1>3. CASE Handle(q)
  <2>1. PICK p \in {"release", "retry"} : stage' = [stage EXCEPT ![q] = p]
    BY <1>3 DEF Handle, To
  <2>2. stage[q] \in {"handle", "retry"} /\ UNCHANGED <<spent, admitted, bill, handled>>
    BY <1>3 DEF Handle, redisVars
  <2>3. QED BY <2>1, <2>2, MoveKeepsBudget
<1>4. CASE Release(q)
  <2>1. stage' = [stage EXCEPT ![q] = "over"]
    BY <1>4 DEF Release, Answered
  <2>2. stage[q] = "release" /\ UNCHANGED <<spent, admitted, bill, handled>>
    BY <1>4 DEF Release
  <2>3. QED BY <2>1, <2>2, MoveKeepsBudget
<1>5. QED BY <1>1, <1>2, <1>3, <1>4, ReadBudgetKeepsBudget, ChargeKeepsBudget,
          AcquireKeepsBudget DEF GuardStep

LEMMA EnvironmentKeepsBudget ==
    ASSUME GuardrailsTypeOK, BudgetInv, GuardEnvironment PROVE BudgetInv'
<1>1. ASSUME NEW s \in Services, Restart(s) PROVE BudgetInv'
  <2>1. UNCHANGED <<spent, admitted, bill, handled>>
    BY <1>1 DEF Restart, redisVars
  <2>2. \A r \in Requests : stage'[r] \in {stage[r], "over"}
    BY <1>1, SMT DEF Restart
  <2>3. AdmittedWithinBudget'
    BY <2>1 DEF BudgetInv, AdmittedWithinBudget
  <2>4. PaidWhenPast'
    BY <2>1, <2>2, SMT DEF BudgetInv, PaidWhenPast
  <2>5. HandledArePast'
    BY <2>1, <2>2, SMT DEF BudgetInv, HandledArePast, GuardrailsTypeOK
  <2>6. QED BY <2>3, <2>4, <2>5 DEF BudgetInv
<1>2. ASSUME NEW q \in Requests, SlotExpires(q) PROVE BudgetInv'
  BY <1>2 DEF SlotExpires, BudgetInv, AdmittedWithinBudget, PaidWhenPast, HandledArePast
<1>3. QED BY <1>1, <1>2 DEF GuardEnvironment

LEMMA HandlerKeepsGuardrails ==
    ASSUME GuardrailsTypeOK, BudgetInv, NEW d \in Deliveries, HandlerTouches(d)
    PROVE  GuardrailsTypeOK' /\ BudgetInv'
<1>1. CASE UNCHANGED guardVars
  BY <1>1 DEF guardVars, redisVars, GuardrailsTypeOK, BudgetInv, AdmittedWithinBudget,
              PaidWhenPast, HandledArePast
<1>2. ASSUME NEW s \in Services, Send(d, s) PROVE GuardrailsTypeOK' /\ BudgetInv'
  <2>1. <<d, s>> \in Requests
    BY DEF Requests, Deliveries
  <2>2. GuardrailsTypeOK'
    BY <1>2, <2>1, SendTypes DEF Send
  <2>3. stage[<<d, s>>] = "none" /\ stage' = [stage EXCEPT ![<<d, s>>] = "enter"]
        /\ UNCHANGED <<spent, admitted, bill, handled>>
    BY <1>2 DEF Send, Arrive, redisVars
  <2>4. BudgetInv'
    BY <2>1, <2>3, MoveKeepsBudget
  <2>5. QED BY <2>2, <2>4
<1>3. CASE /\ failures < MaxFailures /\ failures' = failures + 1
           /\ UNCHANGED <<stage, verdict, month, bill, admitted, handled, redisVars>>
  <2>1. failures' \in 0 .. MaxFailures
    BY <1>3, FailureCounts
  <2>2. QED BY <1>3, <2>1 DEF redisVars, GuardrailsTypeOK, BudgetInv, AdmittedWithinBudget,
                             PaidWhenPast, HandledArePast
<1>4. QED BY <1>1, <1>2, <1>3 DEF HandlerTouches

-----------------------------------------------------------------------------
(* The theorems. *)

LEMMA NextKeepsInv == Inv /\ IntakeNext => Inv'
<1> SUFFICES ASSUME Inv, IntakeNext PROVE Inv'
  OBVIOUS
<1>0. IntakeTypeOK /\ GuardrailsTypeOK /\ BridgeTypeOK /\ HandlersHaveUpdates /\ BudgetInv
  BY DEF Inv, IntakeTypeOK, BridgeTypeOK
<1>1. ASSUME NEW d \in Deliveries, Deliver(d) PROVE Inv'
  <2>1. BridgeTypeOK'
    BY <1>0, <1>1, SMT DEF Deliver, BridgeTypeOK, Waiting
  <2>2. GuardrailsTypeOK' /\ BudgetInv'
    BY <1>0, <1>1, HandlerKeepsGuardrails DEF Deliver, HandlerTouches
  <2>3. HandlersHaveUpdates'
    BY <1>0, <1>1, SMT DEF Deliver, BridgeTypeOK, HandlersHaveUpdates
  <2>4. QED BY <2>1, <2>2, <2>3 DEF Inv, IntakeTypeOK, BridgeTypeOK
<1>2. ASSUME NEW d \in Deliveries, HandlerStep(d) PROVE Inv'
  <2>1. update[d] \in Updates \/ at[d] # "dedup"
    BY <1>0 DEF HandlersHaveUpdates, Waiting
  <2>2. BridgeTypeOK' /\ HandlerTouches(d)
    BY <1>0, <1>2, <2>1, HandlerStepTypes
  <2>3. GuardrailsTypeOK' /\ BudgetInv'
    BY <1>0, <2>2, HandlerKeepsGuardrails
  <2>4. at[d] \in Waiting
    BY <1>2 DEF HandlerStep, Dedup, Resolve, Download, Transcribed, Asked, TimeOut, Command, Waiting
  <2>5. update' = update /\ \A e \in Deliveries : e # d => at'[e] = at[e]
    <3>1. (\E p \in Waiting : Goto(d, p)) \/ (\E t \in {"none", "answer", "error"} : Ends(d, t))
      BY <1>2 DEF HandlerStep, Dedup, Resolve, Download, Transcribed, Asked, TimeOut, Command,
                  Waiting
    <3>2. QED BY <1>0, <3>1 DEF Goto, Ends, BridgeTypeOK
  <2>6. HandlersHaveUpdates'
    BY <1>0, <2>4, <2>5 DEF HandlersHaveUpdates
  <2>7. QED BY <2>2, <2>3, <2>6 DEF Inv, IntakeTypeOK, BridgeTypeOK
<1>3. CASE BridgeRestart
  <2>1. BridgeTypeOK'
    BY <1>0, <1>3, SMT DEF BridgeRestart, BridgeTypeOK
  <2>2. failures' \in 0 .. MaxFailures
    BY <1>0, <1>3, FailureCounts DEF BridgeRestart
  <2>3. GuardrailsTypeOK' /\ BudgetInv'
    BY <1>0, <1>3, <2>2 DEF BridgeRestart, redisVars, GuardrailsTypeOK, BudgetInv,
       AdmittedWithinBudget, PaidWhenPast, HandledArePast
  <2>4. HandlersHaveUpdates'
    <3>1. \A e \in Deliveries : at'[e] \in Waiting => at[e] \in Waiting /\ update'[e] = update[e]
      BY <1>3, SMT DEF BridgeRestart, Waiting
    <3>2. QED BY <1>0, <3>1 DEF HandlersHaveUpdates
  <2>5. QED BY <2>1, <2>3, <2>4 DEF Inv, IntakeTypeOK, BridgeTypeOK
<1>4. CASE GuardNext /\ UNCHANGED bridgeVars
  <2>1. GuardrailsTypeOK' /\ BudgetInv'
    BY <1>0, <1>4, GuardStepTypes, EnvironmentTypes, GuardStepKeepsBudget,
       EnvironmentKeepsBudget DEF GuardNext
  <2>2. BridgeTypeOK' /\ HandlersHaveUpdates'
    BY <1>0, <1>4 DEF bridgeVars, BridgeTypeOK, HandlersHaveUpdates
  <2>3. QED BY <2>1, <2>2 DEF Inv, IntakeTypeOK, BridgeTypeOK
<1>5. QED BY <1>1, <1>2, <1>3, <1>4 DEF IntakeNext

\* The invariant holds in every state, whatever is fair.
THEOREM Invariant == IntakeSpec => []Inv
<1>1. IntakeInit => Inv
  <2>1. SUFFICES ASSUME IntakeInit PROVE Inv
    OBVIOUS
  <2>2. GuardrailsTypeOK
    BY <2>1, GuardrailsAssumption, SMT DEF IntakeInit, GuardrailsInit, GuardrailsTypeOK, Months, Stages
  <2>3. IntakeTypeOK
    BY <2>1, <2>2, SMT DEF IntakeInit, IntakeTypeOK
  <2>4. HandlersHaveUpdates
    BY <2>1 DEF IntakeInit, HandlersHaveUpdates, Waiting
  <2>5. BudgetInv
    BY <2>1, GuardrailsAssumption, SMT DEF IntakeInit, GuardrailsInit, BudgetInv,
       AdmittedWithinBudget, PaidWhenPast, HandledArePast
  <2>6. QED BY <2>3, <2>4, <2>5 DEF Inv
<1>2. Inv /\ UNCHANGED vars => Inv'
  BY DEF vars, bridgeVars, guardVars, redisVars, Inv, IntakeTypeOK, GuardrailsTypeOK,
         HandlersHaveUpdates, BudgetInv, AdmittedWithinBudget, PaidWhenPast, HandledArePast
<1>3. QED BY <1>1, <1>2, NextKeepsInv, PTL DEF IntakeSpec

\* Requests, Redis and the handlers of telegram-bridge have their types.
THEOREM TypeCorrect == IntakeSpec => []IntakeTypeOK
<1>1. Inv => IntakeTypeOK
  BY DEF Inv
<1>2. QED BY <1>1, Invariant, PTL

\* The requests that guardrailMiddleware lets through in a month stay within the
\* budget, for any number of requests, services, costs and months.
THEOREM BudgetHolds == IntakeSpec => []AdmittedWithinBudget
<1>1. Inv => AdmittedWithinBudget
  BY DEF Inv, BudgetInv
<1>2. QED BY <1>1, Invariant, PTL

-----------------------------------------------------------------------------
(* Updates are handed on once. The invariant says of a delivery that got past *)
(* deduplication, as long as it or a request of it shows, that its update is  *)
(* remembered or excused, and what its handler knows when it goes on.         *)

GuardHandled ==
    \A q \in Requests :
        /\ stage[q] \in {"handle", "retry", "release"} \/ verdict[q] = "ok" => q \in handled
        /\ verdict[q] = "refused" => stage[q] = "over" /\ q \notin handled

Fresh(d) == at[d] \in {"away", "dedup"}

Sent(d, s) == stage[<<d, s>>] # "none"

FreshInv ==
    \A d \in Deliveries : Fresh(d) => reply[d] = "none" /\ \A s \in Services : ~Sent(d, s)

Passed(d) == at[d] \in Waiting \ {"dedup"} \/ \E s \in Services : Sent(d, s)

DedupInv ==
    /\ \A d \in Deliveries : Passed(d) => update[d] \in seen \cup excused
    /\ \A d, e \in Deliveries :
          d # e /\ Passed(d) /\ Passed(e) /\ update[d] = update[e] => update[d] \in excused

KnownInv ==
    \A d \in Deliveries :
        /\ KindOf[update[d]] = "voice" /\ (at[d] = "ask" \/ Sent(d, "ai")) /\ ~Fresh(d) =>
              <<d, "voice">> \in handled
        /\ at[d] = "command" => KindOf[update[d]] = "command"
        /\ reply[d] = "answer" /\ KindOf[update[d]] # "command" => <<d, "ai">> \in handled

HandedInv == GuardHandled /\ FreshInv /\ DedupInv /\ KnownInv

LEMMA OneRequestMoves ==
    ASSUME GuardHandled, NEW q \in Requests,
           \A r \in Requests \ {q} : stage'[r] = stage[r] /\ verdict'[r] = verdict[r],
           stage[q] # "none", stage'[q] # "none", handled' \in {handled, handled \cup {q}},
           stage'[q] \in {"handle", "retry", "release"} \/ verdict'[q] = "ok" => q \in handled',
           verdict'[q] = "refused" => stage'[q] = "over" /\ q \notin handled'
    PROVE  /\ GuardHandled' /\ handled \subseteq handled'
           /\ \A r \in Requests : stage'[r] = "none" <=> stage[r] = "none"
BY DEF GuardHandled

\* The guardrails begin no request and forget none that was handled.
LEMMA GuardNextKeepsHandled ==
    ASSUME GuardrailsTypeOK, GuardHandled, HandledArePast, GuardNext
    PROVE  /\ GuardHandled' /\ handled \subseteq handled'
           /\ \A r \in Requests : stage'[r] = "none" <=> stage[r] = "none"
<1> DEFINE Kept == /\ GuardHandled' /\ handled \subseteq handled'
                   /\ \A r \in Requests : stage'[r] = "none" <=> stage[r] = "none"
           Moves(q, p, v) == /\ stage' = [stage EXCEPT ![q] = p]
                             /\ verdict' = [verdict EXCEPT ![q] = v]
<1>1. ASSUME NEW q \in Requests, NEW p, NEW v, Moves(q, p, v), stage[q] # "none", p # "none",
             handled' \in {handled, handled \cup {q}},
             p \in {"handle", "retry", "release"} \/ v = "ok" => q \in handled',
             v = "refused" => p = "over" /\ q \notin handled'
      PROVE  Kept
  <2>1. \A r \in Requests \ {q} : stage'[r] = stage[r] /\ verdict'[r] = verdict[r]
    BY <1>1 DEF GuardrailsTypeOK
  <2>2. stage'[q] = p /\ verdict'[q] = v
    BY <1>1 DEF GuardrailsTypeOK
  <2>3. QED BY <1>1, <2>1, <2>2, OneRequestMoves
<1>2. ASSUME NEW q \in Requests, NEW p, To(q, p) PROVE Moves(q, p, verdict[q])
  BY <1>2 DEF To, GuardrailsTypeOK
<1>3. ASSUME NEW q \in Requests, RedisFails(q) \/ Refused(q) PROVE Moves(q, "over", "refused")
  BY <1>3 DEF RedisFails, Refused, Answered
<1>4. ASSUME NEW q \in Requests, GuardStep(q) PROVE Kept
  <2>1. \/ stage[q] \notin {"handle", "retry", "release"} \/ verdict[q] # "ok"
        \/ q \in handled
    BY DEF GuardHandled
  <2>2. /\ verdict[q] = "ok" => q \in handled
        /\ verdict[q] = "refused" => stage[q] = "over"
    BY DEF GuardHandled
  <2>3. CASE Enter(q) \/ ReadBudget(q) \/ Charge(q) \/ CheckGate(q)
    <3>1. stage[q] \in {"enter", "budget", "charge", "gate"} /\ handled' = handled
      BY <2>3 DEF Enter, ReadBudget, Charge, CheckGate
    <3>2. \/ RedisFails(q) \/ Refused(q)
          \/ \E p \in {"budget", "charge", "gate", "acquire"} : To(q, p)
      BY <2>3 DEF Enter, ReadBudget, Charge, CheckGate
    <3>3. \/ Moves(q, "over", "refused")
          \/ \E p \in {"budget", "charge", "gate", "acquire"} : Moves(q, p, verdict[q])
      BY <1>2, <1>3, <3>2
    <3>4. q \notin handled
      BY <3>1, SMT DEF HandledArePast
    <3>5. QED BY <1>1, <2>2, <3>1, <3>3, <3>4
  <2>4. CASE Acquire(q)
    <3>1. stage[q] = "acquire" /\ q \notin handled
      BY <2>4, SMT DEF Acquire, HandledArePast
    <3>2. CASE To(q, "handle") /\ handled' = handled \cup {q}
      BY <1>1, <1>2, <2>2, <3>1, <3>2
    <3>3. CASE RedisFails(q) /\ UNCHANGED handled
      BY <1>1, <1>3, <3>1, <3>3
    <3>4. QED BY <2>4, <3>2, <3>3 DEF Acquire
  <2>5. CASE Handle(q)
    <3>1. stage[q] \in {"handle", "retry"} /\ q \in handled /\ handled' = handled
      BY <2>5 DEF Handle, GuardHandled
    <3>2. To(q, "retry") \/ \E v \in {"ok", "failed"} : Moves(q, "release", v)
      BY <2>5 DEF Handle
    <3>3. QED BY <1>1, <1>2, <2>2, <3>1, <3>2
  <2>6. CASE Release(q)
    <3>1. stage[q] = "release" /\ q \in handled /\ handled' = handled
      BY <2>6 DEF Release, GuardHandled
    <3>2. Moves(q, "over", verdict[q])
      BY <2>6 DEF Release, Answered
    <3>3. QED BY <1>1, <2>2, <3>1, <3>2
  <2>7. QED BY <1>4, <2>3, <2>4, <2>5, <2>6 DEF GuardStep
<1>5. ASSUME NEW s \in Services, Restart(s) PROVE Kept
  <2>1. \A r \in Requests :
            \/ stage'[r] = stage[r] /\ verdict'[r] = verdict[r]
            \/ stage'[r] = "over" /\ stage[r] # "none" /\ verdict'[r] = "failed"
    <3> DEFINE lost == {r \in Requests : r[2] = s /\ stage[r] \in Underway}
    <3>1. /\ stage' = [r \in Requests |-> IF r \in lost THEN "over" ELSE stage[r]]
          /\ verdict' = [r \in Requests |-> IF r \in lost THEN "failed" ELSE verdict[r]]
      BY <1>5 DEF Restart
    <3>2. \A r \in lost : stage[r] # "none"
      BY SMT DEF Underway
    <3> HIDE DEF lost
    <3>3. QED BY <3>1, <3>2, Zenon
  <2>2. handled' = handled
    BY <1>5 DEF Restart
  <2>3. QED BY <2>1, <2>2 DEF GuardHandled
<1>6. ASSUME NEW q \in Requests, SlotExpires(q) PROVE Kept
  BY <1>6 DEF SlotExpires, GuardHandled
<1>7. QED BY <1>4, <1>5, <1>6 DEF GuardNext, GuardEnvironment

\* What the guardrails do between two steps of the handlers of telegram-bridge.
LEMMA GuardNextKeepsHanded ==
    ASSUME GuardrailsTypeOK, HandledArePast, HandedInv, GuardNext, UNCHANGED bridgeVars
    PROVE  HandedInv'
<1>1. GuardHandled' /\ handled \subseteq handled'
  BY GuardNextKeepsHandled DEF HandedInv
<1>2. \A d \in Deliveries, s \in Services : Sent(d, s)' <=> Sent(d, s)
  BY GuardNextKeepsHandled DEF HandedInv, Sent, Requests, Deliveries
<1>3. at' = at /\ update' = update /\ reply' = reply /\ seen' = seen /\ excused' = excused
  BY DEF bridgeVars
<1>4. \A d \in Deliveries : (Passed(d)' <=> Passed(d)) /\ (Fresh(d)' <=> Fresh(d))
  BY <1>2, <1>3 DEF Passed, Fresh
<1>5. FreshInv'
  BY <1>2, <1>3, <1>4 DEF HandedInv, FreshInv
<1>6. DedupInv'
  BY <1>3, <1>4 DEF HandedInv, DedupInv
<1>7. KnownInv'
  BY <1>1, <1>2, <1>3, <1>4, IntakeAssumption DEF HandedInv, KnownInv
<1>8. QED BY <1>1, <1>5, <1>6, <1>7 DEF HandedInv

\* One handler of telegram-bridge moves, and may begin a request.
LEMMA OneHandlerMoves ==
    ASSUME GuardrailsTypeOK, BridgeTypeOK, HandedInv, NEW d \in Deliveries,
           update' = update, ~Fresh(d)', seen \subseteq seen', excused \subseteq excused',
           \A e \in Deliveries \ {d} : at'[e] = at[e] /\ reply'[e] = reply[e],
           verdict' = verdict, handled' = handled,
           \/ stage' = stage
           \/ \E s \in Services : Send(d, s) /\ (s = "ai" => at'[d] = "ask") /\ Passed(d),
           \* What the handler has to show for its move.
           Passed(d)' => Passed(d) \/ (update[d] \in seen' \cup excused'
                              /\ \A e \in Deliveries \ {d} :
                                    Passed(e) /\ update[e] = update[d] => update[d] \in excused'),
           KindOf[update[d]] = "voice" /\ at'[d] = "ask" => <<d, "voice">> \in handled,
           at'[d] = "command" => KindOf[update[d]] = "command",
           reply'[d] = "answer" /\ KindOf[update[d]] # "command" =>
               reply[d] = "answer" \/ <<d, "ai">> \in handled
    PROVE  HandedInv'
<1>1. \A e \in Deliveries \ {d}, s \in Services : Sent(e, s)' <=> Sent(e, s)
  BY DEF Send, Arrive, Sent, GuardrailsTypeOK, Requests, Deliveries
<1>2. \A e \in Deliveries \ {d} : (Passed(e)' <=> Passed(e)) /\ (Fresh(e)' <=> Fresh(e))
  BY <1>1 DEF Passed, Fresh
<1>3. GuardHandled'
  <2>1. CASE stage' = stage
    BY <2>1 DEF HandedInv, GuardHandled
  <2>2. ASSUME NEW s \in Services, Send(d, s) PROVE GuardHandled'
    <3>1. \A q \in Requests :
              stage'[q] = stage[q] \/ (stage[q] = "none" /\ stage'[q] = "enter")
      BY <2>2, SMT DEF Send, Arrive
    <3>2. QED BY <3>1 DEF HandedInv, GuardHandled
  <2>3. QED BY <2>1, <2>2
<1>4. FreshInv'
  BY <1>1, <1>2 DEF HandedInv, FreshInv
<1>5. DedupInv'
  <2>1. ASSUME NEW e \in Deliveries, Passed(e)' PROVE update'[e] \in seen' \cup excused'
    BY <1>2, <2>1 DEF HandedInv, DedupInv
  <2>2. ASSUME NEW e \in Deliveries, NEW f \in Deliveries, e # f, Passed(e)', Passed(f)',
               update'[e] = update'[f]
        PROVE  update'[e] \in excused'
    BY <1>2, <2>2 DEF HandedInv, DedupInv
  <2>3. QED BY <2>1, <2>2 DEF DedupInv
<1>6. KnownInv'
  <2>1. ASSUME NEW e \in Deliveries \ {d} PROVE KnownInv!(e)'
    BY <1>1, <1>2, IntakeAssumption DEF HandedInv, KnownInv
  <2>2. Sent(d, "ai")' => Sent(d, "ai") \/ at'[d] = "ask"
    <3>1. <<d, "ai">> \in Requests
      BY IntakeAssumption DEF Requests, Deliveries
    <3>2. ASSUME NEW s \in Services, Send(d, s), s # "ai" PROVE stage'[<<d, "ai">>] = stage[<<d, "ai">>]
      BY <3>1, <3>2 DEF Send, Arrive, GuardrailsTypeOK
    <3>3. QED BY <3>2 DEF Sent
  <2>3. Sent(d, "ai") => ~Fresh(d)
    BY IntakeAssumption DEF HandedInv, FreshInv
  <2>4. KnownInv!(d)'
    BY <2>2, <2>3 DEF HandedInv, KnownInv
  <2>5. QED BY <2>1, <2>4 DEF KnownInv
<1>7. QED BY <1>3, <1>4, <1>5, <1>6 DEF HandedInv

LEMMA GotoMoves ==
    ASSUME BridgeTypeOK, NEW d \in Deliveries, NEW p, Goto(d, p)
    PROVE  /\ update' = update /\ at'[d] = p /\ reply'[d] = reply[d]
           /\ \A e \in Deliveries \ {d} : at'[e] = at[e] /\ reply'[e] = reply[e]
BY DEF Goto, BridgeTypeOK

LEMMA EndsMoves ==
    ASSUME BridgeTypeOK, NEW d \in Deliveries, NEW t, Ends(d, t)
    PROVE  /\ update' = update /\ at'[d] = "done" /\ reply'[d] \in {t, "error"}
           /\ \A e \in Deliveries \ {d} : at'[e] = at[e] /\ reply'[e] = reply[e]
BY DEF Ends, BridgeTypeOK

LEMMA HandlerStepKeepsHanded ==
    ASSUME GuardrailsTypeOK, BridgeTypeOK, HandedInv, NEW d \in Deliveries, HandlerStep(d),
           update[d] \in Updates \/ at[d] # "dedup"
    PROVE  HandedInv'
<1>0. {"ai", "voice"} \subseteq Services /\ <<d, "ai">> \in Requests /\ <<d, "voice">> \in Requests
  BY IntakeAssumption DEF Requests, Deliveries
<1>1. CASE Dedup(d)
  <2>1. update[d] \in Updates /\ UNCHANGED <<stage, verdict, handled>>
    BY <1>1 DEF Dedup
  <2>2. seen \subseteq seen' /\ excused \subseteq excused'
    BY <1>1 DEF Dedup
  <2>3. CASE Ends(d, "none")
    <3>1. ~Passed(d)'
      BY <1>1, <2>1, <2>3, EndsMoves DEF HandedInv, FreshInv, Fresh, Passed, Sent, Dedup, Waiting
    <3>2. /\ update' = update /\ at'[d] = "done" /\ reply'[d] # "answer" /\ ~Fresh(d)'
          /\ \A e \in Deliveries \ {d} : at'[e] = at[e] /\ reply'[e] = reply[e]
      BY <2>3, EndsMoves DEF Fresh
    <3>3. QED BY <2>1, <2>2, <3>1, <3>2, OneHandlerMoves
  <2>4. CASE Goto(d, "resolve") /\ seen' = seen \cup {update[d]}
             /\ excused' = IF update[d] \in seen THEN excused \cup {update[d]} ELSE excused
    <3>1. \A e \in Deliveries \ {d} :
              Passed(e) /\ update[e] = update[d] => update[d] \in excused'
      BY <2>4 DEF HandedInv, DedupInv
    <3>2. update[d] \in seen'
      BY <2>4
    <3>3. /\ update' = update /\ at'[d] = "resolve" /\ reply'[d] = reply[d] /\ ~Fresh(d)'
          /\ \A e \in Deliveries \ {d} : at'[e] = at[e] /\ reply'[e] = reply[e]
      BY <2>4, GotoMoves DEF Fresh
    <3>4. QED BY <2>1, <2>2, <3>1, <3>2, <3>3, OneHandlerMoves
  <2>5. CASE Goto(d, "resolve") /\ excused' = excused \cup {update[d]}
    BY <2>1, <2>2, <2>5, <1>1, GotoMoves, OneHandlerMoves DEF Fresh
  <2>6. QED BY <1>1, <2>3, <2>4, <2>5 DEF Dedup
<1>2. CASE Resolve(d) \/ Download(d) \/ Transcribed(d) \/ Asked(d) \/ TimeOut(d) \/ Command(d)
  <2>1. at[d] \in Waiting \ {"dedup"}
    BY <1>2 DEF Resolve, Download, Transcribed, Asked, TimeOut, Command, Waiting
  <2>2. Passed(d)
    BY <2>1 DEF Passed
  <2>3. seen' = seen /\ excused' = excused /\ verdict' = verdict /\ handled' = handled
    BY <1>2 DEF Resolve, Download, Transcribed, Asked, TimeOut, Command, Send, guardVars
  <2>4. ASSUME NEW t \in {"none", "error"}, Ends(d, t), UNCHANGED guardVars PROVE HandedInv'
    BY <2>2, <2>3, <2>4, EndsMoves, OneHandlerMoves DEF Fresh, guardVars
  <2>5. ASSUME Ends(d, "answer"), UNCHANGED guardVars,
               KindOf[update[d]] = "command" \/ <<d, "ai">> \in handled
        PROVE  HandedInv'
    BY <2>2, <2>3, <2>5, EndsMoves, OneHandlerMoves DEF Fresh, guardVars
  <2>6. CASE Resolve(d)
    <3>1. CASE KindOf[update[d]] = "text" /\ Goto(d, "ask") /\ Send(d, "ai")
      BY <1>0, <2>2, <2>3, <3>1, GotoMoves, OneHandlerMoves DEF Fresh
    <3>2. ASSUME NEW p \in {"download", "command"}, Goto(d, p), UNCHANGED guardVars,
                 p = "command" => KindOf[update[d]] = "command"
          PROVE  HandedInv'
      BY <2>2, <2>3, <3>2, GotoMoves, OneHandlerMoves DEF Fresh, guardVars
    <3>3. QED BY <2>4, <2>6, <3>1, <3>2 DEF Resolve
  <2>7. CASE Download(d)
    <3>1. CASE Goto(d, "transcribe") /\ Send(d, "voice")
      BY <1>0, <2>2, <2>3, <3>1, GotoMoves, OneHandlerMoves DEF Fresh
    <3>2. QED BY <2>4, <2>7, <3>1 DEF Download
  <2>8. CASE Transcribed(d)
    <3>1. CASE verdict[<<d, "voice">>] = "ok" /\ Goto(d, "ask") /\ Send(d, "ai")
      <4>1. <<d, "voice">> \in handled
        BY <1>0, <3>1 DEF HandedInv, GuardHandled
      <4>2. QED BY <1>0, <2>2, <2>3, <3>1, <4>1, GotoMoves, OneHandlerMoves DEF Fresh
    <3>2. QED BY <2>4, <2>8, <3>1 DEF Transcribed
  <2>9. CASE Asked(d)
    <3>1. verdict[<<d, "ai">>] = "ok" => <<d, "ai">> \in handled
      BY <1>0 DEF HandedInv, GuardHandled
    <3>2. QED BY <2>4, <2>5, <2>9, <3>1 DEF Asked
  <2>10. CASE TimeOut(d)
    BY <2>4, <2>10 DEF TimeOut
  <2>11. CASE Command(d)
    BY <2>4, <2>5, <2>11 DEF Command, HandedInv, KnownInv
  <2>12. QED BY <1>2, <2>6, <2>7, <2>8, <2>9, <2>10, <2>11
<1>3. QED BY <1>1, <1>2 DEF HandlerStep

LEMMA NextKeepsHanded == Inv /\ HandedInv /\ IntakeNext => HandedInv'
<1> SUFFICES ASSUME Inv, HandedInv, IntakeNext PROVE HandedInv'
  OBVIOUS
<1>0. GuardrailsTypeOK /\ BridgeTypeOK /\ HandlersHaveUpdates
  BY DEF Inv, IntakeTypeOK, BridgeTypeOK
<1>1. ASSUME NEW d \in Deliveries, Deliver(d) PROVE HandedInv'
  <2>1. /\ at' = [at EXCEPT ![d] = "dedup"] /\ at[d] = "away"
        /\ \A e \in Deliveries \ {d} : update'[e] = update[e]
        /\ UNCHANGED <<seen, excused, reply, stage, verdict, handled>>
    BY <1>0, <1>1 DEF Deliver, BridgeTypeOK, guardVars
  <2>2. \A e \in Deliveries \ {d} : at'[e] = at[e]
    BY <1>0, <2>1 DEF BridgeTypeOK
  <2>3. at'[d] = "dedup" /\ Fresh(d) /\ Fresh(d)'
    BY <1>0, <2>1 DEF BridgeTypeOK, Fresh
  <2>4. /\ reply[d] = "none" /\ \A s \in Services : ~Sent(d, s)
        /\ ~Passed(d)'
    BY <2>1, <2>3 DEF HandedInv, FreshInv, Passed, Sent
  <2>5. GuardHandled'
    BY <2>1 DEF HandedInv, GuardHandled
  <2>6. FreshInv'
    BY <2>1, <2>2, <2>4 DEF HandedInv, FreshInv, Fresh, Sent
  <2>7. DedupInv'
    BY <2>1, <2>2, <2>4 DEF HandedInv, DedupInv, Passed, Sent
  <2>8. KnownInv'
    BY <2>1, <2>2, <2>3, <2>4 DEF HandedInv, KnownInv, Fresh, Sent
  <2>9. QED BY <2>5, <2>6, <2>7, <2>8 DEF HandedInv
<1>2. ASSUME NEW d \in Deliveries, HandlerStep(d) PROVE HandedInv'
  BY <1>0, <1>2, HandlerStepKeepsHanded DEF HandlersHaveUpdates, Waiting
<1>3. CASE BridgeRestart
  <2>1. UNCHANGED <<update, seen, excused, reply, stage, verdict, handled>>
    BY <1>3 DEF BridgeRestart
  <2>2. \A d \in Deliveries : at'[d] = IF at[d] \in Waiting THEN "done" ELSE at[d]
    BY <1>3 DEF BridgeRestart
  <2>3. \A d \in Deliveries :
            /\ Fresh(d)' => Fresh(d)
            /\ Passed(d)' => Passed(d)
            /\ at'[d] \in {"ask", "command"} => at[d] = at'[d]
    BY <2>1, <2>2 DEF Fresh, Passed, Sent, Waiting
  <2>4. GuardHandled' /\ FreshInv'
    BY <2>1, <2>3 DEF HandedInv, GuardHandled, FreshInv, Sent
  <2>5. DedupInv'
    BY <2>1, <2>3 DEF HandedInv, DedupInv
  <2>6. \A d \in Deliveries : at[d] = "ask" \/ Sent(d, "ai")' => ~Fresh(d)
    BY <2>1, IntakeAssumption DEF HandedInv, FreshInv, Fresh, Sent
  <2>7. KnownInv'
    BY <2>1, <2>3, <2>6 DEF HandedInv, KnownInv, Sent
  <2>8. QED BY <2>4, <2>5, <2>7 DEF HandedInv
<1>4. CASE GuardNext /\ UNCHANGED bridgeVars
  BY <1>0, <1>4, GuardNextKeepsHanded DEF Inv, BudgetInv
<1>5. QED BY <1>1, <1>2, <1>3, <1>4 DEF IntakeNext

\* An update that Telegram delivers more than once is handed to the agent once while
\* its key lives, for any number of deliveries, restarts and failures of Redis; a
\* voice message only after its transcription was admitted; and no answer is shown
\* that the agent did not give. What is refused was not handled.
THEOREM HandledOnceHolds == IntakeSpec => []HandledOnce
<1>1. IntakeInit => HandedInv
  <2> SUFFICES ASSUME IntakeInit PROVE HandedInv
    OBVIOUS
  <2>1. /\ \A q \in Requests : stage[q] = "none" /\ verdict[q] = "none"
        /\ \A d \in Deliveries : at[d] = "away" /\ reply[d] = "none"
    BY DEF IntakeInit, GuardrailsInit
  <2>2. \A d \in Deliveries : (\A s \in Services : ~Sent(d, s)) /\ ~Passed(d)
    <3>1. \A d \in Deliveries, s \in Services : ~Sent(d, s)
      BY <2>1 DEF Sent, Requests, Deliveries
    <3>2. "away" \notin Waiting
      BY DEF Waiting
    <3>3. QED BY <2>1, <3>1, <3>2 DEF Passed
  <2>3. \A d \in Deliveries : Fresh(d)
    BY <2>1 DEF Fresh
  <2>4. QED BY <2>1, <2>2, <2>3 DEF HandedInv, GuardHandled, FreshInv, DedupInv, KnownInv
<1>2. HandedInv /\ UNCHANGED vars => HandedInv'
  <2> SUFFICES ASSUME HandedInv, UNCHANGED vars PROVE HandedInv'
    OBVIOUS
  <2>1. GuardHandled'
    BY DEF vars, guardVars, HandedInv, GuardHandled
  <2>2. FreshInv' /\ DedupInv' /\ KnownInv'
    BY DEF vars, bridgeVars, guardVars, HandedInv, FreshInv, DedupInv, KnownInv, Fresh, Sent, Passed
  <2>3. QED BY <2>1, <2>2 DEF HandedInv
<1>3. Inv /\ HandedInv => HandledOnce
  <2> SUFFICES ASSUME Inv, HandedInv PROVE HandledOnce
    OBVIOUS
  <2>1. \A d \in Deliveries : <<d, "ai">> \in handled => Sent(d, "ai")
    BY SMT DEF Inv, BudgetInv, HandledArePast, Sent
  <2>2. \A d \in Deliveries : Sent(d, "ai") => Passed(d) /\ ~Fresh(d)
    BY IntakeAssumption DEF HandedInv, FreshInv, Passed
  <2>3. QED BY <2>1, <2>2 DEF HandledOnce, HandedInv, GuardHandled, DedupInv, KnownInv
<1>4. QED BY <1>1, <1>2, <1>3, Invariant, NextKeepsHanded, PTL DEF IntakeSpec
=============================================================================
