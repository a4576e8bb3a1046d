------------------------------ MODULE Guardrails ------------------------------
(***************************************************************************)
(* packages/guardrails in front of the two services that spend the shared  *)
(* OpenAI key: kill switch, rate limit, budget and concurrency gate, one   *)
(* Redis call after the other, then the handler, then the release of the   *)
(* slot. All requests are of one user; the budget is everybody's.          *)
(*                                                                         *)
(* A request goes on when its caller has stopped waiting. A call of Redis  *)
(* that fails may have been carried out. Restarts and failed calls are     *)
(* bounded together by MaxFailures. What the operator and the clock do     *)
(* between two requests shows when a request looks: the kill switch is on  *)
(* or off, entries of the rate limit have left its window, a month is over.*)
(***************************************************************************)
EXTENDS Integers, FiniteSets

CONSTANTS
    Callers,          \* who sends requests, one to each service
    Services,         \* "ai" and "voice", each with keys of its own
    Cost,             \* cost of a request of a service, in whole cents
    BudgetLimit,      \* of a month, in cents
    MaxConcurrency,
    RateLimit,
    MaxMonths,
    MaxFailures

ASSUME GuardrailsAssumption ==
    /\ Cost \in [Services -> Nat] /\ BudgetLimit \in Nat
    /\ MaxConcurrency \in Nat \ {0} /\ RateLimit \in Nat \ {0}
    /\ MaxMonths \in Nat \ {0} /\ MaxFailures \in Nat

VARIABLES
    stage,       \* where a request is
    verdict,     \* its answer
    month,
    spent,       \* guardrail:budget, by month
    bill,        \* the month a request is charged to
    recent,      \* guardrail:rate
    slots,       \* guardrail:concurrency
    admitted,    \* cents of the requests that passed the budget check, by month
    handled,     \* requests that reached their handler
    failures

redisVars == <<spent, recent, slots>>
guardVars == <<stage, verdict, month, bill, admitted, handled, failures, redisVars>>

Requests == Callers \X Services
Months   == 1 .. MaxMonths

Underway == {"enter", "budget", "charge", "gate", "acquire", "handle", "retry", "release"}
Stages   == {"none", "over"} \cup Underway

\* The members of a set in Redis under the key of the service of q.
Same(q, set) == {r \in set : r[2] = q[2]}

GuardrailsTypeOK ==
    /\ stage \in [Requests -> Stages]
    /\ verdict \in [Requests -> {"none", "ok", "failed", "refused"}]
    /\ month \in Months
    /\ spent \in [Months -> Nat] /\ admitted \in [Months -> Nat]
    /\ bill \in [Requests -> Months]
    /\ recent \subseteq Requests /\ slots \subseteq Requests /\ handled \subseteq Requests
    /\ failures \in 0 .. MaxFailures

GuardrailsInit ==
    /\ stage = [q \in Requests |-> "none"]
    /\ verdict = [q \in Requests |-> "none"]
    /\ month = 1
    /\ spent = [m \in Months |-> 0] /\ admitted = [m \in Months |-> 0]
    /\ bill = [q \in Requests |-> 1]
    /\ recent = {} /\ slots = {} /\ handled = {}
    /\ failures = 0

-----------------------------------------------------------------------------
To(q, p) == stage' = [stage EXCEPT ![q] = p] /\ UNCHANGED verdict

Answered(q, v) ==
    /\ stage' = [stage EXCEPT ![q] = "over"]
    /\ verdict' = [verdict EXCEPT ![q] = v]

\* Faulty variant: the status for a verdict.
RefusedWithStatus(q) == Answered(q, "503")

Refused(q) == Answered(q, "refused")

\* Some call of Redis fails before the handler: 503, whatever Redis did.
RedisFails(q) ==
    /\ failures < MaxFailures /\ failures' = failures + 1
    /\ Refused(q)

Arrive(q) ==
    /\ stage[q] = "none"
    /\ stage' = [stage EXCEPT ![q] = "enter"]

\* The kill switch, and the rate limit, which drops what has left the window and
\* counts the request before it looks; nothing between the two makes a difference.
Enter(q) ==
    /\ stage[q] = "enter"
    /\ \/ Refused(q) /\ UNCHANGED <<recent, failures>>
       \/ \E left \in SUBSET Same(q, recent) :
             /\ recent' = (recent \ left) \cup {q}
             /\ \/ /\ UNCHANGED failures
                   /\ IF Cardinality(Same(q, recent')) > RateLimit
                      THEN Refused(q)
                      ELSE To(q, "budget")
                \/ RedisFails(q)
    /\ UNCHANGED <<spent, slots, month, bill, admitted, handled>>

\* recordAndCheckBudget reads before it adds.
ReadBudget(q) ==
    /\ stage[q] = "budget"
    /\ month' \in {m \in Months : m >= month}
    /\ bill' = [bill EXCEPT ![q] = month']
    /\ \/ /\ UNCHANGED failures
          /\ IF spent[month'] >= BudgetLimit THEN Refused(q) ELSE To(q, "charge")
       \/ RedisFails(q)
    /\ UNCHANGED <<redisVars, admitted, handled>>

\* Faulty variant: the first look at the budget is the only one.
ChargeUnchecked(q) ==
    /\ stage[q] = "charge"
    /\ spent' = [spent EXCEPT ![bill[q]] = @ + Cost[q[2]]]
    /\ \/ /\ UNCHANGED failures
          /\ To(q, "gate")
          /\ admitted' = [admitted EXCEPT ![bill[q]] = @ + Cost[q[2]]]
       \/ RedisFails(q) /\ UNCHANGED admitted
    /\ UNCHANGED <<recent, slots, month, bill, handled>>

\* The budget is charged, and stays charged, whether or not the request passes.
Charge(q) ==
    /\ stage[q] = "charge"
    /\ \/ /\ spent' = [spent EXCEPT ![bill[q]] = @ + Cost[q[2]]]
          /\ UNCHANGED failures
          /\ IF spent'[bill[q]] <= BudgetLimit
             THEN /\ To(q, "gate")
                  /\ admitted' = [admitted EXCEPT ![bill[q]] = @ + Cost[q[2]]]
             ELSE Refused(q) /\ UNCHANGED admitted
       \/ /\ RedisFails(q)
          /\ UNCHANGED admitted
          /\ \/ UNCHANGED spent
             \/ spent' = [spent EXCEPT ![bill[q]] = @ + Cost[q[2]]]
    /\ UNCHANGED <<recent, slots, month, bill, handled>>

\* acquireConcurrency counts the slots in one call and adds its own in another.
CheckGate(q) ==
    /\ stage[q] = "gate"
    /\ \/ /\ UNCHANGED failures
          /\ IF Cardinality(Same(q, slots)) >= MaxConcurrency THEN Refused(q) ELSE To(q, "acquire")
       \/ RedisFails(q)
    /\ UNCHANGED <<redisVars, month, bill, admitted, handled>>

Acquire(q) ==
    /\ stage[q] = "acquire"
    /\ \/ /\ slots' = slots \cup {q}
          /\ handled' = handled \cup {q}
          /\ To(q, "handle") /\ UNCHANGED failures
       \/ /\ RedisFails(q) /\ UNCHANGED handled
          /\ slots' \in {slots, slots \cup {q}}
    /\ UNCHANGED <<recent, spent, month, bill, admitted>>

\* The handler: the agent loop, or a transcription, which calls Whisper again
\* after an error of its server.
Handle(q) ==
    /\ stage[q] \in {"handle", "retry"}
    /\ \/ \E v \in {"ok", "failed"} :
             /\ stage' = [stage EXCEPT ![q] = "release"]
             /\ verdict' = [verdict EXCEPT ![q] = v]
       \/ q[2] = "voice" /\ stage[q] = "handle" /\ To(q, "retry")
    /\ UNCHANGED <<redisVars, month, bill, admitted, handled, failures>>

\* In finally; when Redis fails the 503 comes too late, the handler has answered.
Release(q) ==
    /\ stage[q] = "release"
    /\ Answered(q, verdict[q])
    /\ \/ slots' = slots \ {q} /\ UNCHANGED failures
       \/ /\ failures < MaxFailures /\ failures' = failures + 1
          /\ slots' \in {slots, slots \ {q}}
    /\ UNCHANGED <<recent, spent, month, bill, admitted, handled>>

\* The service is restarted: its requests get no answer.
Restart(s) ==
    /\ failures < MaxFailures /\ failures' = failures + 1
    /\ LET lost == {q \in Requests : q[2] = s /\ stage[q] \in Underway}
       IN  /\ lost # {}
           /\ stage' = [q \in Requests |-> IF q \in lost THEN "over" ELSE stage[q]]
           /\ verdict' = [q \in Requests |-> IF q \in lost THEN "failed" ELSE verdict[q]]
    /\ UNCHANGED <<redisVars, month, bill, admitted, handled>>

\* Faulty variant: entries have no expiry.
SlotNeverExpires(q) == FALSE /\ UNCHANGED guardVars

\* 120 seconds after it was taken, even if its request is not over.
SlotExpires(q) ==
    /\ q \in slots /\ slots' = slots \ {q}
    /\ UNCHANGED <<recent, spent, stage, verdict, month, bill, admitted, handled, failures>>

GuardStep(q) ==
    \/ Enter(q) \/ ReadBudget(q) \/ Charge(q) \/ CheckGate(q) \/ Acquire(q)
    \/ Handle(q) \/ Release(q)

GuardEnvironment ==
    \/ \E s \in Services : Restart(s)
    \/ \E q \in Requests : SlotExpires(q)

-----------------------------------------------------------------------------
\* What the requests let through in a month cost together is within the budget,
\* although reading it and adding to it are two calls of Redis and many requests
\* are between them; only requests let through reach a handler.
AdmittedWithinBudget ==
    /\ \A m \in Months : admitted[m] <= BudgetLimit /\ admitted[m] <= spent[m]
    /\ \A q \in handled : Cost[q[2]] <= admitted[bill[q]]

=============================================================================
