------------------------------- MODULE Delivery -------------------------------
(***************************************************************************)
(* POST /internal/deliver (delivery) and the connector call below it, POST *)
(* /internal/send (telegram-bridge): one text intent is audited, rendered  *)
(* as Markdown and, when that fails, as plain text, and audited again.     *)
(*                                                                         *)
(* The two handlers run in different processes: delivery stops waiting     *)
(* after its HTTP timeout, the connector goes on.                          *)
(***************************************************************************)
EXTENDS Integers

CONSTANTS Intents   \* OutboundMessageIntents, one POST each

VARIABLES
    at,         \* where delivery's handler is, or how it answered
    audit,      \* the intent's row of delivery_audits
    connector,  \* where telegram-bridge is with it
    shown       \* messages Telegram has put into the chat for it

deliveryVars == <<at, audit, connector, shown>>

-----------------------------------------------------------------------------
Working   == {"audit", "send", "record_delivered", "record_failed"}
Answered  == {"200", "400", "502", "503"}
Audit     == {"none", "pending", "delivered", "failed"}
Rendering == {"markdown", "plain"}

DeliveryTypeOK ==
    /\ at \in [Intents -> {"idle", "lost"} \cup Working \cup Answered]
    /\ audit \in [Intents -> Audit]
    /\ connector \in [Intents -> {"idle", "answered"} \cup Rendering]
    /\ shown \in [Intents -> Nat]

DeliveryInit ==
    /\ at = [i \in Intents |-> "idle"]
    /\ audit = [i \in Intents |-> "none"]
    /\ connector = [i \in Intents |-> "idle"]
    /\ shown = [i \in Intents |-> 0]

-----------------------------------------------------------------------------
\* delivery

HandlerAt(i, from, to) ==
    /\ at[i] = from
    /\ at' = [at EXCEPT ![i] = to]

\* The body is parsed and its connector looked up; a digest may be refused.
Accept(i) ==
    /\ HandlerAt(i, "idle", "audit") \/ HandlerAt(i, "idle", "400")
    /\ UNCHANGED <<audit, connector, shown>>

\* No message without an audit row: 503 when it cannot be written.
InsertAudit(i) ==
    \/ /\ HandlerAt(i, "audit", "send")
       /\ audit' = [audit EXCEPT ![i] = "pending"]
       /\ connector' = [connector EXCEPT ![i] = "markdown"]
       /\ UNCHANGED shown
    \/ /\ HandlerAt(i, "audit", "503")
       /\ UNCHANGED <<audit, connector, shown>>

\* fetch resolves whatever the connector's status is; it throws on a timeout or
\* a broken connection.
SendReturns(i) ==
    /\ \/ connector[i] = "answered" /\ HandlerAt(i, "send", "record_delivered")
       \/ HandlerAt(i, "send", "record_failed")
    /\ UNCHANGED <<audit, connector, shown>>

\* UPDATE ... WHERE id = auditId: a row that was purged meanwhile stays away.
SetAudit(i, s) ==
    audit' = IF audit[i] = "none" THEN audit ELSE [audit EXCEPT ![i] = s]

\* A failure of this UPDATE is treated as a failure of the delivery.
RecordDelivered(i) ==
    /\ \/ HandlerAt(i, "record_delivered", "200") /\ SetAudit(i, "delivered")
       \/ HandlerAt(i, "record_delivered", "record_failed") /\ UNCHANGED audit
    /\ UNCHANGED <<connector, shown>>

RecordFailed(i) ==
    /\ HandlerAt(i, "record_failed", "502")
    /\ SetAudit(i, "failed") \/ UNCHANGED audit
    /\ UNCHANGED <<connector, shown>>

\* The process dies under the handler: no answer and no further statement.
HandlerLost(i) ==
    /\ at[i] \in Working
    /\ at' = [at EXCEPT ![i] = "lost"]
    /\ UNCHANGED <<audit, connector, shown>>

-----------------------------------------------------------------------------
\* telegram-bridge: renderOutbound

Renders(i, from, to, n) ==
    /\ connector[i] = from
    /\ connector' = [connector EXCEPT ![i] = to]
    /\ shown' = [shown EXCEPT ![i] = @ + n]

\* Faulty variant: a failed rendering starts again with Markdown.
RenderRepeated(i) ==
    /\ \/ \E from \in Rendering : Renders(i, from, "answered", 1)
       \/ \E n \in {0, 1}, from \in Rendering : Renders(i, from, "markdown", n)
    /\ UNCHANGED <<at, audit>>

\* sendMessage fails when Telegram refuses the message, but also when only its
\* answer is lost; the Markdown attempt is then followed by a plain one.
Render(i) ==
    /\ \/ \E from \in Rendering : Renders(i, from, "answered", 1)
       \/ \E n \in {0, 1} :
             Renders(i, "markdown", "plain", n) \/ Renders(i, "plain", "answered", n)
    /\ UNCHANGED <<at, audit>>

-----------------------------------------------------------------------------
\* DELETE /internal/users/:userId/data, with deliveries possibly in flight.
PurgeAudits ==
    /\ audit' = [i \in Intents |-> "none"]
    /\ UNCHANGED <<at, connector, shown>>

DeliveryStep(i) ==
    InsertAudit(i) \/ SendReturns(i) \/ RecordDelivered(i) \/ RecordFailed(i)

=============================================================================
