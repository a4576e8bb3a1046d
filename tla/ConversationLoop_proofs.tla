------------------------ MODULE ConversationLoop_proofs ------------------------
(***************************************************************************)
(* Proofs about ConversationLoop for every number of commands, events and  *)
(* concurrent handlers.                                                    *)
(***************************************************************************)
EXTENDS ConversationLoop, TLAPS

-----------------------------------------------------------------------------
\* The inductive invariant

AppliedSet == {c \in Commands : Applied(c)}

\* Notes N are about commands of I, one per command, and those that tell of a
\* success are about commands of A.
WellFormed(N, I, A) ==
    /\ N \subseteq Note
    /\ \A n \in N : n[1] \in I
    /\ \A m, n \in N : m[1] = n[1] => m = n
    /\ \A n \in N : n[2] = "success" => n[1] \in A

Silent(N, c) == \A n \in N : n[1] # c

\* The pending command has no ending yet.
RowInv ==
    /\ WellFormed(notes, issued, AppliedSet)
    /\ pending # NoCommand => pending \in issued /\ Silent(notes, pending)

\* A handler that executes a command read it pending, and the user confirmed it.
HandlerInv ==
    /\ \A h \in Handlers : WellFormed(draft[h], issued, AppliedSet)
    /\ \A h \in Handlers : at[h] \in {"execute", "wait"} =>
          target[h] \in confirmed /\ Silent(draft[h], target[h])
    /\ \A h \in sent : at[h] # "idle" /\ target[h] \in confirmed

\* Every effect belongs to the record of its command.
LedgerInv ==
    /\ \A r \in opened : r[1] \in confirmed /\ record[r[1]] = r
    /\ \A r \in Request : effects[r] > 0 => r \in opened

IInv == TypeOK /\ RowInv /\ HandlerInv /\ LedgerInv

-----------------------------------------------------------------------------
\* Notes

LEMMA Weaken ==
    ASSUME NEW N, NEW M \in SUBSET N, NEW I, NEW J, I \subseteq J,
           NEW A, NEW B, A \subseteq B, WellFormed(N, I, A)
    PROVE  WellFormed(M, J, B)
BY DEF WellFormed

LEMMA Extend ==
    ASSUME NEW N, NEW I, NEW A, WellFormed(N, I, A), NEW c \in Commands, c \in I,
           Silent(N, c), NEW o \in Outcome, o = "success" => c \in A
    PROVE  WellFormed(N \cup {<<c, o>>}, I, A)
BY DEF WellFormed, Silent, Note

-----------------------------------------------------------------------------
\* Type correctness

LEMMA TypeInit == Init => TypeOK
BY ConversationAssumption DEF Init, Scheduler!Init, TypeOK, Request, Note

\* That requests name commands and not NoCommand rests on the whole invariant.
LEMMA TypeStep == ASSUME IInv, [Next]_vars PROVE TypeOK'
<1>a. TypeOK
  BY DEF IInv
<1>b. \A h \in Handlers : at[h] \in {"execute", "wait"} \/ h \in sent =>
         target[h] \in Commands /\ RequestOf(h) \in Request
  BY DEF IInv, HandlerInv, TypeOK, Request, RequestOf
<1>. USE <1>a, ConversationAssumption DEF TypeOK, Note, Outcome, Busy, rowVars, handlerVars,
         userVars, schedulerVars
<1>1. ASSUME NEW h \in Handlers, StartMessage(h) PROVE TypeOK'
  BY <1>1 DEF StartMessage, Begin
<1>2. ASSUME NEW h \in Handlers, NEW c \in Commands, RejectTap(h, c) PROVE TypeOK'
  BY <1>2 DEF RejectTap, Begin
<1>3. ASSUME NEW h \in Handlers, NEW c \in Commands, ExpiredTap(h, c) PROVE TypeOK'
  BY <1>3 DEF ExpiredTap, Begin
<1>4. ASSUME NEW h \in Handlers, NEW c \in Commands, StartConfirm(h, c) PROVE TypeOK'
  BY <1>4 DEF StartConfirm, Begin
<1>5. ASSUME NEW h \in Handlers, NEW c \in Commands, StartCancelOrEdit(h, c) PROVE TypeOK'
  BY <1>5 DEF StartCancelOrEdit, Begin
<1>6. ASSUME NEW h \in Handlers, NEW c \in Commands, Propose(h, c) PROVE TypeOK'
  BY <1>6 DEF Propose, Save
<1>7. ASSUME NEW h \in Handlers, Send(h) PROVE TypeOK'
  BY <1>7 DEF Send
<1>8. ASSUME NEW h \in Handlers, Executed(h) PROVE TypeOK'
  BY <1>8, <1>b DEF Executed, ToolResult, Scheduler!Tell
<1>9. ASSUME NEW h \in Handlers, NotExecuted(h) PROVE TypeOK'
  BY <1>9, <1>b DEF NotExecuted, ToolResult
<1>10. ASSUME NEW h \in Handlers, SchedulerOpens(h) PROVE TypeOK'
  BY <1>10, <1>b DEF SchedulerOpens, Scheduler!Open, Request
<1>11. ASSUME NEW h \in Handlers, SchedulerApplies(h) PROVE TypeOK'
  BY <1>11, <1>b DEF SchedulerApplies, Scheduler!Apply, Request
<1>12. ASSUME NEW h \in Handlers, Answer(h) PROVE TypeOK'
  BY <1>12 DEF Answer, Save
<1>13. ASSUME NEW h \in Handlers, Abort(h) PROVE TypeOK'
  BY <1>13 DEF Abort
<1>14. ASSUME Forget PROVE TypeOK'
  BY <1>14 DEF Forget
<1>15. ASSUME NEW c \in Commands, Expire(c) PROVE TypeOK'
  BY <1>15 DEF Expire
<1>16. ASSUME UNCHANGED vars PROVE TypeOK'
  BY <1>16 DEF vars
<1>. QED  BY <1>1, <1>2, <1>3, <1>4, <1>5, <1>6, <1>7, <1>8, <1>9, <1>10, <1>11, <1>12,
             <1>13, <1>14, <1>15, <1>16 DEF Next

-----------------------------------------------------------------------------
\* The invariant is inductive

LEMMA InvInit == Init => IInv
<1>. SUFFICES ASSUME Init PROVE IInv
  OBVIOUS
<1>1. TypeOK
  BY TypeInit
<1>2. RowInv /\ HandlerInv /\ LedgerInv
  BY ConversationAssumption
     DEF Init, Scheduler!Init, RowInv, HandlerInv, LedgerInv, WellFormed, Silent, Request
<1>. QED  BY <1>1, <1>2 DEF IInv

\* Ids, confirmations and effects are never taken back.
LEMMA Grow ==
    ASSUME IInv, [Next]_vars
    PROVE  issued \subseteq issued' /\ confirmed \subseteq confirmed' /\ AppliedSet \subseteq AppliedSet'
<1>. USE DEF rowVars, handlerVars, userVars, schedulerVars
<1>1. ASSUME NEW h \in Handlers, SchedulerApplies(h)
      PROVE  issued \subseteq issued' /\ confirmed \subseteq confirmed' /\ AppliedSet \subseteq AppliedSet'
  <2>1. /\ issued' = issued /\ confirmed' = confirmed
        /\ effects' = [effects EXCEPT ![RequestOf(h)] = @ + 1]
    BY <1>1 DEF SchedulerApplies, Scheduler!Apply
  <2>2. \A r \in Request : effects[r] > 0 => effects'[r] > 0
    BY <2>1 DEF IInv, TypeOK
  <2>. QED  BY <2>1, <2>2 DEF AppliedSet, Applied, Request
<1>2. ASSUME ~ \E h \in Handlers : SchedulerApplies(h)
      PROVE  issued \subseteq issued' /\ confirmed \subseteq confirmed' /\ effects' = effects
  BY <1>2 DEF Next, vars, StartMessage, RejectTap, ExpiredTap, StartConfirm, StartCancelOrEdit,
      Propose, Send, Executed, Scheduler!Tell, NotExecuted, SchedulerOpens, Scheduler!Open,
      Answer, Abort, Forget, Expire
<1>. QED  BY <1>1, <1>2 DEF AppliedSet, Applied

LEMMA LedgerStep == ASSUME IInv, [Next]_vars PROVE LedgerInv'
<1>. USE DEF rowVars, handlerVars, userVars, schedulerVars
<1>g. confirmed \subseteq confirmed'
  BY Grow
<1>1. ASSUME NEW h \in Handlers, SchedulerOpens(h) PROVE LedgerInv'
  <2>1. RequestOf(h) \in Request /\ RequestOf(h)[1] = target[h] /\ target[h] \in confirmed
    BY <1>1 DEF SchedulerOpens, IInv, HandlerInv, TypeOK, RequestOf, Request
  <2>2. /\ record[target[h]] = NoCommand
        /\ record' = [record EXCEPT ![target[h]] = RequestOf(h)]
        /\ opened' = opened \cup {RequestOf(h)}
        /\ effects' = effects
    BY <1>1, <2>1 DEF SchedulerOpens, Scheduler!Open
  <2>3. \A r \in opened : r[1] \in Commands /\ r[1] # target[h]
    BY <2>2, ConversationAssumption DEF IInv, LedgerInv, TypeOK, Request
  <2>. QED  BY <1>g, <2>1, <2>2, <2>3 DEF IInv, LedgerInv, TypeOK
<1>2. ASSUME NEW h \in Handlers, SchedulerApplies(h) PROVE LedgerInv'
  <2>1. /\ record' = record /\ opened' = opened /\ RequestOf(h) \in opened
        /\ effects' = [effects EXCEPT ![RequestOf(h)] = @ + 1]
    BY <1>2 DEF SchedulerApplies, Scheduler!Apply
  <2>. QED  BY <1>g, <2>1 DEF IInv, LedgerInv, TypeOK
<1>3. ASSUME ~ \E h \in Handlers : SchedulerApplies(h) \/ SchedulerOpens(h)
      PROVE  record' = record /\ opened' = opened /\ effects' = effects
  BY <1>3 DEF Next, vars, StartMessage, RejectTap, ExpiredTap, StartConfirm, StartCancelOrEdit,
      Propose, Send, Executed, Scheduler!Tell, NotExecuted, Answer, Abort, Forget, Expire
<1>. QED  BY <1>g, <1>1, <1>2, <1>3 DEF IInv, LedgerInv

LEMMA RowStep == ASSUME IInv, [Next]_vars PROVE RowInv'
<1>. USE DEF rowVars, handlerVars, userVars, schedulerVars
<1>g. issued \subseteq issued' /\ AppliedSet \subseteq AppliedSet'
  BY Grow
<1>1. ASSUME NEW h \in Handlers, Answer(h) PROVE RowInv'
  <2>1. pending' = NoCommand /\ notes' \in SUBSET draft[h]
    BY <1>1 DEF Answer, Save
  <2>2. WellFormed(draft[h], issued, AppliedSet)
    BY DEF IInv, HandlerInv
  <2>. QED  BY <1>g, <2>1, <2>2, Weaken DEF RowInv
<1>2. ASSUME NEW h \in Handlers, NEW c \in Commands, Propose(h, c) PROVE RowInv'
  <2>1. /\ pending' = c /\ notes' \in SUBSET draft[h]
        /\ c \notin issued /\ issued' = issued \cup {c}
    BY <1>2 DEF Propose, Save
  <2>2. WellFormed(draft[h], issued, AppliedSet)
    BY DEF IInv, HandlerInv
  <2>3. Silent(draft[h], c)
    BY <2>1, <2>2 DEF WellFormed, Silent
  <2>4. Silent(notes', c)
    BY <2>1, <2>3 DEF Silent
  <2>5. WellFormed(notes', issued', AppliedSet')
    BY <1>g, <2>1, <2>2, Weaken
  <2>. QED  BY <2>1, <2>4, <2>5 DEF RowInv
<1>3. ASSUME Forget PROVE RowInv'
  BY <1>3 DEF Forget, RowInv, WellFormed
<1>4. ASSUME ~ \E h \in Handlers : Answer(h) \/ \E c \in Commands : Propose(h, c), ~Forget
      PROVE  pending' = pending /\ notes' = notes
  BY <1>4 DEF Next, vars, StartMessage, RejectTap, ExpiredTap, StartConfirm, StartCancelOrEdit,
      Send, Executed, Scheduler!Tell, NotExecuted, SchedulerOpens, Scheduler!Open,
      SchedulerApplies, Scheduler!Apply, Abort, Expire
<1>5. ASSUME pending' = pending, notes' = notes PROVE RowInv'
  BY <1>g, <1>5, Weaken DEF IInv, RowInv, Silent
<1>. QED  BY <1>1, <1>2, <1>3, <1>4, <1>5

\* The drafts: what each handler adds is about a command without an ending.
LEMMA DraftStep ==
    ASSUME IInv, [Next]_vars, NEW h \in Handlers
    PROVE  WellFormed(draft'[h], issued', AppliedSet')
<1>. USE DEF rowVars, handlerVars, userVars, schedulerVars
<1>g. issued \subseteq issued' /\ AppliedSet \subseteq AppliedSet'
  BY Grow
<1>t. TypeOK /\ WellFormed(notes, issued, AppliedSet)
  BY DEF IInv, RowInv
<1>d. \A g \in Handlers : WellFormed(draft[g], issued, AppliedSet)
  BY DEF IInv, HandlerInv
<1>e. WellFormed({}, issued', AppliedSet')
  BY DEF WellFormed
<1>. DEFINE Good(N) == WellFormed(N, issued, AppliedSet)
<1>1. ASSUME NEW N, Good(N), draft' = [draft EXCEPT ![h] = N]
      PROVE  WellFormed(draft'[h], issued', AppliedSet')
  <2>1. draft'[h] = N
    BY <1>1, <1>t DEF TypeOK
  <2>. QED  BY <1>g, <1>1, <2>1, Weaken
<1>2. ASSUME draft'[h] = draft[h] PROVE WellFormed(draft'[h], issued', AppliedSet')
  BY <1>2, <1>g, <1>d, Weaken
<1>3. ASSUME NEW g \in Handlers, NEW N, draft' = [draft EXCEPT ![g] = N], g # h
      PROVE  draft'[h] = draft[h]
  BY <1>3, <1>t DEF TypeOK
<1>. HIDE DEF Good
<1>4. ASSUME NEW g \in Handlers, NEW N, Good(N), draft' = [draft EXCEPT ![g] = N]
      PROVE  WellFormed(draft'[h], issued', AppliedSet')
  BY <1>1, <1>2, <1>3, <1>4
<1>5. ASSUME NEW g \in Handlers, StartMessage(g)
      PROVE  WellFormed(draft'[h], issued', AppliedSet')
  <2>. DEFINE N == notes \cup ({pending} \ {NoCommand}) \X {"abandoned"}
  <2>1. draft' = [draft EXCEPT ![g] = N]
    BY <1>5 DEF StartMessage, Begin
  <2>2. CASE pending = NoCommand
    <3>1. N = notes
      BY <2>2
    <3>. QED  BY <1>4, <1>t, <2>1, <3>1 DEF Good
  <2>3. CASE pending # NoCommand
    <3>1. N = notes \cup {<<pending, "abandoned">>}
      BY <2>3
    <3>2. pending \in issued /\ pending \in Commands /\ Silent(notes, pending)
      BY <2>3 DEF IInv, RowInv, TypeOK
    <3>3. Good(N)
      BY <1>t, <3>1, <3>2, Extend DEF Good, Outcome
    <3>. QED  BY <1>4, <2>1, <3>3
  <2>. QED  BY <2>2, <2>3
<1>6. ASSUME NEW g \in Handlers, NEW c \in Commands,
             RejectTap(g, c) \/ ExpiredTap(g, c) \/ StartConfirm(g, c)
      PROVE  WellFormed(draft'[h], issued', AppliedSet')
  <2>1. Good(notes) /\ Good({})
    BY <1>t DEF Good, WellFormed
  <2>2. \E N \in {notes, {}} : draft' = [draft EXCEPT ![g] = N]
    BY <1>6 DEF RejectTap, ExpiredTap, StartConfirm, Begin
  <2>. QED  BY <1>4, <2>1, <2>2
<1>7. ASSUME NEW g \in Handlers, NEW c \in Commands, StartCancelOrEdit(g, c)
      PROVE  WellFormed(draft'[h], issued', AppliedSet')
  <2>1. PICK o \in {"cancelled", "edit_requested"} :
           draft' = [draft EXCEPT ![g] = notes \cup {<<c, o>>}]
    BY <1>7 DEF StartCancelOrEdit, Begin
  <2>2. pending = c /\ c # NoCommand /\ c \in issued /\ Silent(notes, c)
    BY <1>7, ConversationAssumption DEF StartCancelOrEdit, IInv, RowInv
  <2>3. Good(notes \cup {<<c, o>>})
    BY <1>t, <2>2, Extend DEF Good, Outcome
  <2>. QED  BY <1>4, <2>1, <2>3
<1>8. ASSUME NEW g \in Handlers, NEW o \in Outcome, at[g] \in {"execute", "wait"},
             ToolResult(g, o), o = "success" => target[g] \in AppliedSet
      PROVE  WellFormed(draft'[h], issued', AppliedSet')
  <2>1. /\ target[g] \in Commands /\ target[g] \in issued /\ Silent(draft[g], target[g])
        /\ Good(draft[g])
    BY <1>8, <1>d DEF IInv, HandlerInv, TypeOK, Good
  <2>2. Good(draft[g] \cup {<<target[g], o>>})
    BY <1>8, <2>1, Extend DEF Good
  <2>3. draft' = [draft EXCEPT ![g] = draft[g] \cup {<<target[g], o>>}]
    BY <1>8 DEF ToolResult
  <2>. QED  BY <1>4, <2>2, <2>3
<1>9. ASSUME NEW g \in Handlers, Executed(g)
      PROVE  WellFormed(draft'[h], issued', AppliedSet')
  <2>1. RequestOf(g) \in Request /\ RequestOf(g)[1] = target[g]
    BY <1>9 DEF Executed, IInv, HandlerInv, TypeOK, RequestOf, Request
  <2>2. \E s \in Request : s[1] = target[g] /\ effects[s] > 0
    BY <1>9, <2>1 DEF Executed, Scheduler!Tell
  <2>3. target[g] \in AppliedSet
    BY <2>2 DEF AppliedSet, Applied, Request
  <2>. QED  BY <1>8, <1>9, <2>3 DEF Executed, Outcome
<1>10. ASSUME NEW g \in Handlers, NotExecuted(g)
       PROVE  WellFormed(draft'[h], issued', AppliedSet')
  BY <1>8, <1>10 DEF NotExecuted, Outcome
<1>11. ASSUME NEW g \in Handlers, Answer(g) \/ Abort(g) \/ \E c \in Commands : Propose(g, c)
       PROVE  WellFormed(draft'[h], issued', AppliedSet')
  <2>1. Good({})
    BY DEF Good, WellFormed
  <2>2. draft' = [draft EXCEPT ![g] = {}]
    BY <1>11 DEF Answer, Abort, Propose, Save
  <2>. QED  BY <1>4, <2>1, <2>2
<1>12. ASSUME \/ \E g \in Handlers : Send(g) \/ SchedulerOpens(g) \/ SchedulerApplies(g)
              \/ Forget \/ (\E c \in Commands : Expire(c)) \/ UNCHANGED vars
       PROVE  draft' = draft
  BY <1>12 DEF Send, SchedulerOpens, SchedulerApplies, Forget, Expire, vars
<1>. QED  BY <1>2, <1>5, <1>6, <1>7, <1>9, <1>10, <1>11, <1>12 DEF Next

LEMMA HandlerStep == ASSUME IInv, [Next]_vars PROVE HandlerInv'
<1>. USE DEF rowVars, handlerVars, userVars, schedulerVars, Busy
<1>g. confirmed \subseteq confirmed'
  BY Grow
<1>. DEFINE Executing(h) == at[h] \in {"execute", "wait"} =>
                               target[h] \in confirmed /\ Silent(draft[h], target[h])
            Sent(h) == h \in sent => at[h] # "idle" /\ target[h] \in confirmed
<1>0. SUFFICES ASSUME NEW h \in Handlers PROVE Executing(h)' /\ Sent(h)'
  BY DraftStep, TypeStep DEF HandlerInv, TypeOK
<1>t. TypeOK /\ Executing(h) /\ Sent(h)
  BY DEF IInv, HandlerInv
<1>1. ASSUME NEW c \in Commands, StartConfirm(h, c) PROVE Executing(h)' /\ Sent(h)'
  <2>1. /\ at'[h] = "execute" /\ target'[h] = c /\ draft'[h] = notes
        /\ c \in confirmed' /\ pending = c
    BY <1>1, <1>t DEF StartConfirm, Begin, TypeOK
  <2>2. Silent(notes, c)
    BY <2>1, ConversationAssumption DEF IInv, RowInv
  <2>. QED  BY <2>1, <2>2 DEF Silent
<1>2. ASSUME Send(h) PROVE Executing(h)' /\ Sent(h)'
  <2>1. at[h] = "execute" /\ at'[h] = "wait" /\ target' = target /\ draft' = draft
    BY <1>2, <1>t DEF Send, TypeOK
  <2>. QED  BY <1>g, <1>t, <2>1 DEF Silent
<1>3. ASSUME \/ StartMessage(h) \/ Executed(h) \/ NotExecuted(h) \/ Answer(h) \/ Abort(h)
             \/ \E c \in Commands : RejectTap(h, c) \/ ExpiredTap(h, c)
                                    \/ StartCancelOrEdit(h, c) \/ Propose(h, c)
      PROVE  Executing(h)' /\ Sent(h)'
  <2>1. at'[h] \notin {"idle", "execute", "wait"} /\ target' = target /\ sent' = sent
    BY <1>3, <1>t DEF StartMessage, Executed, NotExecuted, ToolResult, Answer, Abort, RejectTap,
        ExpiredTap, StartCancelOrEdit, Propose, Save, Begin, TypeOK
  <2>. QED  BY <1>g, <1>t, <2>1
<1>4. ASSUME at'[h] = at[h], target'[h] = target[h], draft'[h] = draft[h], h \in sent' => h \in sent
      PROVE  Executing(h)' /\ Sent(h)'
  BY <1>g, <1>t, <1>4 DEF Silent
<1>5. ASSUME NEW g \in Handlers, g # h,
             \/ StartMessage(g) \/ Executed(g) \/ NotExecuted(g) \/ Answer(g) \/ Abort(g) \/ Send(g)
             \/ \E c \in Commands : RejectTap(g, c) \/ ExpiredTap(g, c) \/ StartConfirm(g, c)
                                    \/ StartCancelOrEdit(g, c) \/ Propose(g, c)
      PROVE  at'[h] = at[h] /\ target'[h] = target[h] /\ draft'[h] = draft[h] /\ (h \in sent' => h \in sent)
  BY <1>5, <1>t DEF StartMessage, Executed, NotExecuted, ToolResult, Answer, Abort, Send, RejectTap,
      ExpiredTap, StartConfirm, StartCancelOrEdit, Propose, Save, Begin, TypeOK
<1>6. ASSUME \/ \E g \in Handlers : SchedulerOpens(g) \/ SchedulerApplies(g)
             \/ Forget \/ (\E c \in Commands : Expire(c)) \/ UNCHANGED vars
      PROVE  at' = at /\ target' = target /\ draft' = draft /\ sent' = sent
  BY <1>6 DEF SchedulerOpens, SchedulerApplies, Forget, Expire, vars
<1>. QED  BY <1>1, <1>2, <1>3, <1>4, <1>5, <1>6 DEF Next

-----------------------------------------------------------------------------
\* Theorems

\* The types, and under them the whole inductive invariant: the pending command
\* has no ending yet, effects belong to the one record of a confirmed command.
THEOREM Invariant == Spec => []IInv
<1>1. IInv /\ [Next]_vars => IInv'
  BY TypeStep, RowStep, HandlerStep, LedgerStep DEF IInv
<1>. QED  BY InvInit, <1>1, PTL DEF Spec

\* The variables of the conversation keep their types.
THEOREM TypeCorrect == Spec => []TypeOK
<1>1. IInv => TypeOK
  BY DEF IInv
<1>. QED  BY Invariant, <1>1, PTL

\* Only commands the user confirmed reach MonicaHQ.
THEOREM OnlyConfirmedHolds == Spec => []OnlyConfirmedExecutes
<1>1. IInv => OnlyConfirmedExecutes
  BY DEF IInv, LedgerInv, OnlyConfirmedExecutes, Applied, Request
<1>. QED  BY Invariant, <1>1, PTL

\* At most one request of a command takes effect.
THEOREM OneEffectHolds == Spec => []OneEffect
<1>1. ASSUME IInv, NEW c \in Commands, NEW g \in Handlers, NEW h \in Handlers,
             effects[<<c, g>>] > 0, effects[<<c, h>>] > 0
      PROVE  g = h
  <2>1. <<c, g>> \in opened /\ <<c, h>> \in opened
    BY <1>1 DEF IInv, LedgerInv, Request
  <2>2. record[<<c, g>>[1]] = <<c, g>> /\ record[<<c, h>>[1]] = <<c, h>>
    BY <1>1, <2>1, Zenon DEF IInv, LedgerInv
  <2>. QED  BY <2>2
<1>2. IInv => OneEffect
  BY <1>1 DEF OneEffect
<1>. QED  BY Invariant, <1>2, PTL

\* A note of success is backed by an effect.
THEOREM SuccessNotesTruthfulHolds == Spec => []SuccessNotesTruthful
<1>1. IInv => SuccessNotesTruthful
  <2>. SUFFICES ASSUME IInv, NEW N \in Kept, NEW c \in Commands, <<c, "success">> \in N
                PROVE  Applied(c)
    BY DEF SuccessNotesTruthful
  <2>1. WellFormed(N, issued, AppliedSet)
    BY DEF Kept, IInv, RowInv, HandlerInv
  <2>. QED  BY <2>1 DEF WellFormed, AppliedSet
<1>. QED  BY Invariant, <1>1, PTL

\* No conversation holds two endings of one command.
THEOREM OneOutcomeHolds == Spec => []OneOutcome
<1>1. IInv => OneOutcome
  BY DEF IInv, RowInv, HandlerInv, WellFormed, Kept, OneOutcome
<1>. QED  BY Invariant, <1>1, PTL

\* A command that is no longer pending never becomes pending again.
THEOREM NoResurrectionHolds == Spec => NoResurrection
<1>1. ASSUME [Next]_vars, IInv, NEW c \in issued, pending # c PROVE pending' # c
  <2>1. \/ pending' \in {pending, NoCommand}
        \/ pending' \notin issued
    BY <1>1 DEF Next, vars, rowVars, StartMessage, RejectTap, ExpiredTap, StartConfirm,
        StartCancelOrEdit, Propose, Send, Executed, NotExecuted, SchedulerOpens,
        SchedulerApplies, Answer, Save, Abort, Forget, Expire
  <2>. QED  BY <1>1, <2>1, ConversationAssumption DEF IInv, TypeOK
<1>2. IInv /\ [Next]_vars => [\A c \in issued : pending # c => pending' # c]_vars
  BY <1>1
<1>. QED  BY Invariant, <1>2, PTL DEF Spec, NoResurrection

=============================================================================
