------------------------ MODULE AgentTranscript_proofs ------------------------
(***************************************************************************)
(* Whatever the window, the number of handlers and the LLM: tool calls and *)
(* results always fit together. The invariant says so of every sequence of *)
(* messages there is, of the row, of the handlers and of the pending tool  *)
(* call; the lemmas say that the ways in which the code makes messages     *)
(* from others, appending and cutting off the beginning, keep it.          *)
(***************************************************************************)
EXTENDS AgentTranscript, SequenceTheorems, TLAPS

Paired(m) == CallsAnswered(m) /\ ResultsAsked(m)

\* Messages that begin with a result fill the window.
CutOrWhole(m) == m # << >> /\ m[1].role = "tool" => Len(m) >= Window

Fit(m) == m \in Seq(Message) /\ Paired(m) /\ CutOrWhole(m)

\* The results of a pending tool call are those of its message.
PendingFits == pending # NoPending =>
    ToSet(pending.asked) = ToSet(pending.results) \cup {pending.call}

Inv ==
    /\ AgentTypeOK
    /\ Fit(messages)
    /\ \A h \in Handlers : Fit(work[h])
    /\ PendingFits
    /\ \A h \in Handlers : at[h] \in {"think", "follow"} => left[h] > 0

-----------------------------------------------------------------------------
(* Messages. *)

\* What the messages and sequences of the model are made of.
LEMMA MessageTypes ==
    /\ FromUser \in Message
    /\ \A c \in Calls : Result(c) \in Message
    /\ \A cs \in Seq(Calls) : Says(cs) \in Message /\ Results(cs) \in Seq(Message)
<1>1. FromUser \in Message
  BY SMT DEF FromUser, Message, Role
<1>2. \A c \in Calls : Result(c) \in Message
  BY SMT DEF Result, Message, Role
<1>3. ASSUME NEW cs \in Seq(Calls) PROVE Says(cs) \in Message /\ Results(cs) \in Seq(Message)
  <2>1. Says(cs) \in Message
    BY SMT DEF Says, Message, Role
  <2>2. \A i \in 1 .. Len(cs) : Result(cs[i]) \in Message
    BY <1>2, SMT
  <2>3. Results(cs) \in Seq(Message)
    BY <2>2, SMT DEF Results
  <2>4. QED BY <2>1, <2>3
<1>4. QED BY <1>1, <1>2, <1>3

\* A message that is no result and calls no tool may follow anything.
LEMMA TextFollows ==
    ASSUME NEW m \in Seq(Message), Paired(m),
           NEW x \in Message, x.calls = << >>, x.role # "tool"
    PROVE  Paired(Append(m, x))
<1> DEFINE n == Append(m, x)
<1>1. n \in Seq(Message) /\ Len(n) = Len(m) + 1 /\ n[Len(m) + 1] = x
  BY SMT
<1>2. \A i \in 1 .. Len(m) : n[i] = m[i]
  BY SMT
<1>3. CallsAnswered(n)
  <2>1. ASSUME NEW i \in 1 .. Len(m), NEW c \in ToSet(n[i].calls)
        PROVE  \E j \in i + 1 .. Len(n) : n[j].id = c /\ OnlyResults(n, i + 1, j)
    <3>0. i \in DOMAIN m /\ c \in ToSet(m[i].calls)
      BY <1>2, <2>1, SMT
    <3> HIDE DEF n
    <3>1. PICK j \in i + 1 .. Len(m) : m[j].id = c /\ OnlyResults(m, i + 1, j)
      BY <3>0 DEF Paired, CallsAnswered
    <3>2. n[j].id = c /\ OnlyResults(n, i + 1, j)
      BY <1>2, <3>1, SMT DEF OnlyResults
    <3>3. QED BY <1>1, <3>1, <3>2, SMT
  <2>2. ToSet(n[Len(m) + 1].calls) = {}
    BY <1>1, SMT DEF ToSet
  <2>3. QED BY <1>1, <2>1, <2>2, SMT DEF CallsAnswered
<1>4. ResultsAsked(n)
  <2>1. SUFFICES ASSUME NEW j \in 1 .. Len(n), n[j].role = "tool", ~OnlyResults(n, 1, j)
                 PROVE  \E i \in 1 .. j - 1 :
                            n[j].id \in ToSet(n[i].calls) /\ OnlyResults(n, i + 1, j)
    BY <1>1, SMT DEF ResultsAsked
  <2>2. j \in 1 .. Len(m)
    BY <1>1, <2>1, SMT
  <2>3. m[j].role = "tool" /\ ~OnlyResults(m, 1, j)
    BY <1>2, <2>1, <2>2, SMT DEF OnlyResults
  <2>4. PICK i \in 1 .. j - 1 : m[j].id \in ToSet(m[i].calls) /\ OnlyResults(m, i + 1, j)
    BY <2>2, <2>3, SMT DEF Paired, ResultsAsked
  <2>5. n[j].id \in ToSet(n[i].calls) /\ OnlyResults(n, i + 1, j)
    BY <1>2, <2>2, <2>4, SMT DEF OnlyResults
  <2>6. QED BY <2>5
<1>5. QED BY <1>3, <1>4 DEF Paired

\* A message with tool calls may follow anything when their results come next.
LEMMA CallsWithResultsFollow ==
    ASSUME NEW m \in Seq(Message), Paired(m), NEW cs \in Seq(Calls),
           NEW r \in Seq(Message), \A k \in 1 .. Len(r) : r[k].role = "tool",
           \A c \in ToSet(cs) : \E k \in 1 .. Len(r) : r[k].id = c,
           \A k \in 1 .. Len(r) : r[k].id \in ToSet(cs) /\ r[k].calls = << >>
    PROVE  Paired(m \o <<Says(cs)>> \o r)
<1> DEFINE n == m \o <<Says(cs)>> \o r
           z == Len(m) + 1
<1>0. Says(cs) \in Message /\ Says(cs).calls = cs /\ Says(cs).role = "assistant"
  BY MessageTypes, SMT DEF Says
<1>1. n \in Seq(Message) /\ Len(n) = z + Len(r)
  BY <1>0, SMT
<1>2. n[z] = Says(cs)
  BY <1>0, SMT
<1>3. \A i \in 1 .. Len(m) : n[i] = m[i]
  BY <1>0, SMT
<1>4. \A k \in 1 .. Len(r) : n[z + k] = r[k]
  BY <1>0, SMT
<1>5. \A j \in z + 1 .. Len(n) : n[j] = r[j - z] /\ n[j].role = "tool"
                                /\ n[j].id \in ToSet(cs) /\ n[j].calls = << >>
  <2>1. ASSUME NEW j \in z + 1 .. Len(n) PROVE j - z \in 1 .. Len(r) /\ z + (j - z) = j
    BY <1>1, SMT
  <2>2. QED BY <1>4, <2>1, SMT
<1> HIDE DEF n
<1>6. CallsAnswered(n)
  <2>1. ASSUME NEW i \in 1 .. Len(m), NEW c \in ToSet(n[i].calls)
        PROVE  \E j \in i + 1 .. Len(n) : n[j].id = c /\ OnlyResults(n, i + 1, j)
    <3>0. i \in DOMAIN m /\ c \in ToSet(m[i].calls)
      BY <1>3, <2>1, SMT
    <3>1. PICK j \in i + 1 .. Len(m) : m[j].id = c /\ OnlyResults(m, i + 1, j)
      BY <3>0 DEF Paired, CallsAnswered
    <3>2. \A k \in i + 1 .. j : n[k] = m[k]
      BY <1>3, <3>1, SMT
    <3>3. n[j].id = c /\ OnlyResults(n, i + 1, j)
      BY <3>1, <3>2, SMT DEF OnlyResults
    <3>4. QED BY <1>1, <3>1, <3>3, SMT
  <2>2. ASSUME NEW c \in ToSet(n[z].calls)
        PROVE  \E j \in z + 1 .. Len(n) : n[j].id = c /\ OnlyResults(n, z + 1, j)
    <3>1. c \in ToSet(cs)
      BY <1>0, <1>2, <2>2
    <3>2. PICK k \in 1 .. Len(r) : r[k].id = c
      BY <3>1
    <3>3. z + k \in z + 1 .. Len(n) /\ n[z + k].id = c
      BY <1>1, <1>4, <3>2, SMT
    <3>4. OnlyResults(n, z + 1, z + k)
      BY <1>5, <3>3, SMT DEF OnlyResults
    <3>5. QED BY <3>3, <3>4
  <2>3. ASSUME NEW i \in z + 1 .. Len(n) PROVE ToSet(n[i].calls) = {}
    BY <1>5, SMT DEF ToSet
  <2>4. \A i \in DOMAIN n : i \in 1 .. Len(m) \/ i = z \/ i \in z + 1 .. Len(n)
    BY <1>1, SMT
  <2>5. QED BY <2>1, <2>2, <2>3, <2>4, Zenon DEF CallsAnswered
<1>7. ResultsAsked(n)
  <2>1. SUFFICES ASSUME NEW j \in 1 .. Len(n), n[j].role = "tool", ~OnlyResults(n, 1, j)
                 PROVE  \E i \in 1 .. j - 1 :
                            n[j].id \in ToSet(n[i].calls) /\ OnlyResults(n, i + 1, j)
    BY <1>1, SMT DEF ResultsAsked
  <2>2. CASE j \in 1 .. Len(m)
    <3>1. j \in DOMAIN m /\ m[j].role = "tool" /\ ~OnlyResults(m, 1, j)
      BY <1>3, <2>1, <2>2, SMT DEF OnlyResults
    <3>2. PICK i \in 1 .. j - 1 : m[j].id \in ToSet(m[i].calls) /\ OnlyResults(m, i + 1, j)
      BY <3>1 DEF Paired, ResultsAsked
    <3>3. \A k \in i .. j : n[k] = m[k]
      BY <1>3, <2>2, <3>2, SMT
    <3>4. n[j].id \in ToSet(n[i].calls) /\ OnlyResults(n, i + 1, j)
      BY <3>2, <3>3, SMT DEF OnlyResults
    <3>5. QED BY <3>4
  <2>3. CASE j = z
    BY <1>0, <1>2, <2>1, <2>3
  <2>4. CASE j \in z + 1 .. Len(n)
    <3>1. n[j].id \in ToSet(n[z].calls)
      BY <1>0, <1>2, <1>5, <2>4
    <3>2. OnlyResults(n, z + 1, j)
      BY <1>5, <2>4, SMT DEF OnlyResults
    <3>3. z \in 1 .. j - 1
      BY <2>4, SMT
    <3>4. QED BY <3>1, <3>2, <3>3
  <2>5. QED BY <1>1, <2>1, <2>2, <2>3, <2>4, SMT
<1>8. QED BY <1>6, <1>7 DEF Paired, n

\* What is left when the beginning is cut off still fits together.
LEMMA SuffixPaired ==
    ASSUME NEW m \in Seq(Message), Paired(m), NEW b \in Nat, b <= Len(m)
    PROVE  SubSeq(m, b + 1, Len(m)) \in Seq(Message) /\ Paired(SubSeq(m, b + 1, Len(m)))
<1> DEFINE n == SubSeq(m, b + 1, Len(m))
<1>1. n \in Seq(Message) /\ Len(n) = Len(m) - b /\ DOMAIN n = 1 .. Len(n)
  BY SMT
<1>2. \A i \in 1 .. Len(n) : n[i] = m[i + b]
  BY SMT
<1> HIDE DEF n
<1>3. ASSUME NEW i \in Nat, NEW j \in Nat, i >= 1, j <= Len(n)
      PROVE  OnlyResults(n, i, j) <=> OnlyResults(m, i + b, j + b)
  <2>1. ASSUME OnlyResults(m, i + b, j + b), NEW k \in i .. j PROVE n[k].role = "tool"
    <3>1. k + b \in i + b .. j + b /\ k \in 1 .. Len(n)
      BY <1>1, <1>3, SMT
    <3>2. QED BY <1>2, <2>1, <3>1 DEF OnlyResults
  <2>2. ASSUME OnlyResults(n, i, j), NEW k \in i + b .. j + b PROVE m[k].role = "tool"
    <3>1. k - b \in i .. j /\ k - b \in 1 .. Len(n) /\ (k - b) + b = k
      BY <1>1, <1>3, SMT
    <3>2. QED BY <1>2, <2>2, <3>1 DEF OnlyResults
  <2>3. QED BY <2>1, <2>2 DEF OnlyResults
<1>4. CallsAnswered(n)
  <2>1. SUFFICES ASSUME NEW i \in 1 .. Len(n), NEW c \in ToSet(n[i].calls)
                 PROVE  \E j \in i + 1 .. Len(n) : n[j].id = c /\ OnlyResults(n, i + 1, j)
    BY <1>1, Zenon DEF CallsAnswered
  <2>2. i + b \in DOMAIN m /\ c \in ToSet(m[i + b].calls)
    BY <1>1, <1>2, <2>1, SMT
  <2>3. PICK j \in (i + b) + 1 .. Len(m) : m[j].id = c /\ OnlyResults(m, (i + b) + 1, j)
    BY <2>2 DEF Paired, CallsAnswered
  <2>4. j - b \in i + 1 .. Len(n) /\ (j - b) + b = j /\ (i + 1) + b = (i + b) + 1 /\ j - b \in Nat
    BY <1>1, <2>3, SMT
  <2>5. n[j - b] = m[j]
    BY <1>2, <2>1, <2>4, SMT
  <2>6. OnlyResults(n, i + 1, j - b)
    BY <1>1, <1>3, <2>1, <2>3, <2>4, SMT
  <2>7. QED BY <2>3, <2>4, <2>5, <2>6
<1>5. ResultsAsked(n)
  <2>1. SUFFICES ASSUME NEW j \in 1 .. Len(n), n[j].role = "tool", ~OnlyResults(n, 1, j)
                 PROVE  \E i \in 1 .. j - 1 :
                            n[j].id \in ToSet(n[i].calls) /\ OnlyResults(n, i + 1, j)
    BY <1>1, Zenon DEF ResultsAsked
  <2>2. PICK k \in 1 .. j : n[k].role # "tool"
    BY <2>1 DEF OnlyResults
  <2>3. k + b \in 1 .. j + b /\ m[k + b].role # "tool"
    BY <1>1, <1>2, <2>1, <2>2, SMT
  <2>4. j + b \in DOMAIN m /\ m[j + b].role = "tool" /\ m[j + b] = n[j]
    BY <1>1, <1>2, <2>1, SMT
  <2>5. ~OnlyResults(m, 1, j + b)
    BY <2>3 DEF OnlyResults
  <2>6. PICK i \in 1 .. (j + b) - 1 :
            m[j + b].id \in ToSet(m[i].calls) /\ OnlyResults(m, i + 1, j + b)
    BY <2>4, <2>5 DEF Paired, ResultsAsked
  <2>7. i >= k + b
    BY <2>2, <2>3, <2>6, SMT DEF OnlyResults
  <2>8. i - b \in 1 .. j - 1 /\ (i - b) + b = i /\ ((i - b) + 1) + b = i + 1 /\ i - b \in 1 .. Len(n)
    BY <1>1, <2>1, <2>2, <2>6, <2>7, SMT
  <2>9. n[i - b] = m[i]
    BY <1>2, <2>8, SMT
  <2>10. OnlyResults(n, (i - b) + 1, j)
    BY <1>1, <1>3, <2>1, <2>6, <2>8, SMT
  <2>11. QED BY <2>4, <2>6, <2>8, <2>9, <2>10
<1>6. QED BY <1>1, <1>4, <1>5 DEF Paired, n

-----------------------------------------------------------------------------
(* What handlers make of messages. *)

LEMMA TextFits ==
    ASSUME NEW m, Fit(m), NEW x \in Message, x.calls = << >>, x.role # "tool"
    PROVE  Fit(Append(m, x))
<1>1. m \in Seq(Message) /\ Paired(m) /\ CutOrWhole(m)
  BY DEF Fit
<1>2. Append(m, x) \in Seq(Message) /\ Paired(Append(m, x))
  BY <1>1, TextFollows, SMT
<1>3. CutOrWhole(Append(m, x))
  BY <1>1, AgentAssumption, SMT DEF CutOrWhole
<1>4. QED BY <1>2, <1>3 DEF Fit

LEMMA ToolsFit ==
    ASSUME NEW m, Fit(m), NEW cs \in Seq(Calls), NEW rs \in Seq(Calls), ToSet(rs) = ToSet(cs)
    PROVE  Fit(m \o <<Says(cs)>> \o Results(rs))
<1>1. m \in Seq(Message) /\ Paired(m) /\ CutOrWhole(m)
  BY DEF Fit
<1>2. Says(cs) \in Message /\ Says(cs).role = "assistant" /\ Results(rs) \in Seq(Message)
  <2>1. Says(cs) \in Message /\ Results(rs) \in Seq(Message)
    BY MessageTypes
  <2>2. QED BY <2>1 DEF Says
<1>3. Len(Results(rs)) = Len(rs) /\ \A k \in 1 .. Len(rs) :
          Results(rs)[k].role = "tool" /\ Results(rs)[k].id = rs[k] /\ Results(rs)[k].calls = << >>
  <2>1. DOMAIN Results(rs) = 1 .. Len(rs)
    BY SMT DEF Results
  <2>2. Len(Results(rs)) = Len(rs)
    BY <1>2, <2>1, SMT
  <2>3. QED BY <2>2, SMT DEF Results, Result
<1>4. ToSet(cs) = {rs[k] : k \in 1 .. Len(rs)}
  <2>1. ToSet(rs) = {rs[k] : k \in 1 .. Len(rs)}
    BY SMT DEF ToSet
  <2>2. QED BY <2>1
<1>5. Paired(m \o <<Says(cs)>> \o Results(rs))
  <2>1. \A c \in ToSet(cs) : \E k \in 1 .. Len(Results(rs)) : Results(rs)[k].id = c
    BY <1>3, <1>4
  <2>2. \A k \in 1 .. Len(Results(rs)) :
            Results(rs)[k].id \in ToSet(cs) /\ Results(rs)[k].calls = << >>
            /\ Results(rs)[k].role = "tool"
    BY <1>3, <1>4
  <2>3. QED BY <1>1, <1>2, <2>1, <2>2, CallsWithResultsFollow
<1>6. m \o <<Says(cs)>> \o Results(rs) \in Seq(Message)
  BY <1>1, <1>2, SMT
<1>7. CutOrWhole(m \o <<Says(cs)>> \o Results(rs))
  <2>1. (m \o <<Says(cs)>> \o Results(rs))[1] = IF m = << >> THEN Says(cs) ELSE m[1]
    BY <1>1, <1>2, SMT
  <2>2. Len(m \o <<Says(cs)>> \o Results(rs)) >= Len(m)
    BY <1>1, <1>2, SMT
  <2>3. Len(m) \in Nat /\ Len(m \o <<Says(cs)>> \o Results(rs)) \in Nat /\ Window \in Nat
    BY <1>1, <1>6, AgentAssumption, SMT
  <2>4. QED BY <1>1, <1>2, <2>1, <2>2, <2>3, SMT DEF CutOrWhole
<1>8. QED BY <1>5, <1>6, <1>7 DEF Fit

LEMMA TruncatedFits ==
    ASSUME NEW m, Fit(m) PROVE Fit(Truncated(m)) /\ Len(Truncated(m)) <= Window
<1>1. m \in Seq(Message) /\ Paired(m) /\ CutOrWhole(m) /\ Window \in Nat \ {0} /\ Len(m) \in Nat
  BY AgentAssumption, SMT DEF Fit
<1>2. CASE Len(m) <= Window
  BY <1>2 DEF Truncated
<1>3. CASE Len(m) > Window
  <2> DEFINE b == Len(m) - Window
  <2>1. b \in Nat /\ b <= Len(m) /\ ~(Len(m) <= Window)
    BY <1>1, <1>3, SMT
  <2>2. SubSeq(m, b + 1, Len(m)) \in Seq(Message) /\ Paired(SubSeq(m, b + 1, Len(m)))
    BY <1>1, <2>1, SuffixPaired
  <2>3. Truncated(m) = SubSeq(m, b + 1, Len(m))
    BY <2>1 DEF Truncated
  <2>4. Len(SubSeq(m, b + 1, Len(m))) = Window
    BY <1>1, <1>3, SMT
  <2>5. QED BY <1>1, <2>2, <2>3, <2>4, SMT DEF Fit, CutOrWhole
<1>4. QED BY <1>1, <1>2, <1>3, SMT

\* An ended tool call, appended to the messages it belongs to.
LEMMA EndedFits ==
    ASSUME NEW m, Fit(m), NEW p \in Pending, ToSet(p.asked) = ToSet(p.results) \cup {p.call}
    PROVE  Fit(m \o Ended(p))
<1> DEFINE rs == Append(p.results, p.call)
<1>1. p.asked \in Seq(Calls) /\ p.results \in Seq(Calls) /\ p.call \in Calls
  BY DEF Pending
<1>2. rs \in Seq(Calls)
  BY <1>1, SMT
<1>3. ToSet(rs) = ToSet(p.results) \cup {p.call}
  <2>1. Len(rs) = Len(p.results) + 1 /\ rs[Len(p.results) + 1] = p.call
        /\ \A k \in 1 .. Len(p.results) : rs[k] = p.results[k]
    BY <1>1, SMT
  <2>2. ToSet(p.results) = {p.results[k] : k \in 1 .. Len(p.results)}
    BY <1>1, SMT DEF ToSet
  <2>3. ToSet(rs) = {rs[k] : k \in 1 .. Len(p.results) + 1}
    BY <1>2, <2>1, SMT DEF ToSet
  <2>4. Len(p.results) \in Nat
    BY <1>1, SMT
  <2> HIDE DEF rs
  <2>5. QED BY <2>1, <2>2, <2>3, <2>4, SMT
<1>4. Results(rs) = Results(p.results) \o <<Result(p.call)>>
  <2>1. Results(p.results) \in Seq(Message) /\ Result(p.call) \in Message
    BY <1>1, MessageTypes
  <2>2. Results(rs) \in Seq(Message)
    BY <1>2, MessageTypes
  <2>3. DOMAIN Results(rs) = 1 .. Len(p.results) + 1 /\ DOMAIN Results(p.results) = 1 .. Len(p.results)
    BY <1>1, <1>2, SMT DEF Results
  <2>4. Len(Results(p.results)) = Len(p.results) /\ Len(Results(rs)) = Len(p.results) + 1
    BY <1>1, <2>1, <2>2, <2>3, SMT
  <2>5. \A k \in 1 .. Len(p.results) + 1 :
            Results(rs)[k] = (Results(p.results) \o <<Result(p.call)>>)[k]
    <3>1. \A k \in 1 .. Len(p.results) : Results(rs)[k] = Result(p.results[k])
                                      /\ Results(p.results)[k] = Result(p.results[k])
      BY <1>1, SMT DEF Results
    <3>2. Results(rs)[Len(p.results) + 1] = Result(p.call)
      BY <1>1, SMT DEF Results
    <3>3. QED BY <2>1, <2>4, <3>1, <3>2, SMT
  <2>6. Results(p.results) \o <<Result(p.call)>> \in Seq(Message)
        /\ Len(Results(p.results) \o <<Result(p.call)>>) = Len(p.results) + 1
    BY <2>1, <2>4, SMT
  <2> DEFINE l == Results(rs)
             r == Results(p.results) \o <<Result(p.call)>>
  <2>7. l \in Seq(Message) /\ r \in Seq(Message) /\ Len(l) = Len(r)
        /\ \A k \in 1 .. Len(l) : l[k] = r[k]
    BY <2>2, <2>4, <2>5, <2>6
  <2> HIDE DEF l, r
  <2>8. l = r
    BY <2>7, SeqEqual
  <2>9. QED BY <2>8 DEF l, r
<1>5. Fit(m \o <<Says(p.asked)>> \o Results(rs))
  BY <1>1, <1>2, <1>3, ToolsFit
<1>6. m \o <<Says(p.asked)>> \o Results(rs) = m \o Ended(p)
  <2>1. m \in Seq(Message) /\ Says(p.asked) \in Message /\ Results(p.results) \in Seq(Message)
        /\ Result(p.call) \in Message
    BY <1>1, MessageTypes DEF Fit
  <2>2. QED BY <1>4, <2>1, SMT DEF Ended
<1>7. QED BY <1>5, <1>6

-----------------------------------------------------------------------------
(* What an LLM's message with tool calls can hold. *)

LEMMA EmptyFits == Fit(<< >>)
<1>1. << >> \in Seq(Message)
  BY EmptySeq
<1>2. DOMAIN << >> = {}
  BY SMT
<1>3. QED BY <1>1, <1>2 DEF Fit, Paired, CallsAnswered, ResultsAsked, CutOrWhole

LEMMA IdsTypes ==
    ASSUME NEW cs \in Responses
    PROVE  /\ Ids(cs) \in Seq(Calls) /\ DOMAIN Ids(cs) = DOMAIN cs
           /\ \A i \in DOMAIN cs : Ids(cs)[i] = cs[i].id
           /\ ToSet(Ids(cs)) \subseteq Calls
           /\ DOMAIN cs = 1 .. Len(Ids(cs))
<1>1. PICK n \in 1 .. MaxCalls : cs \in [1 .. n -> ToolCall]
  BY DEF Responses
<1>2. \A i \in 1 .. n : cs[i].id \in Calls
  BY <1>1, SMT DEF ToolCall
<1>3. n \in Nat
  BY <1>1, AgentAssumption, SMT
<1>4. Ids(cs) = [i \in 1 .. n |-> cs[i].id]
  BY <1>1 DEF Ids
<1>5. Ids(cs) \in Seq(Calls) /\ Len(Ids(cs)) = n
  BY <1>2, <1>3, <1>4, SMT
<1>6. ToSet(Ids(cs)) \subseteq Calls
  BY <1>2, <1>4, SMT DEF ToSet
<1>7. QED BY <1>1, <1>4, <1>5, <1>6

\* Propose takes one call apart and keeps the others.
LEMMA OthersAndIntercepted ==
    ASSUME NEW s \in Seq(Calls), NEW i \in 1 .. Len(s)
    PROVE  /\ RemoveAt(s, i) \in Seq(Calls)
           /\ ToSet(s) = ToSet(RemoveAt(s, i)) \cup {s[i]}
<1> DEFINE r == RemoveAt(s, i)
<1>1. Len(s) \in Nat /\ i \in Nat /\ Len(s) >= 1
  BY SMT
<1> DEFINE a == SubSeq(s, 1, i - 1)
           b == SubSeq(s, i + 1, Len(s))
<1>a. a \in Seq(Calls) /\ Len(a) = i - 1 /\ \A k \in 1 .. i - 1 : a[k] = s[k]
  BY <1>1, SMT
<1>b. b \in Seq(Calls) /\ Len(b) = Len(s) - i /\ \A k \in 1 .. Len(s) - i : b[k] = s[k + i]
  BY <1>1, SMT
<1>c. r = a \o b
  BY DEF RemoveAt
<1> HIDE DEF a, b, r
<1>2. r \in Seq(Calls) /\ Len(r) = Len(s) - 1
  <2>1. r \in Seq(Calls) /\ Len(r) = Len(a) + Len(b)
    BY <1>a, <1>b, <1>c, ConcatProperties
  <2>2. QED BY <1>1, <1>a, <1>b, <2>1, SMT
<1>3. \A k \in 1 .. Len(s) - 1 : r[k] = IF k < i THEN s[k] ELSE s[k + 1]
  <2>1. SUFFICES ASSUME NEW k \in 1 .. Len(s) - 1
                 PROVE  r[k] = IF k < i THEN s[k] ELSE s[k + 1]
    OBVIOUS
  <2>2. r[k] = IF k <= Len(a) THEN a[k] ELSE b[k - Len(a)]
    BY <1>1, <1>a, <1>b, <1>c, <2>1, SMT
  <2>3. CASE k < i
    BY <1>1, <1>a, <2>1, <2>2, <2>3, SMT
  <2>4. CASE ~(k < i)
    <3>1. k - (i - 1) \in 1 .. Len(s) - i /\ (k - (i - 1)) + i = k + 1 /\ ~(k <= i - 1)
      BY <1>1, <2>1, <2>4, SMT
    <3>2. b[k - (i - 1)] = s[k + 1]
      BY <1>b, <3>1
    <3>3. QED BY <1>a, <2>2, <2>4, <3>1, <3>2
  <2>5. QED BY <2>3, <2>4
<1>4. ToSet(s) = {s[k] : k \in 1 .. Len(s)}
  BY SMT DEF ToSet
<1>5. ToSet(r) = {r[k] : k \in 1 .. Len(s) - 1}
  BY <1>1, <1>2, SMT DEF ToSet
<1>6. \A k \in 1 .. Len(s) - 1 : r[k] \in ToSet(s)
  BY <1>1, <1>3, <1>4, SMT
<1>7. \A k \in 1 .. Len(s) : k = i \/ s[k] \in ToSet(r)
  <2>1. SUFFICES ASSUME NEW k \in 1 .. Len(s), k # i PROVE s[k] \in ToSet(r)
    OBVIOUS
  <2>2. CASE k < i
    BY <1>1, <1>3, <1>5, <2>1, <2>2, SMT
  <2>3. CASE k > i
    <3>1. k - 1 \in 1 .. Len(s) - 1 /\ ~(k - 1 < i) /\ (k - 1) + 1 = k
      BY <1>1, <2>1, <2>3, SMT
    <3>2. r[k - 1] = s[k]
      BY <1>3, <3>1
    <3>3. QED BY <1>5, <3>1, <3>2
  <2>4. QED BY <1>1, <2>1, <2>2, <2>3, SMT
<1>8. s[i] \in ToSet(s)
  BY <1>4
<1>9. ToSet(s) = ToSet(r) \cup {s[i]}
  BY <1>4, <1>5, <1>6, <1>7, <1>8, Zenon
<1>10. QED BY <1>2, <1>9 DEF r

-----------------------------------------------------------------------------
(* The invariant. *)

LEMMA BeginKeepsInv ==
    ASSUME Inv, NEW h \in Handlers, NEW q \in Awaits, NEW m, Fit(m), NEW n \in Nat,
           q \in {"think", "follow"} => n > 0, Begin(h, q, m, n)
    PROVE  Inv'
<1>1. /\ messages' = messages /\ pending' = pending /\ used' = used
      /\ at' = [at EXCEPT ![h] = q] /\ work' = [work EXCEPT ![h] = m]
      /\ left' = [left EXCEPT ![h] = n] /\ errors' = [errors EXCEPT ![h] = 0]
  BY DEF Begin, rowVars
<1>2. AgentTypeOK'
  BY <1>1, SMT DEF Inv, AgentTypeOK, Fit
<1>3. Fit(messages') /\ PendingFits'
  BY <1>1 DEF Inv, PendingFits
<1>4. \A g \in Handlers : Fit(work'[g])
  BY <1>1, Zenon DEF Inv, AgentTypeOK
<1>5. \A g \in Handlers : at'[g] \in {"think", "follow"} => left'[g] > 0
  BY <1>1, SMT DEF Inv, AgentTypeOK
<1>6. QED BY <1>2, <1>3, <1>4, <1>5 DEF Inv, Fit, Paired, CutOrWhole

LEMMA DoneKeepsInv ==
    ASSUME Inv, NEW h \in Handlers, Done(h), messages' \in Seq(Message), Fit(messages'),
           Len(messages') <= Window, pending' \in Pending \cup {NoPending}, PendingFits',
           used' \subseteq Calls
    PROVE  Inv'
<1>1. /\ at' = [at EXCEPT ![h] = "idle"] /\ work' = [work EXCEPT ![h] = << >>]
      /\ left' = [left EXCEPT ![h] = 0] /\ errors' = [errors EXCEPT ![h] = 0]
  BY DEF Done
<1>2. << >> \in Seq(Message)
  BY EmptySeq
<1>3. AgentTypeOK'
  BY <1>1, <1>2, SMT DEF Inv, AgentTypeOK
<1>4. \A g \in Handlers : Fit(work'[g])
  BY <1>1, EmptyFits, Zenon DEF Inv, AgentTypeOK
<1>5. \A g \in Handlers : at'[g] \in {"think", "follow"} => left'[g] > 0
  BY <1>1, SMT DEF Inv, AgentTypeOK
<1>6. QED BY <1>3, <1>4, <1>5 DEF Inv, Fit, Paired, CutOrWhole

LEMMA SaveKeepsInv ==
    ASSUME Inv, NEW h \in Handlers, NEW m, Fit(m), NEW p \in Pending \cup {NoPending},
           p # NoPending => ToSet(p.asked) = ToSet(p.results) \cup {p.call},
           Save(h, m, p), used' \subseteq Calls
    PROVE  Inv'
<1>1. messages' = Truncated(m) /\ pending' = p /\ Done(h)
  BY DEF Save
<1>2. Fit(messages') /\ Len(messages') <= Window
  BY <1>1, TruncatedFits
<1>3. messages' \in Seq(Message)
  BY <1>2 DEF Fit
<1>4. PendingFits'
  BY <1>1 DEF PendingFits
<1>5. QED BY <1>1, <1>2, <1>3, <1>4, DoneKeepsInv

\* The row as it was.
LEMMA DoneAloneKeepsInv ==
    ASSUME Inv, NEW h \in Handlers, Done(h), UNCHANGED <<rowVars, used>>
    PROVE  Inv'
<1>1. messages' = messages /\ pending' = pending /\ used' = used
  BY DEF rowVars
<1>2. /\ messages \in Seq(Message) /\ Fit(messages) /\ Len(messages) <= Window
      /\ pending \in Pending \cup {NoPending} /\ PendingFits /\ used \subseteq Calls
  BY DEF Inv, AgentTypeOK
<1>3. PendingFits'
  BY <1>1, <1>2 DEF PendingFits
<1>4. Fit(messages')
  BY <1>1, <1>2
<1>5. QED BY <1>1, <1>2, <1>3, <1>4, DoneKeepsInv

LEMMA MessageKeepsInv ==
    ASSUME Inv, NEW h \in Handlers, ReadMessage(h) PROVE Inv'
<1> DEFINE m == messages \o (IF pending = NoPending THEN << >> ELSE Ended(pending))
<1>0. Fit(messages) /\ messages \in Seq(Message)
  BY DEF Inv, Fit
<1>1. Fit(m)
  <2>1. CASE pending = NoPending
    BY <1>0, <2>1, SMT
  <2>2. CASE pending # NoPending
    BY <1>0, <2>2, EndedFits, Zenon DEF Inv, AgentTypeOK, PendingFits
  <2>3. QED BY <2>1, <2>2
<1>2. FromUser \in Message /\ FromUser.calls = << >> /\ FromUser.role # "tool"
  BY MessageTypes DEF FromUser
<1>3. Fit(Append(m, FromUser))
  BY <1>1, <1>2, TextFits
<1>4. m \in Seq(Message)
  BY <1>1 DEF Fit
<1>5. Begin(h, "think", m \o <<FromUser>>, MaxIterations)
  BY DEF ReadMessage
<1> HIDE DEF m
<1>6. m \o <<FromUser>> = Append(m, FromUser)
  BY <1>2, <1>4, SMT
<1>7. MaxIterations \in Nat /\ MaxIterations > 0 /\ "think" \in Awaits
  BY AgentAssumption, SMT DEF Awaits
<1>8. QED BY <1>3, <1>5, <1>6, <1>7, BeginKeepsInv

LEMMA ButtonKeepsInv ==
    ASSUME Inv, NEW h \in Handlers, Confirm(h) \/ CancelOrEdit(h) \/ Expired(h) PROVE Inv'
<1>0. Fit(messages) /\ pending # NoPending
  BY DEF Inv, Confirm, CancelOrEdit, Expired
<1>1. Fit(messages \o Ended(pending))
  BY <1>0, EndedFits, Zenon DEF Inv, AgentTypeOK, PendingFits
<1>2. {"follow", "acknowledge", "clear"} \subseteq Awaits
  BY DEF Awaits
<1>3. CASE Confirm(h)
  <2>1. MaxFollowUps \in Nat /\ MaxFollowUps > 0
    BY AgentAssumption, SMT
  <2>2. Begin(h, "follow", messages \o Ended(pending), MaxFollowUps)
    BY <1>3 DEF Confirm
  <2>3. QED BY <1>1, <1>2, <2>1, <2>2, BeginKeepsInv
<1>4. CASE CancelOrEdit(h)
  <2>1. Begin(h, "acknowledge", messages \o Ended(pending), 0)
    BY <1>4 DEF CancelOrEdit
  <2>2. QED BY <1>1, <1>2, <2>1, BeginKeepsInv
<1>5. CASE Expired(h)
  <2>1. Begin(h, "clear", messages, 0)
    BY <1>5 DEF Expired
  <2>2. QED BY <1>0, <1>2, <2>1, BeginKeepsInv
<1>6. QED BY <1>3, <1>4, <1>5

\* A text of the LLM fits after whatever a handler has.
LEMMA SayingFits ==
    ASSUME NEW m, Fit(m) PROVE Fit(Append(m, Says(<< >>)))
<1>1. << >> \in Seq(Calls)
  BY EmptySeq
<1>2. Says(<< >>) \in Message
  BY <1>1, MessageTypes
<1>3. Says(<< >>).calls = << >> /\ Says(<< >>).role # "tool"
  BY DEF Says
<1>4. QED BY <1>2, <1>3, TextFits

LEMMA AnswerKeepsInv ==
    ASSUME Inv, NEW h \in Handlers, Answer(h) PROVE Inv'
<1>1. used' \subseteq Calls /\ Fit(work[h])
  BY DEF Inv, AgentTypeOK, Answer
<1>2. Fit(Append(work[h], Says(<< >>)))
  BY <1>1, SayingFits
<1>3. CASE Save(h, Append(work[h], Says(<< >>)), NoPending)
  BY <1>1, <1>2, <1>3, SaveKeepsInv
<1>4. CASE Save(h, work[h], NoPending)
  BY <1>1, <1>4, SaveKeepsInv
<1>5. QED BY <1>3, <1>4 DEF Answer

LEMMA AcknowledgeKeepsInv ==
    ASSUME Inv, NEW h \in Handlers, Acknowledge(h) PROVE Inv'
<1>0. Fit(work[h]) /\ used \subseteq Calls
  BY DEF Inv, AgentTypeOK
<1>1. Fit(Append(work[h], Says(<< >>)))
  BY <1>0, SayingFits
<1>2. CASE Save(h, work[h], NoPending) /\ UNCHANGED used
  BY <1>0, <1>2, SaveKeepsInv
<1>3. ASSUME NEW cs \in {<< >>} \cup Responses,
             Save(h, Append(work[h], Says(StripToolCalls(Ids(cs)))), NoPending),
             used' = used \cup ToSet(Ids(cs))
      PROVE  Inv'
  <2>1. ToSet(Ids(cs)) \subseteq Calls
    <3>1. CASE cs = << >>
      BY <3>1, SMT DEF Ids, ToSet
    <3>2. QED BY <1>3, <3>1, IdsTypes
  <2>2. Save(h, Append(work[h], Says(<< >>)), NoPending)
    BY <1>3 DEF StripToolCalls
  <2>3. QED BY <1>0, <1>1, <1>3, <2>1, <2>2, SaveKeepsInv
<1>4. QED BY <1>2, <1>3 DEF Acknowledge

LEMMA ProposeKeepsInv ==
    ASSUME Inv, NEW h \in Handlers, Propose(h) PROVE Inv'
<1>0. Fit(work[h]) /\ used \subseteq Calls
  BY DEF Inv, AgentTypeOK
<1>a. PICK cs \in Responses : \E i \in Intercepted(cs) :
          /\ Save(h, work[h],
                  [call |-> cs[i].id, asked |-> Ids(cs), results |-> RemoveAt(Ids(cs), i)])
          /\ used' = used \cup ToSet(Ids(cs))
  BY DEF Propose
<1>1. PICK i \in Intercepted(cs) :
          /\ Save(h, work[h],
                  [call |-> cs[i].id, asked |-> Ids(cs), results |-> RemoveAt(Ids(cs), i)])
          /\ used' = used \cup ToSet(Ids(cs))
  BY <1>a
<1> DEFINE p == [call |-> cs[i].id, asked |-> Ids(cs), results |-> RemoveAt(Ids(cs), i)]
<1>2. i \in DOMAIN cs
  BY DEF Intercepted
<1>3. /\ Ids(cs) \in Seq(Calls) /\ i \in 1 .. Len(Ids(cs)) /\ Ids(cs)[i] = cs[i].id
      /\ ToSet(Ids(cs)) \subseteq Calls
  BY <1>2, IdsTypes
<1>4. RemoveAt(Ids(cs), i) \in Seq(Calls) /\ cs[i].id \in Calls
      /\ ToSet(Ids(cs)) = ToSet(RemoveAt(Ids(cs), i)) \cup {cs[i].id}
  <2>1. Ids(cs)[i] \in Calls
    BY <1>3, ElementOfSeq
  <2>2. QED BY <1>3, <2>1, OthersAndIntercepted
<1>5. p \in Pending /\ ToSet(p.asked) = ToSet(p.results) \cup {p.call}
  BY <1>3, <1>4 DEF Pending
<1>6. Save(h, work[h], p) /\ used' \subseteq Calls
  BY <1>0, <1>1, <1>3
<1> HIDE DEF p
<1>7. QED BY <1>0, <1>5, <1>6, SaveKeepsInv

LEMMA ToolsKeepInv ==
    ASSUME Inv, NEW h \in Handlers, UseTools(h) PROVE Inv'
<1>0. Fit(work[h]) /\ used \subseteq Calls /\ at[h] \in {"think", "follow"} /\ left[h] \in Nat
  BY DEF Inv, AgentTypeOK, UseTools
<1>1. PICK cs \in Responses, failed \in BOOLEAN :
          /\ IF left[h] = 1 \/ (at[h] = "think" /\ failed /\ errors[h] = 1)
             THEN Save(h, work[h] \o <<Says(Ids(cs))>> \o Results(Ids(cs)), NoPending)
             ELSE /\ work' = [work EXCEPT ![h] =
                                 work[h] \o <<Says(Ids(cs))>> \o Results(Ids(cs))]
                  /\ left' = [left EXCEPT ![h] = @ - 1]
                  /\ errors' = [errors EXCEPT ![h] = IF failed /\ at[h] = "think" THEN 1 ELSE 0]
                  /\ UNCHANGED <<rowVars, at>>
          /\ used' = used \cup ToSet(Ids(cs))
  BY Zenon DEF UseTools
<1> DEFINE m == work[h] \o <<Says(Ids(cs))>> \o Results(Ids(cs))
<1>2. Ids(cs) \in Seq(Calls) /\ used' \subseteq Calls
  BY <1>0, <1>1, IdsTypes
<1>3. Fit(m) /\ m \in Seq(Message)
  BY <1>0, <1>2, ToolsFit DEF Fit
<1> HIDE DEF m
<1>4. CASE left[h] = 1 \/ (at[h] = "think" /\ failed /\ errors[h] = 1)
  <2>1. Save(h, m, NoPending)
    BY <1>1, <1>4 DEF m
  <2>2. QED BY <1>2, <1>3, <2>1, SaveKeepsInv
<1>5. CASE ~(left[h] = 1 \/ (at[h] = "think" /\ failed /\ errors[h] = 1))
  <2>1. /\ work' = [work EXCEPT ![h] = m] /\ left' = [left EXCEPT ![h] = @ - 1]
        /\ errors' = [errors EXCEPT ![h] = IF failed /\ at[h] = "think" THEN 1 ELSE 0]
        /\ messages' = messages /\ pending' = pending /\ at' = at
    BY <1>1, <1>5 DEF m, rowVars
  <2>2. left[h] - 1 \in Nat /\ left[h] - 1 > 0
    BY <1>0, <1>5, SMT DEF Inv
  <2>3. AgentTypeOK'
    BY <1>2, <1>3, <2>1, <2>2, SMT DEF Inv, AgentTypeOK
  <2>4. \A g \in Handlers : Fit(work'[g])
    BY <1>3, <2>1, Zenon DEF Inv, AgentTypeOK
  <2>5. \A g \in Handlers : at'[g] \in {"think", "follow"} => left'[g] > 0
    BY <2>1, <2>2, SMT DEF Inv, AgentTypeOK
  <2>6. Fit(messages') /\ PendingFits'
    BY <2>1 DEF Inv, PendingFits
  <2>7. QED BY <2>3, <2>4, <2>5, <2>6 DEF Inv, Fit, Paired, CutOrWhole
<1>6. QED BY <1>4, <1>5

LEMMA NothingMissing ==
    ASSUME NEW m \in Seq(Message), CallsAnswered(m)
    PROVE  \A i \in DOMAIN m : Missing(m, i) = {}
<1>1. SUFFICES ASSUME NEW i \in DOMAIN m, NEW c \in ToSet(m[i].calls)
               PROVE  \E j \in i + 1 .. Len(m) : m[j].role = "tool" /\ m[j].id = c
  BY Zenon DEF Missing
<1>2. PICK j \in i + 1 .. Len(m) : m[j].id = c /\ OnlyResults(m, i + 1, j)
  BY DEF CallsAnswered
<1>3. j \in i + 1 .. j
  BY <1>1, <1>2, SMT
<1>4. QED BY <1>2, <1>3 DEF OnlyResults

LEMMA FailureKeepsInv ==
    ASSUME Inv, NEW h \in Handlers, Clear(h) \/ Fail(h) \/ NoChoice(h) \/ Repair(h) PROVE Inv'
<1>0. Fit(work[h]) /\ Fit(messages) /\ used \subseteq Calls
  BY DEF Inv, AgentTypeOK
<1>1. CASE Clear(h)
  <2>1. Save(h, work[h], NoPending) /\ used' \subseteq Calls
    BY <1>0, <1>1 DEF Clear
  <2>2. QED BY <1>0, <2>1, SaveKeepsInv
<1>2. CASE Fail(h)
  <2>1. CASE at[h] = "think"
    <3>1. /\ at' = [at EXCEPT ![h] = "repair"] /\ work' = work /\ left' = left
          /\ errors' = errors /\ messages' = messages /\ pending' = pending /\ used' = used
      BY <1>2, <2>1 DEF Fail, rowVars
    <3>2. AgentTypeOK'
      BY <3>1, SMT DEF Inv, AgentTypeOK, Awaits
    <3>3. \A g \in Handlers : at'[g] \in {"think", "follow"} => left'[g] > 0
      BY <3>1, SMT DEF Inv, AgentTypeOK
    <3>4. Fit(messages') /\ PendingFits' /\ \A g \in Handlers : Fit(work'[g])
      BY <3>1 DEF Inv, PendingFits
    <3>5. QED BY <3>2, <3>3, <3>4 DEF Inv, Fit, Paired, CutOrWhole
  <2>2. CASE at[h] # "think"
    BY <1>2, <2>2, DoneAloneKeepsInv DEF Fail, rowVars
  <2>3. QED BY <2>1, <2>2
<1>3. CASE NoChoice(h)
  BY <1>3, DoneAloneKeepsInv DEF NoChoice, rowVars
<1>4. CASE Repair(h)
  <2>1. \A i \in DOMAIN messages : Missing(messages, i) = {}
    BY <1>0, NothingMissing DEF Fit, Paired
  <2>2. Done(h) /\ UNCHANGED <<rowVars, used>>
    BY <1>4, <2>1 DEF Repair
  <2>3. QED BY <2>2, DoneAloneKeepsInv
<1>5. QED BY <1>1, <1>2, <1>3, <1>4

LEMMA ForgetKeepsInv == ASSUME Inv, Forget PROVE Inv'
<1>1. /\ messages' = << >> /\ pending' = NoPending /\ used' = used /\ at' = at
      /\ work' = work /\ left' = left /\ errors' = errors
  BY DEF Forget
<1>2. << >> \in Seq(Message) /\ Len(<< >>) = 0
  BY EmptySeq
<1>3. AgentTypeOK'
  BY <1>1, <1>2, AgentAssumption, SMT DEF Inv, AgentTypeOK
<1>4. Fit(messages') /\ PendingFits'
  BY <1>1, EmptyFits DEF PendingFits
<1>5. \A g \in Handlers : Fit(work'[g]) /\ (at'[g] \in {"think", "follow"} => left'[g] > 0)
  BY <1>1 DEF Inv
<1>6. QED BY <1>3, <1>4, <1>5 DEF Inv, Fit, Paired, CutOrWhole

-----------------------------------------------------------------------------
(* The theorems. *)

\* The invariant holds in every state.
THEOREM Invariant == AgentSpec => []Inv
<1>1. AgentInit => Inv
  <2>1. SUFFICES ASSUME AgentInit PROVE Inv
    OBVIOUS
  <2>2. << >> \in Seq(Message) /\ Len(<< >>) = 0
    BY EmptySeq
  <2>3. AgentTypeOK
    BY <2>1, <2>2, AgentAssumption, SMT DEF AgentInit, AgentTypeOK
  <2>4. Fit(messages) /\ \A h \in Handlers : Fit(work[h])
    BY <2>1, EmptyFits DEF AgentInit
  <2>5. PendingFits /\ \A h \in Handlers : at[h] \in {"think", "follow"} => left[h] > 0
    BY <2>1 DEF AgentInit, PendingFits
  <2>6. QED BY <2>3, <2>4, <2>5 DEF Inv
<1>2. Inv /\ [AgentNext]_vars => Inv'
  <2>1. SUFFICES ASSUME Inv, [AgentNext]_vars PROVE Inv'
    OBVIOUS
  <2>2. CASE UNCHANGED vars
    BY <2>1, <2>2 DEF vars, rowVars, Inv, AgentTypeOK, Fit, Paired, CutOrWhole, PendingFits,
                      CallsAnswered, ResultsAsked, OnlyResults
  <2>3. CASE AgentNext
    BY <2>1, <2>3, MessageKeepsInv, ButtonKeepsInv, AnswerKeepsInv, AcknowledgeKeepsInv,
       ProposeKeepsInv, ToolsKeepInv, FailureKeepsInv, ForgetKeepsInv DEF AgentNext
  <2>4. QED BY <2>1, <2>2, <2>3
<1>3. QED BY <1>1, <1>2, PTL DEF AgentSpec

\* The row, the handlers and the pending call have their types, and what is saved
\* is never longer than the window.
THEOREM TypeCorrect == AgentSpec => []AgentTypeOK
<1>1. Inv => AgentTypeOK
  BY DEF Inv
<1>2. QED BY <1>1, Invariant, PTL

\* What is saved, what the LLM is asked with and what a button would bring back fits
\* together: history-repository.ts, pending-tool-call.ts and loop.ts keep it so.
THEOREM TranscriptsHold == AgentSpec => []TranscriptsPaired
<1>1. Inv => TranscriptsPaired
  <2>1. SUFFICES ASSUME Inv PROVE TranscriptsPaired
    OBVIOUS
  <2>2. \A m \in {messages} \cup {work[h] : h \in Handlers} : CallsAnswered(m) /\ ResultsAsked(m)
    BY <2>1 DEF Inv, Fit, Paired
  <2>3. messages # << >> /\ messages[1].role = "tool" => Len(messages) = Window
    BY <2>1, AgentAssumption, SMT DEF Inv, AgentTypeOK, Fit, CutOrWhole
  <2>4. ASSUME pending # NoPending
        PROVE  CallsAnswered(Ended(pending)) /\ ResultsAsked(Ended(pending))
    <3>1. pending \in Pending /\ ToSet(pending.asked) = ToSet(pending.results) \cup {pending.call}
      BY <2>1, <2>4 DEF Inv, AgentTypeOK, PendingFits
    <3>2. Fit(<< >> \o Ended(pending))
      BY <3>1, EmptyFits, EndedFits
    <3>3. Ended(pending) \in Seq(Message)
      <4>1. /\ pending.asked \in Seq(Calls) /\ pending.results \in Seq(Calls)
            /\ pending.call \in Calls
        BY <3>1 DEF Pending
      <4>2. /\ Says(pending.asked) \in Message /\ Results(pending.results) \in Seq(Message)
            /\ Result(pending.call) \in Message
        BY <4>1, MessageTypes
      <4>3. QED BY <4>2, SMT DEF Ended
    <3>4. << >> \o Ended(pending) = Ended(pending)
      BY <3>3, ConcatEmptySeq
    <3>5. QED BY <3>2, <3>4 DEF Fit, Paired
  <2>5. QED BY <2>2, <2>3, <2>4 DEF TranscriptsPaired
<1>2. QED BY <1>1, Invariant, PTL

\* The catch of runAgentLoop finds no tool call without a result.
THEOREM NothingToRepair == AgentSpec => []RepairFindsNothing
<1>1. Inv => RepairFindsNothing
  BY NothingMissing DEF Inv, Fit, Paired, RepairFindsNothing
<1>2. QED BY <1>1, Invariant, PTL
=============================================================================
