------------------------ MODULE MonicaOperations_proofs ------------------------
(***************************************************************************)
(* Proofs about MonicaOperations, for any account, operations and number   *)
(* of requests and retries.                                                *)
(***************************************************************************)
EXTENDS MonicaOperations, SequenceTheorems, FiniteSetTheorems, TLAPS

\* A listing after a contact came, or went.
LEMMA Inserted ==
    ASSUME NEW S, NEW s \in Seq(S), NEW c \in S, NEW n \in Nat, n = Len(s), NEW i \in 1 .. n + 1
    PROVE  /\ Len(InsertAt(s, i, c)) = n + 1
           /\ \A k \in 1 .. n + 1 :
                 InsertAt(s, i, c)[k] = IF k < i THEN s[k] ELSE IF k = i THEN c ELSE s[k - 1]
<1> DEFINE a == SubSeq(s, 1, i - 1)
           b == SubSeq(s, i, n)
           x == a \o <<c>>
           z == x \o b
<1>0. \A j \in 1 .. n : s[j] \in S
  BY LenProperties
<1>1. a \in Seq(S) /\ Len(a) = i - 1 /\ \A j \in 1 .. i - 1 : a[j] = s[j]
  BY <1>0, SubSeqProperties
<1>2. b \in Seq(S) /\ Len(b) = n - i + 1 /\ \A j \in 1 .. n - i + 1 : b[j] = s[i + j - 1]
  BY <1>0, SubSeqProperties
<1>3. <<c>> \in Seq(S) /\ Len(<<c>>) = 1 /\ <<c>>[1] = c
  OBVIOUS
<1>4. InsertAt(s, i, c) = z
  BY DEF InsertAt
<1>5. i - 1 \in Nat /\ n - i + 1 \in Nat /\ i \in Nat
  OBVIOUS
<1> HIDE DEF a, b
<1>6. x \in Seq(S) /\ Len(x) = (i - 1) + 1
      /\ \A k \in 1 .. (i - 1) + 1 : x[k] = IF k <= i - 1 THEN a[k] ELSE <<c>>[k - (i - 1)]
  <2>1. /\ a \o <<c>> \in Seq(S) /\ Len(a \o <<c>>) = Len(a) + Len(<<c>>)
        /\ \A k \in 1 .. Len(a) + Len(<<c>>) :
              (a \o <<c>>)[k] = IF k <= Len(a) THEN a[k] ELSE <<c>>[k - Len(a)]
    BY <1>1, <1>3, ConcatProperties, Zenon
  <2> QED
    BY <1>1, <1>3, <2>1, Zenon
<1> HIDE DEF x
<1>7. z \in Seq(S) /\ Len(z) = i + (n - i + 1)
      /\ \A k \in 1 .. i + (n - i + 1) : z[k] = IF k <= i THEN x[k] ELSE b[k - i]
  <2>1. Len(x) = i
    BY <1>5, <1>6
  <2> DEFINE q == n - i + 1
  <2>2. q \in Nat /\ Len(b) = q /\ b \in Seq(S) /\ x \in Seq(S) /\ i \in Nat
    BY <1>2, <1>5, <1>6
  <2> HIDE DEF q
  <2>3. z \in Seq(S) /\ Len(z) = i + q
        /\ \A k \in 1 .. i + q : z[k] = IF k <= i THEN x[k] ELSE b[k - i]
    <3>1. /\ x \o b \in Seq(S) /\ Len(x \o b) = Len(x) + Len(b)
          /\ \A k \in 1 .. Len(x) + Len(b) : (x \o b)[k] = IF k <= Len(x) THEN x[k] ELSE b[k - Len(x)]
      BY <2>2, ConcatProperties, Zenon
    <3> QED
      BY <2>1, <2>2, <3>1, Zenon
  <2> QED
    BY <2>3 DEF q
<1> HIDE DEF z
<1>8. i + (n - i + 1) = n + 1 /\ (i - 1) + 1 = i
  OBVIOUS
<1>9. ASSUME NEW k \in 1 .. n + 1
      PROVE  z[k] = IF k < i THEN s[k] ELSE IF k = i THEN c ELSE s[k - 1]
  <2>1. z[k] = IF k <= i THEN x[k] ELSE b[k - i]
    BY <1>7, <1>8
  <2>2. CASE k < i
    <3>1. x[k] = a[k] /\ a[k] = s[k]
      <4>1. k \in 1 .. i /\ k \in 1 .. i - 1 /\ k <= i - 1
        BY <2>2
      <4> QED
        BY <1>1, <1>6, <1>8, <4>1, Zenon
    <3> QED
      BY <2>1, <2>2, <3>1
  <2>3. CASE k = i
    <3>1. i \in 1 .. (i - 1) + 1 /\ ~(i <= i - 1) /\ i - (i - 1) = 1
      OBVIOUS
    <3>2. x[i] = c
      BY <1>3, <1>6, <3>1, Zenon
    <3> QED
      BY <2>1, <2>3, <3>2
  <2>4. CASE k > i
    <3>1. k - i \in 1 .. n - i + 1 /\ i + (k - i) - 1 = k - 1
      BY <2>4
    <3>2. b[k - i] = s[k - 1]
      BY <1>2, <3>1, Zenon
    <3> QED
      BY <2>1, <2>4, <3>2
  <2> QED
    BY <2>2, <2>3, <2>4
<1> QED
  BY <1>4, <1>7, <1>8, <1>9

LEMMA Removed ==
    ASSUME NEW S, NEW s \in Seq(S), NEW n \in Nat, n = Len(s), NEW i \in 1 .. n
    PROVE  /\ Len(RemoveAt(s, i)) = n - 1
           /\ \A k \in 1 .. n - 1 : RemoveAt(s, i)[k] = IF k < i THEN s[k] ELSE s[k + 1]
<1> DEFINE a == SubSeq(s, 1, i - 1)
           b == SubSeq(s, i + 1, n)
           z == a \o b
<1>0. \A j \in 1 .. n : s[j] \in S
  BY LenProperties
<1>1. a \in Seq(S) /\ Len(a) = i - 1 /\ \A j \in 1 .. i - 1 : a[j] = s[j]
  BY <1>0, SubSeqProperties
<1>2. b \in Seq(S) /\ Len(b) = n - i /\ \A j \in 1 .. n - (i + 1) + 1 : b[j] = s[(i + 1) + j - 1]
  <2>1. \A j \in i + 1 .. n : s[j] \in S
    BY <1>0
  <2>2. /\ b \in Seq(S) /\ Len(b) = IF i + 1 <= n THEN n - (i + 1) + 1 ELSE 0
        /\ \A j \in 1 .. n - (i + 1) + 1 : b[j] = s[(i + 1) + j - 1]
    BY <2>1, SubSeqProperties
  <2> HIDE DEF b
  <2> QED
    BY <2>2
<1>3. RemoveAt(s, i) = z
  BY DEF RemoveAt
<1>4. i - 1 \in Nat /\ n - i \in Nat
  OBVIOUS
<1> HIDE DEF a, b
<1>5. /\ Len(z) = (i - 1) + (n - i)
      /\ \A k \in 1 .. (i - 1) + (n - i) : z[k] = IF k <= i - 1 THEN a[k] ELSE b[k - (i - 1)]
  <2> DEFINE p == i - 1
             q == n - i
  <2>1. p \in Nat /\ q \in Nat /\ Len(a) = p /\ Len(b) = q /\ a \in Seq(S) /\ b \in Seq(S)
    BY <1>1, <1>2, <1>4
  <2> HIDE DEF p, q
  <2>2. /\ Len(z) = p + q
        /\ \A k \in 1 .. p + q : z[k] = IF k <= p THEN a[k] ELSE b[k - p]
    <3>1. /\ a \o b \in Seq(S) /\ Len(a \o b) = Len(a) + Len(b)
          /\ \A k \in 1 .. Len(a) + Len(b) : (a \o b)[k] = IF k <= Len(a) THEN a[k] ELSE b[k - Len(a)]
      BY <2>1, ConcatProperties, Zenon
    <3> QED
      BY <2>1, <3>1, Zenon
  <2> QED
    BY <2>2 DEF p, q
<1> HIDE DEF z
<1>6. (i - 1) + (n - i) = n - 1
  OBVIOUS
<1>7. ASSUME NEW k \in 1 .. n - 1
      PROVE  z[k] = IF k < i THEN s[k] ELSE s[k + 1]
  <2>1. z[k] = IF k <= i - 1 THEN a[k] ELSE b[k - (i - 1)]
    BY <1>5, <1>6, Zenon
  <2>2. CASE k < i
    <3>1. k \in 1 .. i - 1 /\ k <= i - 1
      BY <2>2
    <3>2. a[k] = s[k]
      BY <1>1, <3>1, Zenon
    <3> QED
      BY <2>1, <2>2, <3>1, <3>2
  <2>3. CASE k >= i
    <3>1. k - (i - 1) \in 1 .. n - (i + 1) + 1 /\ (i + 1) + (k - (i - 1)) - 1 = k + 1
          /\ ~(k <= i - 1) /\ ~(k < i)
      BY <2>3
    <3>2. b[k - (i - 1)] = s[k + 1]
      BY <1>2, <3>1, Zenon
    <3> QED
      BY <2>1, <3>1, <3>2
  <2> QED
    BY <2>2, <2>3
<1> QED
  BY <1>3, <1>5, <1>6, <1>7

\* A sequence that holds nothing twice, after another that holds none of it.
LEMMA JoinedOnce ==
    ASSUME NEW S, NEW a \in Seq(S), NEW b \in Seq(S),
           IsInjective(a), IsInjective(b), ToSet(a) \cap ToSet(b) = {}
    PROVE  IsInjective(a \o b)
<1> DEFINE x == a \o b
           m == Len(a)
           n == Len(b)
<1>1. /\ m \in Nat /\ n \in Nat /\ DOMAIN a = 1 .. m /\ DOMAIN b = 1 .. n
  BY LenProperties
<1>2. /\ x \in Seq(S) /\ Len(x) = m + n
      /\ \A k \in 1 .. m + n : x[k] = IF k <= m THEN a[k] ELSE b[k - m]
  BY ConcatProperties, Zenon
<1> HIDE DEF x, m, n
<1>3. DOMAIN x = 1 .. m + n
  BY <1>2, LenProperties
<1>4. ASSUME NEW k \in 1 .. m + n
      PROVE  \/ k <= m /\ k \in DOMAIN a /\ x[k] = a[k]
             \/ k > m /\ k - m \in DOMAIN b /\ x[k] = b[k - m]
  <2>1. x[k] = IF k <= m THEN a[k] ELSE b[k - m]
    BY <1>2
  <2>2. (k <= m /\ k \in 1 .. m) \/ (k > m /\ k - m \in 1 .. n /\ ~(k <= m))
    BY <1>1
  <2> QED
    BY <1>1, <2>1, <2>2, Zenon
<1>5. ASSUME NEW k \in 1 .. m + n, NEW l \in 1 .. m + n, x[k] = x[l]
      PROVE  k = l
  <2>1. CASE k <= m /\ k \in DOMAIN a /\ x[k] = a[k] /\ l <= m /\ l \in DOMAIN a /\ x[l] = a[l]
    BY <1>5, <2>1 DEF IsInjective
  <2>2. CASE /\ k - m \in DOMAIN b /\ x[k] = b[k - m]
             /\ l - m \in DOMAIN b /\ x[l] = b[l - m]
    <3>1. k - m = l - m
      BY <1>5, <2>2, Zenon DEF IsInjective
    <3> QED
      BY <1>1, <3>1
  <2>3. \A i \in DOMAIN a, j \in DOMAIN b : a[i] # b[j]
    BY DEF ToSet
  <2> QED
    BY <1>4, <1>5, <2>1, <2>2, <2>3, Zenon
<1> QED
  BY <1>3, <1>5 DEF IsInjective, x

USE MonicaAssumption

-----------------------------------------------------------------------------
(* Listings stay sequences of contacts. *)

LEMMA InsertIsSeq ==
    ASSUME NEW S, NEW s \in Seq(S), NEW c \in S, NEW i \in 1 .. Len(s) + 1
    PROVE  InsertAt(s, i, c) \in Seq(S)
BY SubSeqProperties, ConcatProperties DEF InsertAt

LEMMA RemoveIsSeq ==
    ASSUME NEW S, NEW s \in Seq(S), NEW i \in DOMAIN s
    PROVE  RemoveAt(s, i) \in Seq(S)
BY SubSeqProperties, ConcatProperties, LenProperties DEF RemoveAt

LEMMA PageIsSeq ==
    ASSUME NEW n \in Nat \ {0}, order \in Seq(Contacts)
    PROVE  PageItems(n) \in Seq(Contacts)
<1> DEFINE m == (n - 1) * PageSize + 1
           e == IF n * PageSize < Len(order) THEN n * PageSize ELSE Len(order)
<1>1. (n - 1) * PageSize \in Nat /\ n * PageSize \in Nat
  OBVIOUS
<1>2. m \in Nat /\ m >= 1 /\ e \in Nat /\ e <= Len(order)
  BY <1>1, LenProperties
<1>3. SubSeq(order, m, e) \in Seq(Contacts)
  BY <1>2, SubSeqProperties
<1> QED
  BY <1>3 DEF PageItems

-----------------------------------------------------------------------------
(* The inductive invariant. *)

\* Only requests that write have sent anything, and nothing beyond the current
\* attempt; an update that has sent something has read the contact.
SentInv ==
    \A r \in Requests, n \in 0 .. MaxRetries :
        <<r, n>> \in wire \cup carried =>
            /\ n <= attempt[r]
            /\ phase[r] \in {"write"} \cup Answers

\* No attempt is carried out twice.
OnceInv == wire \cap carried = {}

\* What a request is waiting for fits its kind.
PhaseInv ==
    \A r \in Requests :
        /\ phase[r] # "idle" => op[r] \in Operations
        /\ phase[r] = "read" => Kind(r) \in Rewrites \cup {"read"}
        /\ phase[r] = "page" => Kind(r) = "list"
        /\ phase[r] = "write" => Kind(r) \in Writes /\ (Kind(r) \in Rewrites => seen[r] \in Record)
        /\ \A n \in 0 .. MaxRetries :
              <<r, n>> \in wire \cup carried =>
                  Kind(r) \in Writes /\ (Kind(r) \in Rewrites => seen[r] \in Record)

\* What has been heard of an attempt, and answered, is true of it.
ReplyInv ==
    \A r \in Requests :
        LET current == <<r, attempt[r]>>
        IN  /\ phase[r] = "write" /\ reply[r] = "ok" => current \in carried
            /\ phase[r] = "write" /\ reply[r] \in {"refused", "limited"} => current \notin wire \cup carried
            /\ phase[r] = "refused" => current \notin wire \cup carried
            /\ phase[r] = "ok" /\ Kind(r) \in Writes => current \in carried

\* The field f of r's contact, if it is not r's any more, was lost to another
\* update.
Overlapped(r, f) ==
    \E q \in Requests \ {r}, n \in 0 .. MaxRetries :
        /\ <<q, n>> \in carried
        /\ Kind(q) \in Rewrites /\ Target(q) = Target(r)
        /\ f \in op[q].named \cup {"birthdate"} \/ seen[q][f] # r

\* As LostOnlyToOverlap, from the moment an update is carried out.
FieldInv ==
    \A r \in Requests, m \in 0 .. MaxRetries :
        <<r, m>> \in carried /\ Kind(r) \in Rewrites /\ contact[Target(r)] # Absent =>
            \A f \in op[r].named : contact[Target(r)][f] = r \/ Overlapped(r, f)

IInv == MonicaTypeOK /\ SentInv /\ OnceInv /\ PhaseInv /\ ReplyInv /\ FieldInv

-----------------------------------------------------------------------------
(* Facts about operations. *)

LEMMA KindFacts ==
    ASSUME NEW r \in Requests, op \in [Requests -> Operations \cup {NoOperation}],
           Kind(r) # "none"
    PROVE  /\ op[r] \in Operations /\ op[r] # NoOperation
           /\ Target(r) \in Existing /\ Target(r) \in Contacts
           /\ op[r].named \subseteq Fields
BY DEF Kind, Target, Contacts

LEMMA WritesKnown ==
    ASSUME NEW r \in Requests, Kind(r) \in Writes
    PROVE  Kind(r) # "none" /\ Kind(r) # "list" /\ Kind(r) # "read"
BY DEF Writes, Rewrites

LEMMA RewritesWrite ==
    ASSUME NEW r \in Requests, Kind(r) \in Rewrites
    PROVE  Kind(r) \in Writes /\ Kind(r) # "create" /\ Kind(r) # "delete" /\ Kind(r) # "add"
BY DEF Writes, Rewrites

\* Values that a PUT leaves in a contact.
LEMMA RewrittenIsRecord ==
    ASSUME NEW r \in Requests, MonicaTypeOK, seen[r] \in Record, NEW b \in Birthdates(r)
    PROVE  Rewritten(r, b) \in Record
<1>1. b \in Values
  BY DEF Birthdates, Record, Values, Fields
<1>2. \A f \in Fields : seen[r][f] \in Values
  BY DEF Record
<1>3. r \in Values
  BY DEF Values
<1> QED
  BY <1>1, <1>2, <1>3 DEF Rewritten, Record

-----------------------------------------------------------------------------
(* Type correctness. *)

LEMMA SendType ==
    ASSUME MonicaTypeOK, NEW r \in Requests, NEW n \in 0 .. MaxRetries, Send(r, n)
    PROVE  /\ attempt' \in [Requests -> 0 .. MaxRetries]
           /\ reply' \in [Requests -> Replied]
           /\ wire' \subseteq Requests \X (0 .. MaxRetries)
<1>1. attempt' \in [Requests -> 0 .. MaxRetries]
  BY DEF Send, MonicaTypeOK
<1>2. reply' \in [Requests -> Replied]
  BY DEF Send, MonicaTypeOK, Replied
<1>3. wire' \subseteq Requests \X (0 .. MaxRetries)
  BY DEF Send, MonicaTypeOK
<1> QED
  BY <1>1, <1>2, <1>3

LEMMA AgainType ==
    ASSUME MonicaTypeOK, NEW r \in Requests, Again(r)
    PROVE  MonicaTypeOK'
<1>1. CASE attempt[r] < MaxRetries
  <2>1. attempt[r] + 1 \in 0 .. MaxRetries
    BY <1>1 DEF MonicaTypeOK
  <2>2. Send(r, attempt[r] + 1) /\ UNCHANGED <<phase, op, seen, accountVars, listVars>>
    BY <1>1 DEF Again
  <2> QED
    BY <2>1, <2>2, SendType DEF MonicaTypeOK, accountVars, listVars
<1>2. CASE ~(attempt[r] < MaxRetries)
  BY <1>2 DEF Again, Goes, MonicaTypeOK, accountVars, listVars, Answers
<1> QED
  BY <1>1, <1>2

LEMMA CarryOutType ==
    ASSUME MonicaTypeOK, PhaseInv, NEW r \in Requests, NEW n \in 0 .. MaxRetries,
           <<r, n>> \in wire, CarryOut(r, n)
    PROVE  /\ carried' \subseteq Requests \X (0 .. MaxRetries)
           /\ contact' \in [Contacts -> Record \cup {Absent}]
           /\ order' \in Seq(Contacts)
           /\ events' \in [Requests -> SUBSET {"created", "deleted"}]
<1>0. Kind(r) \in Writes /\ (Kind(r) \in Rewrites => seen[r] \in Record)
  BY DEF PhaseInv
<1>1. Target(r) \in Contacts
  BY <1>0, WritesKnown, KindFacts DEF MonicaTypeOK
<1>2. <<r, n>> \in Contacts
  BY DEF Contacts
<1>3. [f \in Fields |-> r] \in Record
  BY DEF Record, Values
<1>4. ASSUME NEW e \in {"created", "deleted"}, Happens(e)
      PROVE  events' \in [Requests -> SUBSET {"created", "deleted"}]
  BY <1>4 DEF Happens, MonicaTypeOK
<1>5. carried' \subseteq Requests \X (0 .. MaxRetries)
  BY DEF CarryOut, MonicaTypeOK
<1>6. CASE Kind(r) = "create"
  <2>1. contact' = [contact EXCEPT ![<<r, n>>] = [f \in Fields |-> r]] /\ Happens("created")
    BY <1>6 DEF CarryOut, Rewrites
  <2>2. PICK i \in 1 .. Len(order) + 1 : order' = InsertAt(order, i, <<r, n>>)
    BY <1>6 DEF CarryOut, Rewrites
  <2>3. order' \in Seq(Contacts)
    BY <2>2, <1>2, InsertIsSeq DEF MonicaTypeOK
  <2> QED
    BY <2>1, <2>3, <1>2, <1>3, <1>4, <1>5 DEF MonicaTypeOK
<1>7. CASE Kind(r) = "delete"
  <2>1. contact' = [contact EXCEPT ![Target(r)] = Absent] /\ Happens("deleted")
    BY <1>7 DEF CarryOut, Rewrites
  <2>2. PICK i \in DOMAIN order : order' = RemoveAt(order, i)
    BY <1>7 DEF CarryOut, Rewrites
  <2>3. order' \in Seq(Contacts)
    BY <2>2, RemoveIsSeq DEF MonicaTypeOK
  <2> QED
    BY <2>1, <2>3, <1>1, <1>4, <1>5 DEF MonicaTypeOK
<1>8. CASE Kind(r) = "add"
  BY <1>8, <1>5 DEF CarryOut, Rewrites, MonicaTypeOK
<1>9. CASE Kind(r) \in Rewrites
  <2>1. PICK b \in Birthdates(r) : contact' = [contact EXCEPT ![Target(r)] = Rewritten(r, b)]
    BY <1>9, RewritesWrite DEF CarryOut
  <2>2. Rewritten(r, b) \in Record
    BY <1>0, <1>9, RewrittenIsRecord
  <2>3. UNCHANGED <<order, events>>
    BY <1>9, RewritesWrite DEF CarryOut
  <2> QED
    BY <2>1, <2>2, <2>3, <1>1, <1>5 DEF MonicaTypeOK
<1> QED
  BY <1>0, <1>6, <1>7, <1>8, <1>9 DEF Writes

LEMMA RepliesType ==
    ASSUME MonicaTypeOK, NEW r \in Requests, NEW n,
           NEW A \in SUBSET {"ok", "refused", "again", "limited"}, Replies(r, n, A)
    PROVE  reply' \in [Requests -> Replied]
<1>1. CASE UNCHANGED reply
  BY <1>1 DEF MonicaTypeOK
<1>2. ASSUME NEW a \in A, reply' = [reply EXCEPT ![r] = a]
      PROVE  reply' \in [Requests -> Replied]
  BY <1>2 DEF MonicaTypeOK, Replied
<1> QED
  BY <1>1, <1>2 DEF Replies

LEMMA FetchPageType ==
    ASSUME MonicaTypeOK, NEW r \in Requests, FetchPage(r)
    PROVE  MonicaTypeOK'
<1>1. CASE GivesUp(r, "page")
  BY <1>1 DEF GivesUp, Goes, MonicaTypeOK, writeVars, accountVars, listVars, Answers
<1>2. CASE ~GivesUp(r, "page")
  <2> DEFINE pages == IF page[r] = 1 THEN Pages ELSE last[r]
  <2>1. Pages \in Nat
    <3>1. Len(order) \in Nat
      BY LenProperties DEF MonicaTypeOK
    <3>2. Len(order) + PageSize - 1 \in Nat
      BY <3>1
    <3> QED
      BY <3>2 DEF Pages
  <2>2. pages \in Nat
    BY <2>1 DEF MonicaTypeOK
  <2>3. /\ last' = [last EXCEPT ![r] = pages]
        /\ there' = [there EXCEPT ![r] = IF page[r] = 1 THEN ToSet(order) ELSE @]
        /\ UNCHANGED <<op, writeVars, accountVars, events>>
    BY <1>2 DEF FetchPage
  <2>4. ToSet(order) \subseteq Contacts
    BY DEF ToSet, MonicaTypeOK
  <2>5. /\ last' \in [Requests -> Nat]
        /\ there' \in [Requests -> SUBSET Contacts]
    BY <2>2, <2>3, <2>4 DEF MonicaTypeOK
  <2>6. CASE pages > MaxPages
    <3>1. Goes(r, "page", "failed") /\ UNCHANGED <<page, got>>
      BY <1>2, <2>6 DEF FetchPage
    <3> QED
      BY <3>1, <2>3, <2>5 DEF Goes, MonicaTypeOK, writeVars, accountVars, Answers
  <2>7. CASE ~(pages > MaxPages)
    <3>1. /\ got' = [got EXCEPT ![r] = @ \o PageItems(page[r])]
          /\ page' = [page EXCEPT ![r] = @ + 1]
          /\ Goes(r, "page", IF page[r] < pages THEN "page" ELSE "ok")
      BY <1>2, <2>7 DEF FetchPage
    <3>2. got[r] \o PageItems(page[r]) \in Seq(Contacts)
      BY PageIsSeq, ConcatProperties DEF MonicaTypeOK
    <3>3. got' \in [Requests -> Seq(Contacts)] /\ page' \in [Requests -> Nat \ {0}]
      BY <3>1, <3>2 DEF MonicaTypeOK
    <3> QED
      BY <3>1, <3>3, <2>3, <2>5 DEF Goes, MonicaTypeOK, writeVars, accountVars, Awaits, Answers
  <2> QED
    BY <2>6, <2>7
<1> QED
  BY <1>1, <1>2

LEMMA TypeStep == MonicaTypeOK /\ PhaseInv /\ [MonicaNext]_vars => MonicaTypeOK'
<1> SUFFICES ASSUME MonicaTypeOK, PhaseInv, [MonicaNext]_vars
             PROVE  MonicaTypeOK'
  OBVIOUS
<1> USE DEF requestVars, writeVars, accountVars, listVars, Awaits, Answers, Replied
<1>1. CASE UNCHANGED vars
  BY <1>1 DEF vars, MonicaTypeOK
<1>2. ASSUME NEW r \in Requests, NEW o \in Operations, Start(r, o)
      PROVE  MonicaTypeOK'
  BY <1>2 DEF Start, Goes, MonicaTypeOK
<1>3. ASSUME NEW r \in Requests, Resolve(r)
      PROVE  MonicaTypeOK'
  <2>1. CASE Send(r, 0) /\ Goes(r, "credentials", "write") /\ UNCHANGED <<op, seen, accountVars, listVars>>
    BY <2>1, SendType DEF Goes, MonicaTypeOK
  <2>2. CASE UNCHANGED <<op, writeVars, accountVars, listVars>>
    <3>1. \E to \in {"read", "write", "page", "refused", "failed"} : Goes(r, "credentials", to)
      BY <1>3 DEF Resolve, NoCredentials, GivesUp
    <3>2. phase' \in [Requests -> {"idle"} \cup Awaits \cup Answers]
      BY <3>1 DEF Goes, MonicaTypeOK, Awaits, Answers
    <3> QED
      BY <2>2, <3>2 DEF MonicaTypeOK
  <2> QED
    BY <1>3, <2>1, <2>2 DEF Resolve, NoCredentials, GivesUp
<1>4. ASSUME NEW r \in Requests, Read(r)
      PROVE  MonicaTypeOK'
  BY <1>4 DEF Read, GivesUp, Goes, MonicaTypeOK
<1>5. ASSUME NEW r \in Requests, Fetch(r)
      PROVE  MonicaTypeOK'
  <2>1. CASE GivesUp(r, "read")
    BY <2>1 DEF GivesUp, Goes, MonicaTypeOK
  <2>2. CASE ~GivesUp(r, "read")
    <3>1. Target(r) \in Contacts
      BY <1>5, RewritesWrite, WritesKnown, KindFacts DEF Fetch, MonicaTypeOK
    <3>2. contact[Target(r)] \in Record
      BY <1>5, <2>2, <3>1 DEF Fetch, MonicaTypeOK
    <3>3. /\ Goes(r, "read", "write") /\ Send(r, 0)
          /\ seen' = [seen EXCEPT ![r] = contact[Target(r)]]
          /\ UNCHANGED <<op, accountVars, listVars>>
      BY <1>5, <2>2 DEF Fetch
    <3>4. seen' \in [Requests -> Record \cup {Absent}]
      BY <3>2, <3>3 DEF MonicaTypeOK
    <3>5. 0 \in 0 .. MaxRetries
      BY MonicaAssumption
    <3>6. phase' \in [Requests -> {"idle"} \cup Awaits \cup Answers]
      BY <3>3 DEF Goes, MonicaTypeOK, Awaits
    <3> QED
      BY <3>3, <3>4, <3>5, <3>6, SendType DEF MonicaTypeOK
  <2> QED
    BY <2>1, <2>2
<1>6. ASSUME NEW r \in Requests, NEW n \in 0 .. MaxRetries, Reach(r, n)
      PROVE  MonicaTypeOK'
  <2>1. /\ UNCHANGED <<requestVars, seen, attempt, page, last, got, there>>
        /\ wire' = wire \ {<<r, n>>} /\ <<r, n>> \in wire
    BY <1>6 DEF Reach
  <2>2. CASE CarryOut(r, n) /\ Replies(r, n, {"ok", "again"})
    BY <2>1, <2>2, CarryOutType, RepliesType DEF MonicaTypeOK
  <2>3. CASE Replies(r, n, {"refused", "again", "limited"}) /\ UNCHANGED <<accountVars, events>>
    BY <2>1, <2>3, RepliesType DEF MonicaTypeOK
  <2> QED
    BY <1>6, <2>2, <2>3 DEF Reach
<1>7. ASSUME NEW r \in Requests, TimeOut(r)
      PROVE  MonicaTypeOK'
  BY <1>7, AgainType DEF TimeOut
<1>8. ASSUME NEW r \in Requests, Hear(r)
      PROVE  MonicaTypeOK'
  BY <1>8, AgainType DEF Hear, Goes, MonicaTypeOK
<1>9. ASSUME NEW r \in Requests, FetchPage(r)
      PROVE  MonicaTypeOK'
  BY <1>9, FetchPageType
<1> QED
  BY <1>1, <1>2, <1>3, <1>4, <1>5, <1>6, <1>7, <1>8, <1>9 DEF MonicaNext

-----------------------------------------------------------------------------
(* The other parts of the invariant. *)

Control == SentInv /\ OnceInv /\ PhaseInv /\ ReplyInv

\* A request that has sent nothing goes on, or is given up.
LEMMA QuietStep ==
    ASSUME IInv, NEW r \in Requests,
           phase[r] \notin {"write"} \cup Answers,
           UNCHANGED <<op, writeVars, carried>>,
           NEW to \in {"credentials", "read", "page", "ok", "refused", "failed"},
           phase' = [phase EXCEPT ![r] = to],
           op[r] \in Operations,
           to = "read" => Kind(r) \in Rewrites \cup {"read"},
           to = "page" => Kind(r) = "list",
           to = "ok" => Kind(r) \notin Writes
    PROVE  Control'
<1> USE DEF IInv, writeVars, MonicaTypeOK
<1>1. \A n \in 0 .. MaxRetries : <<r, n>> \notin wire \cup carried
  BY DEF SentInv
<1>2. \A q \in Requests : Kind(q)' = Kind(q)
  BY DEF Kind
<1>3. SentInv'
  BY <1>1 DEF SentInv
<1>4. OnceInv'
  BY DEF OnceInv
<1>5. PhaseInv'
  BY <1>1, <1>2 DEF PhaseInv
<1>6. attempt[r] \in 0 .. MaxRetries
  OBVIOUS
<1>7. ReplyInv'
  BY <1>1, <1>2, <1>6 DEF ReplyInv
<1> QED
  BY <1>3, <1>4, <1>5, <1>7 DEF Control

\* A new attempt, which nothing is known of.
LEMMA SendStep ==
    ASSUME IInv, NEW r \in Requests, NEW n \in 0 .. MaxRetries,
           Send(r, n), phase' = [phase EXCEPT ![r] = "write"],
           UNCHANGED <<op, carried>>,
           seen' = seen \/ \A m \in 0 .. MaxRetries : <<r, m>> \notin wire \cup carried,
           \A q \in Requests \ {r} : seen'[q] = seen[q],
           \A m \in 0 .. MaxRetries : <<r, m>> \in wire \cup carried => m < n,
           op[r] \in Operations, Kind(r) \in Writes,
           Kind(r) \in Rewrites => seen'[r] \in Record
    PROVE  Control'
<1> USE DEF IInv, MonicaTypeOK
<1>0. /\ attempt' = [attempt EXCEPT ![r] = n]
      /\ reply' = [reply EXCEPT ![r] = "none"]
      /\ wire' = wire \cup {<<r, n>>}
  BY DEF Send
<1>1. <<r, n>> \notin wire \cup carried
  OBVIOUS
<1>2. \A q \in Requests : Kind(q)' = Kind(q)
  BY DEF Kind
<1>3. SentInv'
  <2> SUFFICES ASSUME NEW q \in Requests, NEW m \in 0 .. MaxRetries, <<q, m>> \in wire' \cup carried'
               PROVE  m <= attempt'[q] /\ phase'[q] \in {"write"} \cup Answers
    BY DEF SentInv
  <2>1. CASE q = r
    BY <1>0, <2>1
  <2>2. CASE q # r
    BY <1>0, <2>2 DEF SentInv
  <2> QED
    BY <2>1, <2>2
<1>4. OnceInv'
  BY <1>0, <1>1 DEF OnceInv
<1>5. PhaseInv'
  <2> SUFFICES ASSUME NEW q \in Requests
               PROVE  /\ phase'[q] # "idle" => op'[q] \in Operations
                      /\ phase'[q] = "read" => Kind(q)' \in Rewrites \cup {"read"}
                      /\ phase'[q] = "page" => Kind(q)' = "list"
                      /\ phase'[q] = "write" =>
                            Kind(q)' \in Writes /\ (Kind(q)' \in Rewrites => seen'[q] \in Record)
                      /\ \A m \in 0 .. MaxRetries :
                            <<q, m>> \in wire' \cup carried' =>
                                Kind(q)' \in Writes /\ (Kind(q)' \in Rewrites => seen'[q] \in Record)
    BY DEF PhaseInv
  <2>1. CASE q = r
    BY <1>2, <2>1
  <2>2. CASE q # r
    BY <1>0, <1>2, <2>2 DEF PhaseInv
  <2> QED
    BY <2>1, <2>2
<1>6. ReplyInv'
  <2> SUFFICES ASSUME NEW q \in Requests
               PROVE  LET current == <<q, attempt'[q]>>
                      IN  /\ phase'[q] = "write" /\ reply'[q] = "ok" => current \in carried'
                          /\ phase'[q] = "write" /\ reply'[q] \in {"refused", "limited"} => current \notin wire' \cup carried'
                          /\ phase'[q] = "refused" => current \notin wire' \cup carried'
                          /\ phase'[q] = "ok" /\ Kind(q)' \in Writes => current \in carried'
    BY DEF ReplyInv
  <2>1. CASE q = r
    BY <1>0, <2>1
  <2>2. CASE q # r
    <3>1. attempt'[q] = attempt[q] /\ phase'[q] = phase[q] /\ reply'[q] = reply[q]
      BY <1>0, <2>2
    <3> QED
      BY <1>0, <1>2, <2>2, <3>1 DEF ReplyInv
  <2> QED
    BY <2>1, <2>2
<1> QED
  BY <1>3, <1>4, <1>5, <1>6 DEF Control

\* An attempt reaches MonicaHQ.
LEMMA ReachStep ==
    ASSUME IInv, NEW r \in Requests, NEW n \in 0 .. MaxRetries, Reach(r, n)
    PROVE  Control'
<1> USE DEF IInv, MonicaTypeOK
<1>0. /\ UNCHANGED <<phase, op, seen, attempt>>
      /\ wire' = wire \ {<<r, n>>} /\ <<r, n>> \in wire
  BY DEF Reach, requestVars
<1>1. carried' = carried \/ carried' = carried \cup {<<r, n>>}
  BY DEF Reach, CarryOut, accountVars
<1>2. \A q \in Requests : Kind(q)' = Kind(q)
  BY <1>0 DEF Kind
<1>3. SentInv'
  BY <1>0, <1>1 DEF SentInv
<1>4. OnceInv'
  BY <1>0, <1>1 DEF OnceInv
<1>5. PhaseInv'
  BY <1>0, <1>1, <1>2 DEF PhaseInv
<1>6. ReplyInv'
  <2>1. \A q \in Requests : reply'[q] # reply[q] =>
            q = r /\ attempt[r] = n /\ reply'[r] \in {"ok", "again", "refused", "limited"}
    BY DEF Reach, Replies
  <2>2. reply'[r] # reply[r] /\ reply'[r] = "ok" => <<r, n>> \in carried'
    BY DEF Reach, Replies, CarryOut
  <2>3. reply'[r] # reply[r] /\ reply'[r] \in {"refused", "limited"} => carried' = carried
    BY DEF Reach, Replies, accountVars
  <2>4. <<r, n>> \notin carried
    BY <1>0 DEF OnceInv
  <2>5. phase[r] = "refused" => attempt[r] # n
    BY <1>0 DEF ReplyInv
  <2>6. phase[r] = "write" /\ reply[r] \in {"refused", "limited"} => attempt[r] # n
    BY <1>0 DEF ReplyInv
  <2> SUFFICES ASSUME NEW q \in Requests
               PROVE  LET current == <<q, attempt[q]>>
                      IN  /\ phase[q] = "write" /\ reply'[q] = "ok" => current \in carried'
                          /\ phase[q] = "write" /\ reply'[q] \in {"refused", "limited"} => current \notin wire' \cup carried'
                          /\ phase[q] = "refused" => current \notin wire' \cup carried'
                          /\ phase[q] = "ok" /\ Kind(q) \in Writes => current \in carried'
    BY <1>0, <1>2 DEF ReplyInv
  <2>7. phase[q] = "write" /\ reply'[q] = "ok" => <<q, attempt[q]>> \in carried'
    BY <1>1, <2>1, <2>2 DEF ReplyInv
  <2>8. phase[q] = "write" /\ reply'[q] \in {"refused", "limited"} => <<q, attempt[q]>> \notin wire' \cup carried'
    <3> SUFFICES ASSUME phase[q] = "write", reply'[q] \in {"refused", "limited"}
                 PROVE  <<q, attempt[q]>> \notin wire' \cup carried'
      OBVIOUS
    <3>1. CASE reply'[q] = reply[q]
      <4>1. <<q, attempt[q]>> \notin wire \cup carried
        BY <3>1 DEF ReplyInv
      <4>2. <<q, attempt[q]>> # <<r, n>>
        BY <1>0, <4>1
      <4> QED
        BY <1>0, <1>1, <4>1, <4>2
    <3>2. CASE reply'[q] # reply[q]
      <4>1. q = r /\ attempt[q] = n
        BY <2>1, <3>2
      <4>2. carried' = carried
        BY <2>3, <3>2, <4>1
      <4> QED
        BY <1>0, <2>4, <4>1, <4>2
    <3> QED
      BY <3>1, <3>2
  <2>9. phase[q] = "refused" => <<q, attempt[q]>> \notin wire' \cup carried'
    BY <1>0, <1>1, <2>5 DEF ReplyInv
  <2>10. phase[q] = "ok" /\ Kind(q) \in Writes => <<q, attempt[q]>> \in carried'
    BY <1>1 DEF ReplyInv
  <2> QED
    BY <2>7, <2>8, <2>9, <2>10
<1> QED
  BY <1>3, <1>4, <1>5, <1>6 DEF Control

\* A write is answered.
LEMMA AnswerStep ==
    ASSUME IInv, NEW r \in Requests, phase[r] = "write", NEW to \in Answers,
           phase' = [phase EXCEPT ![r] = to],
           UNCHANGED <<op, writeVars, carried>>,
           to = "ok" => reply[r] = "ok",
           to = "refused" => reply[r] \in {"refused", "limited"}
    PROVE  Control'
<1> USE DEF IInv, MonicaTypeOK, writeVars, Answers
<1>1. \A q \in Requests : Kind(q)' = Kind(q)
  BY DEF Kind
<1>2. SentInv'
  BY DEF SentInv
<1>3. OnceInv'
  BY DEF OnceInv
<1>4. PhaseInv'
  BY <1>1 DEF PhaseInv
<1>5. ReplyInv'
  BY <1>1 DEF ReplyInv
<1> QED
  BY <1>2, <1>3, <1>4, <1>5 DEF Control

LEMMA AgainStep ==
    ASSUME IInv, NEW r \in Requests, Again(r)
    PROVE  Control'
<1> USE DEF IInv
<1>1. phase[r] = "write" /\ attempt[r] \in 0 .. MaxRetries
  BY DEF Again, MonicaTypeOK
<1>2. CASE attempt[r] < MaxRetries
  <2>1. Send(r, attempt[r] + 1) /\ UNCHANGED <<phase, op, seen, accountVars>>
    BY <1>2 DEF Again
  <2>2. phase' = [phase EXCEPT ![r] = "write"]
    BY <1>1, <2>1 DEF MonicaTypeOK
  <2>3. \A m \in 0 .. MaxRetries : <<r, m>> \in wire \cup carried => m < attempt[r] + 1
    BY <1>1 DEF SentInv
  <2>4. op[r] \in Operations /\ Kind(r) \in Writes /\ (Kind(r) \in Rewrites => seen'[r] \in Record)
    BY <1>1, <2>1 DEF PhaseInv
  <2>5. attempt[r] + 1 \in 0 .. MaxRetries
    BY <1>1, <1>2
  <2> QED
    BY <2>1, <2>2, <2>3, <2>4, <2>5, SendStep DEF accountVars
<1>3. CASE ~(attempt[r] < MaxRetries)
  BY <1>1, <1>3, AnswerStep DEF Again, Goes, Answers, writeVars, accountVars
<1> QED
  BY <1>2, <1>3

LEMMA ControlStep == IInv /\ [MonicaNext]_vars => Control'
<1> SUFFICES ASSUME IInv, [MonicaNext]_vars
             PROVE  Control'
  OBVIOUS
<1> USE DEF IInv, Goes
<1>1. CASE UNCHANGED vars
  BY <1>1 DEF vars, requestVars, writeVars, accountVars, Control, SentInv, OnceInv, PhaseInv, ReplyInv, Kind
<1>2. ASSUME NEW r \in Requests, NEW o \in Operations, Start(r, o)
      PROVE  Control'
  <2>0. /\ phase[r] = "idle" /\ phase' = [phase EXCEPT ![r] = "credentials"]
        /\ op' = [op EXCEPT ![r] = o]
        /\ UNCHANGED <<seen, attempt, reply, wire, carried>>
    BY <1>2 DEF Start, writeVars, accountVars
  <2>1. \A n \in 0 .. MaxRetries : <<r, n>> \notin wire \cup carried
    BY <2>0 DEF SentInv, Answers
  <2>2. \A q \in Requests \ {r} : Kind(q)' = Kind(q)
    BY <2>0 DEF Kind, MonicaTypeOK
  <2>3. SentInv'
    BY <2>0, <2>1 DEF SentInv, MonicaTypeOK
  <2>4. OnceInv'
    BY <2>0 DEF OnceInv
  <2>5. PhaseInv'
    BY <2>0, <2>1, <2>2 DEF PhaseInv, MonicaTypeOK
  <2>6. ReplyInv'
    BY <2>0, <2>1, <2>2 DEF ReplyInv, MonicaTypeOK
  <2> QED
    BY <2>3, <2>4, <2>5, <2>6 DEF Control
<1>3. ASSUME NEW r \in Requests, NEW from \in {"credentials", "read", "page"}, GivesUp(r, from)
      PROVE  Control'
  <2>1. /\ phase[r] = from /\ UNCHANGED <<op, writeVars, carried>>
        /\ phase' = [phase EXCEPT ![r] = "refused"] \/ phase' = [phase EXCEPT ![r] = "failed"]
    BY <1>3 DEF GivesUp, accountVars
  <2>2. op[r] \in Operations /\ phase[r] \notin {"write"} \cup Answers
    BY <2>1 DEF PhaseInv, Answers
  <2> QED
    BY <2>1, <2>2, QuietStep
<1>4. ASSUME NEW r \in Requests, Resolve(r)
      PROVE  Control'
  <2>1. CASE Kind(r) \in Rewrites \cup {"read"} /\ Goes(r, "credentials", "read")
               /\ UNCHANGED <<op, writeVars, accountVars, listVars>>
    BY <2>1, QuietStep DEF PhaseInv, Answers, accountVars
  <2>2. CASE Kind(r) \in Writes \ Rewrites /\ Goes(r, "credentials", "write") /\ Send(r, 0)
               /\ UNCHANGED <<op, seen, accountVars, listVars>>
    <3>1. \A m \in 0 .. MaxRetries : <<r, m>> \notin wire \cup carried
      BY <2>2 DEF SentInv, Answers
    <3>2. op[r] \in Operations
      BY <2>2 DEF PhaseInv
    <3>3. 0 \in 0 .. MaxRetries
      OBVIOUS
    <3> QED
      BY <2>2, <3>1, <3>2, <3>3, SendStep DEF accountVars
  <2>3. CASE Kind(r) = "list" /\ Goes(r, "credentials", "page")
               /\ UNCHANGED <<op, writeVars, accountVars, listVars>>
    BY <2>3, QuietStep DEF PhaseInv, Answers, accountVars
  <2>4. CASE GivesUp(r, "credentials")
    BY <2>4, <1>3
  <2> QED
    BY <1>4, <2>1, <2>2, <2>3, <2>4 DEF Resolve, NoCredentials
<1>5. ASSUME NEW r \in Requests, Read(r)
      PROVE  Control'
  <2>1. CASE Goes(r, "read", "ok") /\ UNCHANGED <<op, writeVars, accountVars, listVars>>
    <3>1. Kind(r) \notin Writes
      BY <1>5 DEF Read, Writes, Rewrites
    <3> QED
      BY <2>1, <3>1, QuietStep DEF PhaseInv, Answers, accountVars
  <2> QED
    BY <1>3, <1>5, <2>1 DEF Read
<1>6. ASSUME NEW r \in Requests, Fetch(r)
      PROVE  Control'
  <2>1. CASE GivesUp(r, "read")
    BY <2>1, <1>3
  <2>2. CASE ~GivesUp(r, "read")
    <3>1. /\ Kind(r) \in Rewrites /\ contact[Target(r)] # Absent
          /\ Goes(r, "read", "write") /\ Send(r, 0)
          /\ seen' = [seen EXCEPT ![r] = contact[Target(r)]]
          /\ UNCHANGED <<op, accountVars, listVars>>
      BY <1>6, <2>2 DEF Fetch
    <3>2. \A m \in 0 .. MaxRetries : <<r, m>> \notin wire \cup carried
      BY <3>1 DEF SentInv, Answers
    <3>3. op[r] \in Operations /\ Kind(r) \in Writes
      BY <3>1, RewritesWrite DEF PhaseInv
    <3>4. contact[Target(r)] \in Record
      BY <3>1, RewritesWrite, WritesKnown, KindFacts DEF MonicaTypeOK
    <3>5. seen'[r] \in Record /\ \A q \in Requests \ {r} : seen'[q] = seen[q]
      BY <3>1, <3>4 DEF MonicaTypeOK
    <3>6. 0 \in 0 .. MaxRetries
      OBVIOUS
    <3> QED
      BY <3>1, <3>2, <3>3, <3>5, <3>6, SendStep DEF accountVars
  <2> QED
    BY <2>1, <2>2
<1>7. ASSUME NEW r \in Requests, NEW n \in 0 .. MaxRetries, Reach(r, n)
      PROVE  Control'
  BY <1>7, ReachStep
<1>8. ASSUME NEW r \in Requests, TimeOut(r)
      PROVE  Control'
  BY <1>8, AgainStep DEF TimeOut
<1>9. ASSUME NEW r \in Requests, Hear(r)
      PROVE  Control'
  <2>1. CASE reply[r] \in {"again", "limited"} /\ Again(r)
    BY <2>1, AgainStep
  <2>2. CASE ~(reply[r] \in {"again", "limited"} /\ Again(r))
    <3>1. UNCHANGED <<op, writeVars, carried>> /\ phase[r] = "write"
      BY <1>9, <2>2 DEF Hear, accountVars
    <3>2. \E to \in Answers : /\ phase' = [phase EXCEPT ![r] = to]
                              /\ to = "ok" => reply[r] = "ok"
                              /\ to = "refused" => reply[r] \in {"refused", "limited"}
      BY <1>9, <2>2 DEF Hear, Answers
    <3> QED
      BY <3>1, <3>2, AnswerStep
  <2> QED
    BY <2>1, <2>2
<1>10. ASSUME NEW r \in Requests, FetchPage(r)
       PROVE  Control'
  <2>1. CASE GivesUp(r, "page")
    BY <2>1, <1>3
  <2>2. CASE ~GivesUp(r, "page")
    <3>1. phase[r] = "page" /\ UNCHANGED <<op, writeVars, carried>>
      BY <1>10, <2>2 DEF FetchPage, accountVars
    <3>2. \E to \in {"page", "ok", "failed"} : phase' = [phase EXCEPT ![r] = to]
      BY <1>10, <2>2 DEF FetchPage
    <3>3. Kind(r) = "list" /\ op[r] \in Operations /\ Kind(r) \notin Writes
      BY <3>1 DEF PhaseInv, Writes, Rewrites
    <3> QED
      BY <3>1, <3>2, <3>3, QuietStep DEF Answers
  <2> QED
    BY <2>1, <2>2
<1> QED
  BY <1>1, <1>2, <1>4, <1>5, <1>6, <1>7, <1>8, <1>9, <1>10 DEF MonicaNext

-----------------------------------------------------------------------------
(* What becomes of a field. *)

\* Nothing is carried out, and what was keeps its request.
LEMMA NothingCarriedStep ==
    ASSUME FieldInv, UNCHANGED <<contact, carried>>,
           \A q \in Requests, n \in 0 .. MaxRetries :
               <<q, n>> \in carried => op'[q] = op[q] /\ seen'[q] = seen[q]
    PROVE  FieldInv'
<1>1. \A q \in Requests, n \in 0 .. MaxRetries :
          <<q, n>> \in carried => /\ op'[q] = op[q] /\ seen'[q] = seen[q]
                                  /\ Kind(q)' = Kind(q) /\ Target(q)' = Target(q)
  BY DEF Kind, Target
<1> SUFFICES ASSUME NEW r \in Requests, NEW m \in 0 .. MaxRetries,
                    <<r, m>> \in carried, Kind(r) \in Rewrites, contact[Target(r)] # Absent,
                    NEW f \in op[r].named, contact[Target(r)][f] # r
             PROVE  Overlapped(r, f)'
  BY <1>1 DEF FieldInv
<1>2. PICK q \in Requests \ {r}, n \in 0 .. MaxRetries :
           /\ <<q, n>> \in carried
           /\ Kind(q) \in Rewrites /\ Target(q) = Target(r)
           /\ f \in op[q].named \cup {"birthdate"} \/ seen[q][f] # r
  BY DEF FieldInv, Overlapped
<1>3. Kind(q)' \in Rewrites /\ Target(q)' = Target(r)' /\ seen'[q] = seen[q] /\ op'[q] = op[q]
  BY <1>1, <1>2
<1>4. <<q, n>> \in carried'
  BY <1>1, <1>2
<1> QED
  BY <1>2, <1>3, <1>4 DEF Overlapped

\* An attempt is carried out.
LEMMA CarryOutStep ==
    ASSUME IInv, NEW c \in Requests, NEW k \in 0 .. MaxRetries,
           <<c, k>> \in wire, CarryOut(c, k), UNCHANGED <<op, seen>>
    PROVE  FieldInv'
<1> USE DEF IInv, MonicaTypeOK
<1>0. carried' = carried \cup {<<c, k>>}
  BY DEF CarryOut
<1>1. Kind(c) \in Writes /\ (Kind(c) \in Rewrites => seen[c] \in Record)
  BY DEF PhaseInv
<1>2. \A q \in Requests : Kind(q)' = Kind(q) /\ Target(q)' = Target(q)
  BY DEF Kind, Target
<1>3. \A r \in Requests, f \in Fields : Overlapped(r, f) => Overlapped(r, f)'
  <2> SUFFICES ASSUME NEW r \in Requests, NEW f \in Fields, Overlapped(r, f)
               PROVE  Overlapped(r, f)'
    OBVIOUS
  <2>1. PICK q \in Requests \ {r}, n \in 0 .. MaxRetries :
             /\ <<q, n>> \in carried
             /\ Kind(q) \in Rewrites /\ Target(q) = Target(r)
             /\ f \in op[q].named \cup {"birthdate"} \/ seen[q][f] # r
    BY DEF Overlapped
  <2> QED
    BY <1>0, <1>2, <2>1 DEF Overlapped
<1>4. Target(c) \in Existing /\ op[c].named \subseteq Fields
  BY <1>1, WritesKnown, KindFacts
<1> SUFFICES ASSUME NEW r \in Requests, NEW m \in 0 .. MaxRetries,
                    <<r, m>> \in carried', Kind(r) \in Rewrites, contact'[Target(r)] # Absent,
                    NEW f \in op[r].named
             PROVE  contact'[Target(r)][f] = r \/ Overlapped(r, f)'
  BY <1>2 DEF FieldInv
<1>5. Target(r) \in Existing /\ f \in Fields
  BY RewritesWrite, WritesKnown, KindFacts
<1>6. CASE contact'[Target(r)] = contact[Target(r)] /\ r # c
  <2>1. <<r, m>> \in carried
    BY <1>0, <1>6
  <2>2. contact[Target(r)][f] = r \/ Overlapped(r, f)
    BY <1>6, <2>1 DEF FieldInv
  <2> QED
    BY <1>3, <1>5, <1>6, <2>2
<1>7. CASE Kind(c) \in Rewrites
  <2>1. PICK b \in Birthdates(c) : contact' = [contact EXCEPT ![Target(c)] = Rewritten(c, b)]
    BY <1>7, RewritesWrite DEF CarryOut
  <2>2. CASE r = c
    <3>1. contact'[Target(r)] = Rewritten(c, b)
      BY <1>4, <2>1, <2>2 DEF Contacts
    <3>2. Rewritten(c, b)[f] = r
      BY <1>5, <2>2 DEF Rewritten, Birthdates
    <3> QED
      BY <3>1, <3>2
  <2>3. CASE r # c /\ Target(r) = Target(c)
    <3>1. contact'[Target(r)] = Rewritten(c, b)
      BY <1>4, <2>1, <2>3 DEF Contacts
    <3>2. CASE f \in op[c].named \cup {"birthdate"} \/ seen[c][f] # r
      BY <1>0, <1>2, <1>7, <2>3, <3>2 DEF Overlapped
    <3>3. CASE f \notin op[c].named \cup {"birthdate"} /\ seen[c][f] = r
      BY <1>5, <3>1, <3>3 DEF Rewritten
    <3> QED
      BY <3>2, <3>3
  <2>4. CASE Target(r) # Target(c)
    BY <1>6, <2>1, <2>4
  <2> QED
    BY <2>2, <2>3, <2>4
<1>8. CASE Kind(c) \notin Rewrites
  <2>1. r # c
    BY <1>8
  <2>2. <<c, k>> \notin Existing
    OBVIOUS
  <2>3. contact'[Target(r)] = contact[Target(r)]
    <3>1. CASE Kind(c) = "create"
      <4>1. contact' = [contact EXCEPT ![<<c, k>>] = [g \in Fields |-> c]]
        BY <1>8, <3>1 DEF CarryOut
      <4> QED
        BY <1>5, <2>2, <4>1
    <3>2. CASE Kind(c) = "delete"
      <4>1. contact' = [contact EXCEPT ![Target(c)] = Absent]
        BY <1>8, <3>2 DEF CarryOut
      <4> QED
        BY <1>5, <4>1 DEF Contacts
    <3>3. CASE Kind(c) = "add"
      BY <1>8, <3>3 DEF CarryOut
    <3> QED
      BY <1>1, <1>8, <3>1, <3>2, <3>3 DEF Writes
  <2> QED
    BY <1>6, <2>1, <2>3
<1> QED
  BY <1>7, <1>8

LEMMA FieldStep == IInv /\ [MonicaNext]_vars => FieldInv'
<1> SUFFICES ASSUME IInv, [MonicaNext]_vars
             PROVE  FieldInv'
  OBVIOUS
<1> USE DEF IInv, Goes, MonicaTypeOK, writeVars, accountVars
<1>1. CASE UNCHANGED vars
  BY <1>1, NothingCarriedStep DEF vars, requestVars
<1>2. ASSUME NEW r \in Requests, NEW o \in Operations, Start(r, o)
      PROVE  FieldInv'
  <2>1. \A n \in 0 .. MaxRetries : <<r, n>> \notin carried
    BY <1>2 DEF Start, SentInv, Answers
  <2>2. \A q \in Requests \ {r} : op'[q] = op[q] /\ seen'[q] = seen[q]
    BY <1>2 DEF Start
  <2> QED
    BY <1>2, <2>1, <2>2, NothingCarriedStep DEF Start
<1>3. ASSUME NEW r \in Requests, Resolve(r) \/ Read(r) \/ TimeOut(r) \/ Hear(r) \/ FetchPage(r)
      PROVE  FieldInv'
  <2>1. UNCHANGED <<op, seen, contact, carried>>
    BY <1>3 DEF Resolve, NoCredentials, Read, GivesUp, TimeOut, Again, Hear, FetchPage
  <2> QED
    BY <2>1, NothingCarriedStep
<1>4. ASSUME NEW r \in Requests, Fetch(r)
      PROVE  FieldInv'
  <2>1. \A n \in 0 .. MaxRetries : <<r, n>> \notin carried
    BY <1>4 DEF Fetch, GivesUp, SentInv, Answers
  <2>2. UNCHANGED <<op, contact, carried>> /\ \A q \in Requests \ {r} : seen'[q] = seen[q]
    BY <1>4 DEF Fetch, GivesUp
  <2> QED
    BY <2>1, <2>2, NothingCarriedStep
<1>5. ASSUME NEW r \in Requests, NEW n \in 0 .. MaxRetries, Reach(r, n)
      PROVE  FieldInv'
  <2>1. UNCHANGED <<op, seen>> /\ <<r, n>> \in wire
    BY <1>5 DEF Reach, requestVars
  <2>2. CASE CarryOut(r, n)
    BY <2>1, <2>2, CarryOutStep
  <2>3. CASE ~CarryOut(r, n)
    <3>1. UNCHANGED <<contact, carried>>
      BY <1>5, <2>3 DEF Reach
    <3> QED
      BY <2>1, <3>1, NothingCarriedStep
  <2> QED
    BY <2>2, <2>3
<1> QED
  BY <1>1, <1>2, <1>3, <1>4, <1>5 DEF MonicaNext

-----------------------------------------------------------------------------
(* The theorems. *)

LEMMA InitInv == MonicaInit => IInv
<1> SUFFICES ASSUME MonicaInit
             PROVE  IInv
  OBVIOUS
<1>1. MonicaTypeOK
  <2>1. Initial \in Values /\ [f \in Fields |-> Initial] \in Record
    BY DEF Record, Values
  <2>2. Account \in Seq(Contacts)
    BY DEF Contacts
  <2> QED
    BY <2>1, <2>2 DEF MonicaInit, MonicaTypeOK, Replied
<1> QED
  BY <1>1 DEF MonicaInit, IInv, SentInv, OnceInv, PhaseInv, ReplyInv, FieldInv

THEOREM Invariant == MonicaSpec => []IInv
<1>1. IInv /\ [MonicaNext]_vars => IInv'
  BY TypeStep, ControlStep, FieldStep DEF IInv, Control
<1> QED
  BY InitInv, <1>1, PTL DEF MonicaSpec

\* The account, the listings and the requests keep their types: an update sends
\* a whole contact, made of what was read and what was asked for.
THEOREM TypeCorrect == MonicaSpec => []MonicaTypeOK
<1>1. IInv => MonicaTypeOK
  BY DEF IInv
<1> QED
  BY Invariant, <1>1, PTL

\* The answers of monica-integration are true of what MonicaHQ did, whatever is
\* lost, late or repeated between them.
THEOREM AnswersHold == MonicaSpec => []AnswersTruthful
<1>1. IInv => AnswersTruthful
  <2> SUFFICES ASSUME IInv, NEW r \in Requests
               PROVE  /\ phase[r] = "ok" /\ Kind(r) \in Writes =>
                             \E n \in 0 .. attempt[r] : <<r, n>> \in carried
                      /\ phase[r] = "refused" /\ attempt[r] = 0 => <<r, 0>> \notin carried
                      /\ \A n \in 0 .. MaxRetries : <<r, n>> \in carried => n <= attempt[r]
    BY DEF AnswersTruthful
  <2>1. attempt[r] \in 0 .. MaxRetries /\ attempt[r] \in 0 .. attempt[r]
    BY DEF IInv, MonicaTypeOK
  <2>2. phase[r] = "ok" /\ Kind(r) \in Writes => <<r, attempt[r]>> \in carried
    BY DEF IInv, ReplyInv
  <2>3. phase[r] = "refused" => <<r, attempt[r]>> \notin carried
    BY DEF IInv, ReplyInv
  <2>4. \A n \in 0 .. MaxRetries : <<r, n>> \in carried => n <= attempt[r]
    BY DEF IInv, SentInv
  <2> QED
    BY <2>1, <2>2, <2>3, <2>4
<1> QED
  BY Invariant, <1>1, PTL

\* A field that a request has set is lost only to another update of the contact
\* that sets it too, that read the contact without it, or that loses the birthdate.
THEOREM FieldsHold == MonicaSpec => []LostOnlyToOverlap
<1>1. IInv => LostOnlyToOverlap
  <2> SUFFICES ASSUME IInv, NEW r \in Requests, phase[r] = "ok", Kind(r) \in Rewrites,
                      contact[Target(r)] # Absent
               PROVE  \A f \in op[r].named :
                          \/ contact[Target(r)][f] = r
                          \/ \E q \in Requests \ {r}, n \in 0 .. MaxRetries :
                                /\ <<q, n>> \in carried
                                /\ Kind(q) \in Rewrites /\ Target(q) = Target(r)
                                /\ f \in op[q].named \cup {"birthdate"} \/ seen[q][f] # r
    BY DEF LostOnlyToOverlap
  <2>1. <<r, attempt[r]>> \in carried /\ attempt[r] \in 0 .. MaxRetries
    BY RewritesWrite DEF IInv, ReplyInv, MonicaTypeOK
  <2> QED
    BY <2>1 DEF IInv, FieldInv, Overlapped
<1> QED
  BY Invariant, <1>1, PTL

-----------------------------------------------------------------------------
(* Listings. A contact is in MonicaHQ's listing once; what a listing in       *)
(* progress has collected is not ahead of it, unless one was created between  *)
(* two pages; and everything it must collect is, unless something happened.   *)

Ahead(r) == {i \in DOMAIN order : i > (page[r] - 1) * PageSize}

OrderInv ==
    /\ IsInjective(order)
    /\ \A q \in Requests, n \in 0 .. MaxRetries : <<q, n>> \in ToSet(order) => <<q, n>> \in carried

BeginInv ==
    \A r \in Requests :
        /\ phase[r] \in {"idle", "credentials"} => page[r] = 1
        /\ page[r] = 1 => got[r] = << >>

OnceListedInv ==
    \A r \in Requests :
        "created" \notin events[r] =>
            /\ IsInjective(got[r])
            /\ phase[r] = "page" => \A i \in Ahead(r) : order[i] \notin ToSet(got[r])

AllListedInv ==
    \A r \in Requests :
        events[r] = {} =>
            /\ phase[r] = "page" /\ page[r] > 1 =>
                  /\ last[r] = Pages
                  /\ \A c \in there[r] : c \in ToSet(got[r]) \/ \E i \in Ahead(r) : order[i] = c
            /\ phase[r] = "ok" /\ Kind(r) = "list" => there[r] \subseteq ToSet(got[r])

ListInv == OrderInv /\ BeginInv /\ OnceListedInv /\ AllListedInv

\* What page n holds, from the place before its first contact.
LEMMA PageHolds ==
    ASSUME order \in Seq(Contacts), NEW n \in Nat \ {0}
    PROVE  LET k == (n - 1) * PageSize
           IN  /\ k \in Nat /\ n * PageSize = k + PageSize
               /\ PageItems(n) \in Seq(Contacts)
               /\ \A j \in DOMAIN PageItems(n) :
                     /\ k + j \in DOMAIN order /\ k + j <= n * PageSize
                     /\ PageItems(n)[j] = order[k + j]
               /\ \A i \in DOMAIN order :
                     i > k /\ i <= n * PageSize => order[i] \in ToSet(PageItems(n))
<1> DEFINE k == (n - 1) * PageSize
           e == IF n * PageSize < Len(order) THEN n * PageSize ELSE Len(order)
<1>1. k \in Nat /\ n * PageSize \in Nat /\ n * PageSize = k + PageSize
  OBVIOUS
<1>2. Len(order) \in Nat /\ DOMAIN order = 1 .. Len(order) /\ \A i \in 1 .. Len(order) : order[i] \in Contacts
  BY LenProperties
<1> HIDE DEF k
<1>3. e \in Nat /\ e <= Len(order) /\ e <= n * PageSize
  BY <1>1, <1>2
<1>4. PageItems(n) = SubSeq(order, k + 1, e)
  BY DEF PageItems, k
<1>5. \A i \in DOMAIN order : i <= n * PageSize => i <= e
  BY <1>2
<1> HIDE DEF e
<1>6. /\ PageItems(n) \in Seq(Contacts)
      /\ Len(PageItems(n)) = IF k + 1 <= e THEN e - (k + 1) + 1 ELSE 0
      /\ \A i \in 1 .. e - (k + 1) + 1 : PageItems(n)[i] = order[(k + 1) + i - 1]
  <2>1. \A i \in k + 1 .. e : order[i] \in Contacts
    BY <1>1, <1>2, <1>3
  <2> QED
    BY <1>1, <1>3, <1>4, <2>1, SubSeqProperties
<1>7. DOMAIN PageItems(n) = 1 .. Len(PageItems(n))
  BY <1>6, LenProperties
<1>8. ASSUME NEW j \in DOMAIN PageItems(n)
      PROVE  /\ k + j \in DOMAIN order /\ k + j <= n * PageSize
             /\ PageItems(n)[j] = order[k + j]
  <2>1. j \in 1 .. IF k + 1 <= e THEN e - (k + 1) + 1 ELSE 0
    BY <1>6, <1>7
  <2>2. j \in 1 .. e - (k + 1) + 1 /\ (k + 1) + j - 1 = k + j /\ k + j <= e /\ k + j >= 1
    <3>1. k + 1 <= e
      BY <1>1, <1>3, <2>1
    <3> QED
      BY <1>1, <1>3, <2>1, <3>1
  <2>3. k + j \in 1 .. Len(order) /\ k + j <= n * PageSize
    BY <1>1, <1>2, <1>3, <2>2
  <2> QED
    BY <1>2, <1>6, <2>2, <2>3
<1>9. ASSUME NEW i \in DOMAIN order, i > k, i <= n * PageSize
      PROVE  order[i] \in ToSet(PageItems(n))
  <2>1. i <= e /\ i \in Nat
    BY <1>2, <1>5, <1>9
  <2>2. (k + 1) + (i - k) - 1 = i /\ i - k \in 1 .. e - (k + 1) + 1 /\ k + 1 <= e
    <3>1. k \in Nat /\ e \in Nat /\ i > k
      BY <1>1, <1>3, <1>9
    <3> QED
      BY <2>1, <3>1, SMTT(30)
  <2>3. PageItems(n)[i - k] = order[i]
    BY <1>6, <2>2
  <2>4. i - k \in DOMAIN PageItems(n)
    BY <1>6, <1>7, <2>2
  <2> QED
    BY <2>3, <2>4 DEF ToSet
<1> QED
  BY <1>1, <1>6, <1>8, <1>9 DEF k

\* The last page reaches the end of the listing.
LEMMA LastPage ==
    ASSUME order \in Seq(Contacts), NEW n \in Nat \ {0}, n >= Pages
    PROVE  Len(order) <= n * PageSize
<1>0. Len(order) \in Nat
  BY LenProperties
<1>1. CASE order = << >>
  BY <1>1
<1>2. CASE order # << >>
  <2> DEFINE m == Len(order) + PageSize - 1
  <2>1. m \in Nat /\ Pages = m \div PageSize
    BY <1>0, <1>2 DEF Pages
  <2> HIDE DEF m
  <2>2. m < (m \div PageSize + 1) * PageSize /\ m \div PageSize \in Nat
    BY <2>1
  <2>3. (m \div PageSize) * PageSize <= n * PageSize
    BY <2>1, <2>2
  <2>4. m < (m \div PageSize) * PageSize + PageSize
    BY <2>2
  <2> QED
    BY <1>0, <2>3, <2>4 DEF m
<1> QED
  BY <1>1, <1>2

\* Steps that change neither the order of contacts nor a listing's progress.
LEMMA ListQuietStep ==
    ASSUME MonicaTypeOK, ListInv, UNCHANGED <<order, listVars>>, carried \subseteq carried',
           \A q \in Requests :
               /\ phase'[q] = "page" => phase[q] = "page" \/ page[q] = 1
               /\ phase'[q] = "ok" /\ Kind(q)' = "list" => phase[q] = "ok" /\ Kind(q) = "list"
               /\ phase'[q] \in {"idle", "credentials"} => phase[q] \in {"idle", "credentials"}
    PROVE  ListInv'
<1> USE DEF ListInv, listVars
<1>1. OrderInv'
  BY DEF OrderInv
<1>2. BeginInv'
  BY DEF BeginInv
<1>3. OnceListedInv'
  <2> SUFFICES ASSUME NEW r \in Requests, "created" \notin events[r]
               PROVE  /\ IsInjective(got[r])
                      /\ phase'[r] = "page" => \A i \in Ahead(r) : order[i] \notin ToSet(got[r])
    BY DEF OnceListedInv, Ahead
  <2>1. IsInjective(got[r])
    BY DEF OnceListedInv
  <2>2. CASE page[r] = 1
    <3>1. got[r] = << >>
      BY <2>2 DEF BeginInv
    <3>2. ToSet(got[r]) = {}
      BY <3>1 DEF ToSet
    <3> QED
      BY <2>1, <3>2
  <2>3. CASE page[r] # 1
    BY <2>1, <2>3 DEF OnceListedInv
  <2> QED
    BY <2>2, <2>3
<1>4. AllListedInv'
  <2>1. Pages' = Pages
    BY DEF Pages
  <2> SUFFICES ASSUME NEW r \in Requests, events[r] = {}
               PROVE  /\ phase'[r] = "page" /\ page[r] > 1 =>
                            /\ last[r] = Pages
                            /\ \A c \in there[r] :
                                  c \in ToSet(got[r]) \/ \E i \in Ahead(r) : order[i] = c
                      /\ phase'[r] = "ok" /\ Kind(r)' = "list" => there[r] \subseteq ToSet(got[r])
    BY <2>1 DEF AllListedInv, Ahead
  <2> QED
    BY DEF AllListedInv
<1> QED
  BY <1>1, <1>2, <1>3, <1>4

\* A page is fetched: what it holds moves from ahead of the listing behind it.
LEMMA ListPageStep ==
    ASSUME MonicaTypeOK, ListInv, NEW r \in Requests, FetchPage(r), ~GivesUp(r, "page"),
           (IF page[r] = 1 THEN Pages ELSE last[r]) <= MaxPages
    PROVE  ListInv'
<1> DEFINE pages == IF page[r] = 1 THEN Pages ELSE last[r]
           n == page[r]
           items == PageItems(n)
           k == (n - 1) * PageSize
<1> USE DEF ListInv
<1>1. /\ n \in Nat \ {0} /\ order \in Seq(Contacts) /\ got[r] \in Seq(Contacts)
      /\ pages \in Int
  BY LenProperties DEF MonicaTypeOK, Pages
<1>2. /\ phase[r] = "page" /\ last' = [last EXCEPT ![r] = pages]
      /\ there' = [there EXCEPT ![r] = IF n = 1 THEN ToSet(order) ELSE there[r]]
      /\ got' = [got EXCEPT ![r] = got[r] \o items]
      /\ page' = [page EXCEPT ![r] = n + 1]
      /\ phase' = [phase EXCEPT ![r] = IF n < pages THEN "page" ELSE "ok"]
      /\ UNCHANGED <<op, accountVars, events>>
  <2>1. ~(pages > MaxPages)
    BY <1>1
  <2> HIDE DEF items
  <2>2. /\ phase[r] = "page" /\ last' = [last EXCEPT ![r] = pages]
        /\ there' = [there EXCEPT ![r] = IF n = 1 THEN ToSet(order) ELSE @]
        /\ got' = [got EXCEPT ![r] = @ \o PageItems(page[r])]
        /\ page' = [page EXCEPT ![r] = @ + 1]
        /\ Goes(r, "page", IF n < pages THEN "page" ELSE "ok")
        /\ UNCHANGED <<op, accountVars, events>>
    BY <2>1 DEF FetchPage
  <2> QED
    BY <2>2 DEF Goes, items
<1>3. /\ k \in Nat /\ n * PageSize = k + PageSize
      /\ items \in Seq(Contacts)
      /\ \A j \in DOMAIN items :
            k + j \in DOMAIN order /\ k + j <= n * PageSize /\ items[j] = order[k + j]
      /\ \A i \in DOMAIN order :
            i > k /\ i <= n * PageSize => order[i] \in ToSet(items)
  BY <1>1, PageHolds
<1>4. /\ n + 1 - 1 = n
      /\ Ahead(r)' = {i \in DOMAIN order : i > n * PageSize}
      /\ Ahead(r) = {i \in DOMAIN order : i > k}
  <2>1. n + 1 - 1 = n /\ page'[r] = n + 1
    BY <1>1, <1>2 DEF MonicaTypeOK
  <2>2. page'[r] - 1 = n
    BY <1>1, <2>1
  <2>3. order' = order
    BY <1>2 DEF accountVars
  <2> HIDE DEF n
  <2>4. (page'[r] - 1) * PageSize = n * PageSize
    BY <2>2, Zenon
  <2>5. Ahead(r)' = {i \in DOMAIN order : i > n * PageSize}
    BY <2>3, <2>4 DEF Ahead
  <2> QED
    BY <2>1, <2>5 DEF Ahead, n
<1>5. /\ got'[r] = got[r] \o items /\ ToSet(got'[r]) = ToSet(got[r]) \cup ToSet(items)
  <2>1. got'[r] = got[r] \o items
    BY <1>2 DEF MonicaTypeOK
  <2> HIDE DEF items
  <2>2. Range(got[r] \o items) = Range(got[r]) \cup Range(items)
    <3>1. got[r] \in Seq(Contacts) /\ items \in Seq(Contacts)
      BY <1>1, <1>3, Zenon
    <3> QED
      BY <3>1, RangeConcatenation
  <2>3. ToSet(got[r]) = Range(got[r]) /\ ToSet(items) = Range(items)
        /\ ToSet(got[r] \o items) = Range(got[r] \o items)
    BY DEF ToSet, Range
  <2> QED
    BY <2>1, <2>2, <2>3, Zenon
<1>6. \A q \in Requests \ {r} :
          /\ phase'[q] = phase[q] /\ page'[q] = page[q] /\ last'[q] = last[q]
          /\ got'[q] = got[q] /\ there'[q] = there[q]
  BY <1>2 DEF MonicaTypeOK
<1>7. order' = order /\ carried' = carried /\ events' = events /\ op' = op
  BY <1>2 DEF accountVars
<1>8. /\ phase'[r] = (IF n < pages THEN "page" ELSE "ok") /\ page'[r] = n + 1
      /\ last'[r] = pages /\ there'[r] = IF n = 1 THEN ToSet(order) ELSE there[r]
  BY <1>2 DEF MonicaTypeOK
<1>9. ASSUME NEW i \in DOMAIN order
      PROVE  i > n * PageSize => i > k
  BY <1>1, <1>3, LenProperties
<1> HIDE DEF items, k, n, pages
<1>10. OrderInv'
  BY <1>7 DEF OrderInv
<1>11. BeginInv'
  <2>1. n + 1 # 1
    BY <1>1
  <2> QED
    BY <1>6, <1>8, <2>1 DEF BeginInv
<1>12. OnceListedInv'
  <2> SUFFICES ASSUME NEW q \in Requests, "created" \notin events[q]
               PROVE  /\ IsInjective(got'[q])
                      /\ phase'[q] = "page" => \A i \in Ahead(q)' : order[i] \notin ToSet(got'[q])
    BY <1>7 DEF OnceListedInv
  <2>1. CASE q # r
    <3>1. Ahead(q)' = Ahead(q)
      BY <1>6, <1>7, <2>1 DEF Ahead
    <3> QED
      BY <1>6, <2>1, <3>1 DEF OnceListedInv
  <2>2. CASE q = r
    <3>1. IsInjective(got[r]) /\ \A i \in Ahead(r) : order[i] \notin ToSet(got[r])
      BY <1>2, <2>2 DEF OnceListedInv
    <3>2. IsInjective(items)
      <4> SUFFICES ASSUME NEW i \in DOMAIN items, NEW j \in DOMAIN items, items[i] = items[j]
                   PROVE  i = j
        BY DEF IsInjective
      <4>1. k + i = k + j
        BY <1>3 DEF OrderInv, IsInjective
      <4>2. i \in Nat /\ j \in Nat
        BY <1>3, LenProperties
      <4> QED
        BY <1>3, <4>1, <4>2
    <3>3. ToSet(got[r]) \cap ToSet(items) = {}
      <4> SUFFICES ASSUME NEW j \in DOMAIN items
                   PROVE  items[j] \notin ToSet(got[r])
        BY DEF ToSet
      <4>1. k + j > k
        BY <1>3, LenProperties
      <4> QED
        BY <1>3, <1>4, <3>1, <4>1
    <3>4. IsInjective(got'[r])
      BY <1>1, <1>3, <1>5, <3>1, <3>2, <3>3, JoinedOnce
    <3>5. ASSUME NEW i \in Ahead(r)'
          PROVE  order[i] \notin ToSet(got'[r])
      <4>1. i \in DOMAIN order /\ i > n * PageSize /\ i \in Ahead(r)
        BY <1>4, <1>9
      <4>2. ASSUME NEW j \in DOMAIN items
            PROVE  order[i] # items[j]
        <5>1. k + j \in DOMAIN order /\ k + j <= n * PageSize /\ items[j] = order[k + j]
          BY <1>3
        <5>2. k + j # i
          BY <1>1, <1>3, <4>1, <5>1, LenProperties
        <5> QED
          BY <4>1, <5>1, <5>2 DEF OrderInv, IsInjective
      <4>3. order[i] \notin ToSet(items)
        BY <4>2 DEF ToSet
      <4> QED
        BY <1>5, <3>1, <4>1, <4>3
    <3> QED
      BY <2>2, <3>4, <3>5
  <2> QED
    BY <2>1, <2>2
<1>13. AllListedInv'
  <2>0. Pages' = Pages
    BY <1>7 DEF Pages
  <2> SUFFICES ASSUME NEW q \in Requests, events[q] = {}
               PROVE  /\ phase'[q] = "page" /\ page'[q] > 1 =>
                            /\ last'[q] = Pages
                            /\ \A c \in there'[q] :
                                  c \in ToSet(got'[q]) \/ \E i \in Ahead(q)' : order[i] = c
                      /\ phase'[q] = "ok" /\ Kind(q)' = "list" => there'[q] \subseteq ToSet(got'[q])
    BY <1>7, <2>0 DEF AllListedInv
  <2>1. CASE q # r
    <3>1. Ahead(q)' = Ahead(q) /\ Kind(q)' = Kind(q)
      BY <1>6, <1>7, <2>1 DEF Ahead, Kind
    <3> QED
      BY <1>6, <2>1, <3>1 DEF AllListedInv
  <2>2. CASE q = r
    <3>0. n # 1 => /\ last[r] = Pages
                   /\ \A c \in there[r] : c \in ToSet(got[r]) \/ \E i \in Ahead(r) : order[i] = c
      <4>1. n # 1 => page[r] > 1
        BY <1>1 DEF n
      <4> QED
        BY <1>2, <2>2, <4>1 DEF AllListedInv
    <3>1. pages = Pages
      BY <3>0 DEF n, pages
    <3>2. ASSUME NEW c \in there'[r]
          PROVE  c \in ToSet(got[r]) \/ \E i \in Ahead(r) : order[i] = c
      <4>1. CASE n = 1
        <5>1. k = 0
          BY <4>1 DEF k
        <5>2. PICK i \in DOMAIN order : order[i] = c
          BY <1>8, <4>1 DEF ToSet
        <5>3. i > k
          BY <1>1, <5>1, LenProperties
        <5> QED
          BY <1>4, <5>2, <5>3
      <4>2. CASE n # 1
        BY <1>8, <3>0, <4>2
      <4> QED
        BY <4>1, <4>2
    <3>3. ASSUME NEW c \in there'[r]
          PROVE  c \in ToSet(got'[r]) \/ \E i \in Ahead(r)' : order[i] = c
      <4>1. CASE c \in ToSet(got[r])
        BY <1>5, <4>1
      <4>2. ASSUME NEW i \in Ahead(r), order[i] = c
            PROVE  c \in ToSet(got'[r]) \/ i \in Ahead(r)'
        <5>1. i \in DOMAIN order /\ i > k
          BY <1>4
        <5>2. CASE i <= n * PageSize
          BY <1>3, <1>5, <4>2, <5>1, <5>2
        <5>3. CASE ~(i <= n * PageSize)
          <6>1. i > n * PageSize
            BY <1>1, <1>3, <5>1, <5>3, LenProperties
          <6> QED
            BY <1>4, <5>1, <6>1
        <5> QED
          BY <5>2, <5>3
      <4> QED
        BY <3>2, <4>1, <4>2
    <3>4. CASE n < pages
      BY <1>8, <2>2, <3>1, <3>3, <3>4
    <3>5. CASE ~(n < pages)
      <4>1. n >= Pages
        BY <1>1, <3>1, <3>5
      <4>2. Len(order) <= n * PageSize
        BY <1>1, <4>1, LastPage
      <4>3. Ahead(r)' = {}
        BY <1>1, <1>3, <1>4, <4>2, LenProperties
      <4> QED
        BY <1>8, <2>2, <3>3, <3>5, <4>3
    <3> QED
      BY <3>4, <3>5
  <2> QED
    BY <2>1, <2>2
<1> QED
  BY <1>10, <1>11, <1>12, <1>13

\* A contact comes or goes: listings in progress take note; what is still ahead
\* of them was so before, or is new.
LEMMA ListEventStep ==
    ASSUME MonicaTypeOK, ListInv, UNCHANGED <<requestVars, page, last, got, there>>,
           NEW e \in {"created", "deleted"}, Happens(e), OrderInv',
           e = "deleted" =>
               \A q \in Requests : \A i \in Ahead(q)' : \E j \in Ahead(q) : order'[i] = order[j]
    PROVE  ListInv'
<1> USE DEF ListInv, requestVars
<1>1. \A q \in Requests :
          events'[q] = IF phase[q] = "page" /\ page[q] > 1 THEN events[q] \cup {e} ELSE events[q]
  BY DEF Happens
<1>2. BeginInv'
  BY DEF BeginInv
<1>3. OnceListedInv'
  <2> SUFFICES ASSUME NEW q \in Requests, "created" \notin events'[q]
               PROVE  /\ IsInjective(got[q])
                      /\ phase[q] = "page" => \A i \in Ahead(q)' : order'[i] \notin ToSet(got[q])
    BY DEF OnceListedInv
  <2>1. "created" \notin events[q]
    BY <1>1
  <2>2. CASE page[q] = 1
    <3>1. got[q] = << >>
      BY <2>2 DEF BeginInv
    <3>2. ToSet(got[q]) = {}
      BY <3>1 DEF ToSet
    <3> QED
      BY <2>1, <3>2 DEF OnceListedInv
  <2>3. CASE page[q] # 1 /\ phase[q] = "page"
    <3>1. page[q] > 1
      BY <2>3 DEF MonicaTypeOK
    <3>2. e = "deleted"
      BY <1>1, <2>3, <3>1
    <3> QED
      BY <2>1, <2>3, <3>2 DEF OnceListedInv
  <2> QED
    BY <2>1, <2>2, <2>3 DEF OnceListedInv
<1>4. AllListedInv'
  <2> SUFFICES ASSUME NEW q \in Requests, events'[q] = {}
               PROVE  /\ ~(phase[q] = "page" /\ page[q] > 1)
                      /\ phase[q] = "ok" /\ Kind(q) = "list" => there[q] \subseteq ToSet(got[q])
    BY DEF AllListedInv, Kind
  <2> QED
    BY <1>1 DEF AllListedInv
<1> QED
  BY <1>2, <1>3, <1>4

LEMMA ListCreateStep ==
    ASSUME IInv, ListInv, UNCHANGED <<requestVars, page, last, got, there>>,
           NEW r \in Requests, NEW n \in 0 .. MaxRetries, <<r, n>> \in wire,
           carried' = carried \cup {<<r, n>>},
           NEW i \in 1 .. Len(order) + 1, order' = InsertAt(order, i, <<r, n>>),
           Happens("created")
    PROVE  ListInv'
<1> DEFINE x == <<r, n>>
           m == Len(order)
<1>1. order \in Seq(Contacts) /\ x \in Contacts /\ m \in Nat /\ DOMAIN order = 1 .. m
  BY LenProperties DEF IInv, MonicaTypeOK, Contacts
<1>2. x \notin carried /\ \A j \in DOMAIN order : order[j] # x
  BY DEF ListInv, OrderInv, IInv, OnceInv, ToSet
<1>3. IsInjective(order)
  BY DEF ListInv, OrderInv
<1> HIDE DEF x, m
<1>4. /\ order' \in Seq(Contacts) /\ Len(order') = m + 1
      /\ \A k \in 1 .. m + 1 :
            order'[k] = IF k < i THEN order[k] ELSE IF k = i THEN x ELSE order[k - 1]
  <2>1. m + 1 \in Nat /\ m = Len(order) /\ i \in 1 .. m + 1
    BY <1>1 DEF m
  <2>2. order' = InsertAt(order, i, x)
    BY DEF x
  <2>3. InsertAt(order, i, x) \in Seq(Contacts)
    BY <1>1, <2>1, InsertIsSeq
  <2>4. /\ Len(InsertAt(order, i, x)) = m + 1
        /\ \A k \in 1 .. m + 1 :
              InsertAt(order, i, x)[k] = IF k < i THEN order[k] ELSE IF k = i THEN x ELSE order[k - 1]
    BY <1>1, <2>1, Inserted, SMTT(60)
  <2> QED
    BY <2>2, <2>3, <2>4, Zenon
<1>5. DOMAIN order' = 1 .. m + 1 /\ i \in 1 .. m + 1
  BY <1>4, LenProperties DEF m
<1>6. ASSUME NEW k \in 1 .. m + 1
      PROVE  \/ k < i /\ k \in 1 .. m /\ order'[k] = order[k]
             \/ k = i /\ order'[k] = x
             \/ k > i /\ k - 1 \in 1 .. m /\ order'[k] = order[k - 1]
  <2>1. order'[k] = IF k < i THEN order[k] ELSE IF k = i THEN x ELSE order[k - 1]
    BY <1>4
  <2>2. \/ k < i /\ k \in 1 .. m
        \/ k = i /\ ~(k < i)
        \/ k > i /\ k - 1 \in 1 .. m /\ k # i /\ ~(k < i)
    BY <1>1, <1>5
  <2> QED
    BY <2>1, <2>2, Zenon
<1>7. ASSUME NEW k \in 1 .. m + 1, NEW l \in 1 .. m + 1, order'[k] = order'[l]
      PROVE  k = l
  <2>1. \A a, b \in 1 .. m : order[a] = order[b] => a = b
    BY <1>1, <1>3 DEF IsInjective
  <2>2. \A a \in 1 .. m : order[a] # x
    BY <1>1, <1>2
  <2>3. CASE k < i /\ k \in 1 .. m /\ order'[k] = order[k]
    <3>1. \/ l < i /\ l \in 1 .. m /\ order[k] = order[l]
          \/ l > i /\ l - 1 \in 1 .. m /\ order[k] = order[l - 1]
      BY <1>6, <1>7, <2>2, <2>3
    <3>2. k = l \/ (l > i /\ k = l - 1)
      BY <2>1, <2>3, <3>1
    <3> QED
      BY <1>1, <1>5, <2>3, <3>2
  <2>4. CASE k = i /\ order'[k] = x
    BY <1>6, <1>7, <2>2, <2>4
  <2>5. CASE k > i /\ k - 1 \in 1 .. m /\ order'[k] = order[k - 1]
    <3>1. \/ l < i /\ l \in 1 .. m /\ order[k - 1] = order[l]
          \/ l > i /\ l - 1 \in 1 .. m /\ order[k - 1] = order[l - 1]
      BY <1>6, <1>7, <2>2, <2>5
    <3>2. k - 1 = l - 1 \/ (l < i /\ k - 1 = l)
      BY <2>1, <2>5, <3>1
    <3> QED
      BY <1>1, <1>5, <2>5, <3>2
  <2> QED
    BY <1>6, <2>3, <2>4, <2>5
<1>8. IsInjective(order)'
  BY <1>5, <1>7 DEF IsInjective
<1>9. \A k \in 1 .. m + 1 : order'[k] \in ToSet(order) \cup {x}
  BY <1>1, <1>6 DEF ToSet
<1>10. OrderInv'
  <2>1. ToSet(order') \subseteq ToSet(order) \cup {x}
    BY <1>5, <1>9 DEF ToSet
  <2> QED
    BY <1>8, <2>1 DEF ListInv, OrderInv, x
<1> QED
  BY <1>10, ListEventStep DEF IInv

LEMMA ListDeleteStep ==
    ASSUME IInv, ListInv, UNCHANGED <<requestVars, page, last, got, there>>,
           carried \subseteq carried', NEW i \in DOMAIN order, order' = RemoveAt(order, i),
           Happens("deleted")
    PROVE  ListInv'
<1> DEFINE m == Len(order)
<1>1. order \in Seq(Contacts) /\ m \in Nat /\ DOMAIN order = 1 .. m /\ i \in 1 .. m
  BY LenProperties DEF IInv, MonicaTypeOK
<1>2. IsInjective(order)
  BY DEF ListInv, OrderInv
<1> HIDE DEF m
<1>3. /\ order' \in Seq(Contacts) /\ Len(order') = m - 1
      /\ \A k \in 1 .. m - 1 : order'[k] = IF k < i THEN order[k] ELSE order[k + 1]
  <2>1. order' \in Seq(Contacts)
    BY <1>1, RemoveIsSeq
  <2>2. /\ Len(RemoveAt(order, i)) = m - 1
        /\ \A k \in 1 .. m - 1 : RemoveAt(order, i)[k] = IF k < i THEN order[k] ELSE order[k + 1]
    BY <1>1, Removed, Zenon DEF m
  <2> QED
    BY <2>1, <2>2, Zenon
<1>4. DOMAIN order' = 1 .. m - 1
  BY <1>3, LenProperties
<1>5. ASSUME NEW k \in 1 .. m - 1
      PROVE  \/ k < i /\ k \in 1 .. m /\ order'[k] = order[k]
             \/ k >= i /\ k + 1 \in 1 .. m /\ order'[k] = order[k + 1]
  <2>1. order'[k] = IF k < i THEN order[k] ELSE order[k + 1]
    BY <1>3
  <2>2. \/ k < i /\ k \in 1 .. m
        \/ k >= i /\ k + 1 \in 1 .. m /\ ~(k < i)
    BY <1>1
  <2> QED
    BY <2>1, <2>2, Zenon
<1>6. ASSUME NEW k \in 1 .. m - 1, NEW l \in 1 .. m - 1, order'[k] = order'[l]
      PROVE  k = l
  <2>1. \A a, b \in 1 .. m : order[a] = order[b] => a = b
    BY <1>1, <1>2 DEF IsInjective
  <2>2. CASE k < i /\ k \in 1 .. m /\ order'[k] = order[k]
    <3>1. k = l \/ (l >= i /\ k = l + 1)
      BY <1>5, <1>6, <2>1, <2>2
    <3> QED
      BY <1>1, <2>2, <3>1
  <2>3. CASE k >= i /\ k + 1 \in 1 .. m /\ order'[k] = order[k + 1]
    <3>1. k + 1 = l + 1 \/ (l < i /\ k + 1 = l)
      BY <1>5, <1>6, <2>1, <2>3
    <3> QED
      BY <1>1, <2>3, <3>1
  <2> QED
    BY <1>5, <2>2, <2>3
<1>7. IsInjective(order)'
  BY <1>4, <1>6 DEF IsInjective
<1>8. OrderInv'
  <2>1. \A k \in 1 .. m - 1 : order'[k] \in ToSet(order)
    BY <1>1, <1>5 DEF ToSet
  <2>2. ToSet(order') \subseteq ToSet(order)
    BY <1>4, <2>1 DEF ToSet
  <2> QED
    BY <1>7, <2>2 DEF ListInv, OrderInv
<1>9. ASSUME NEW q \in Requests, NEW k \in Ahead(q)'
      PROVE  \E j \in Ahead(q) : order'[k] = order[j]
  <2> DEFINE w == (page[q] - 1) * PageSize
  <2>1. k \in 1 .. m - 1 /\ k > w /\ w \in Int
    BY <1>4 DEF Ahead, IInv, MonicaTypeOK
  <2>2. \A j \in 1 .. m : j > w => j \in Ahead(q)
    BY <1>1 DEF Ahead
  <2> HIDE DEF w
  <2>3. k + 1 > w
    BY <2>1
  <2> QED
    BY <1>5, <2>1, <2>2, <2>3
<1> QED
  BY <1>8, <1>9, ListEventStep DEF IInv

LEMMA ListReachStep ==
    ASSUME IInv, ListInv, NEW r \in Requests, NEW n \in 0 .. MaxRetries, Reach(r, n)
    PROVE  ListInv'
<1>1. UNCHANGED <<requestVars, page, last, got, there>> /\ <<r, n>> \in wire
  BY DEF Reach
<1>2. CASE UNCHANGED <<order, events>> /\ carried \subseteq carried'
  BY <1>1, <1>2, ListQuietStep DEF IInv, listVars, requestVars, Kind
<1>3. CASE CarryOut(r, n)
  <2>1. carried' = carried \cup {<<r, n>>}
    BY <1>3 DEF CarryOut
  <2>2. CASE Happens("created") /\ \E i \in 1 .. Len(order) + 1 : order' = InsertAt(order, i, <<r, n>>)
    BY <1>1, <2>1, <2>2, ListCreateStep
  <2>3. CASE Happens("deleted") /\ \E i \in DOMAIN order : order' = RemoveAt(order, i)
    BY <1>1, <2>1, <2>3, ListDeleteStep
  <2> QED
    BY <1>2, <1>3, <2>1, <2>2, <2>3 DEF CarryOut
<1> QED
  BY <1>2, <1>3 DEF Reach, accountVars

\* A listing of more pages than are allowed fails after its first.
LEMMA ListTooLongStep ==
    ASSUME MonicaTypeOK, ListInv, NEW r \in Requests, FetchPage(r), ~GivesUp(r, "page"),
           ~((IF page[r] = 1 THEN Pages ELSE last[r]) <= MaxPages)
    PROVE  ListInv'
<1> DEFINE pages == IF page[r] = 1 THEN Pages ELSE last[r]
<1> USE DEF ListInv
<1>1. pages > MaxPages
  BY LenProperties DEF MonicaTypeOK, Pages
<1>2. /\ Goes(r, "page", "failed") /\ UNCHANGED <<page, got, op, order, carried, events>>
      /\ last' = [last EXCEPT ![r] = pages]
      /\ \A q \in Requests \ {r} : there'[q] = there[q]
  BY <1>1 DEF FetchPage, accountVars, MonicaTypeOK
<1>3. phase'[r] = "failed" /\ \A q \in Requests \ {r} : phase'[q] = phase[q] /\ last'[q] = last[q]
  BY <1>2 DEF Goes, MonicaTypeOK
<1>4. OrderInv'
  BY <1>2 DEF OrderInv
<1>5. BeginInv'
  BY <1>2, <1>3 DEF BeginInv
<1>6. OnceListedInv'
  BY <1>2, <1>3 DEF OnceListedInv, Ahead
<1>7. AllListedInv'
  <2>1. Pages' = Pages
    BY <1>2 DEF Pages
  <2> QED
    BY <1>2, <1>3, <2>1 DEF AllListedInv, Ahead, Kind
<1> QED
  BY <1>4, <1>5, <1>6, <1>7

LEMMA ListStep == IInv /\ ListInv /\ [MonicaNext]_vars => ListInv'
<1> SUFFICES ASSUME IInv, ListInv, [MonicaNext]_vars
             PROVE  ListInv'
  OBVIOUS
<1> USE DEF IInv, MonicaTypeOK, Goes, accountVars
<1>1. CASE UNCHANGED vars
  BY <1>1, ListQuietStep DEF vars, requestVars, Kind
<1>2. ASSUME NEW r \in Requests, NEW o \in Operations, Start(r, o)
      PROVE  ListInv'
  BY <1>2, ListQuietStep DEF Start, Kind
<1>3. ASSUME NEW r \in Requests, Resolve(r)
      PROVE  ListInv'
  <2>1. page[r] = 1
    BY <1>3 DEF Resolve, NoCredentials, GivesUp, ListInv, BeginInv
  <2> QED
    BY <1>3, <2>1, ListQuietStep DEF Resolve, NoCredentials, GivesUp, Kind
<1>4. ASSUME NEW r \in Requests, Read(r) \/ Fetch(r) \/ TimeOut(r) \/ Hear(r) \/ GivesUp(r, "page")
      PROVE  ListInv'
  <2>1. Kind(r) # "list" \/ GivesUp(r, "page")
    <3>1. Read(r) \/ Fetch(r) => Kind(r) # "list"
      BY DEF Read, Fetch, Rewrites
    <3>2. phase[r] = "write" => Kind(r) # "list"
      BY DEF PhaseInv, Writes, Rewrites
    <3>3. TimeOut(r) \/ Hear(r) => phase[r] = "write"
      BY DEF TimeOut, Hear, Again
    <3> QED
      BY <1>4, <3>1, <3>2, <3>3
  <2>2. /\ UNCHANGED <<op, order, carried, listVars>>
        /\ \A q \in Requests \ {r} : phase'[q] = phase[q]
        /\ phase'[r] \in {"write"} \cup Answers
        /\ GivesUp(r, "page") => phase'[r] \in {"refused", "failed"}
    BY <1>4 DEF Read, Fetch, TimeOut, Hear, Again, GivesUp, Answers
  <2> QED
    BY <2>1, <2>2, ListQuietStep DEF Kind, Answers
<1>5. ASSUME NEW r \in Requests, NEW n \in 0 .. MaxRetries, Reach(r, n)
      PROVE  ListInv'
  BY <1>5, ListReachStep
<1>6. ASSUME NEW r \in Requests, FetchPage(r)
      PROVE  ListInv'
  <2>1. CASE GivesUp(r, "page")
    BY <1>4, <2>1
  <2>2. CASE ~GivesUp(r, "page") /\ (IF page[r] = 1 THEN Pages ELSE last[r]) <= MaxPages
    BY <1>6, <2>2, ListPageStep
  <2>3. CASE ~GivesUp(r, "page") /\ ~((IF page[r] = 1 THEN Pages ELSE last[r]) <= MaxPages)
    BY <1>6, <2>3, ListTooLongStep
  <2> QED
    BY <2>1, <2>2, <2>3
<1> QED
  BY <1>1, <1>2, <1>3, <1>4, <1>5, <1>6 DEF MonicaNext
LEMMA ListInit == MonicaInit => ListInv
<1> SUFFICES ASSUME MonicaInit
             PROVE  ListInv
  OBVIOUS
<1>1. ToSet(Account) = Existing /\ IsInjective(<< >>) /\ ToSet(<< >>) = {}
  BY DEF Existing, IsInjective, ToSet
<1>2. OrderInv
  BY <1>1 DEF MonicaInit, OrderInv
<1>3. BeginInv /\ OnceListedInv /\ AllListedInv
  BY <1>1 DEF MonicaInit, BeginInv, OnceListedInv, AllListedInv
<1> QED
  BY <1>2, <1>3 DEF ListInv

\* A listing holds every contact that was there all the time, once, unless contacts
\* came or went between its pages: paginateAll, for any account and size of pages.
THEOREM ListingsHold == MonicaSpec => []ListingsComplete
<1>1. MonicaInit => IInv /\ ListInv
  BY InitInv, ListInit
<1>2. (IInv /\ ListInv) /\ [MonicaNext]_vars => (IInv /\ ListInv)'
  BY TypeStep, ControlStep, FieldStep, ListStep DEF IInv, Control
<1>3. ListInv => ListingsComplete
  BY DEF ListInv, OnceListedInv, AllListedInv, ListingsComplete, IsInjective
<1> QED
  BY <1>1, <1>2, <1>3, PTL DEF MonicaSpec

-----------------------------------------------------------------------------
(* MonicaOperations implements CommandLedger. *)

\* A request has carried out no more attempts than it may make, and fewer as
\* long as one has not been.
LEMMA CarriedCount ==
    ASSUME NEW r \in Requests
    PROVE  /\ IsFiniteSet(CarriedOf(r)) /\ Cardinality(CarriedOf(r)) \in Nat
           /\ \A n \in 0 .. MaxRetries :
                 <<r, n>> \notin carried => Cardinality(CarriedOf(r)) < MaxRetries + 1
           /\ \A n \in 0 .. MaxRetries : <<r, n>> \in carried => Cardinality(CarriedOf(r)) > 0
<1> DEFINE all == 0 .. MaxRetries
           C == CarriedOf(r)
<1>1. MaxRetries \in Nat
  BY MonicaAssumption
<1>2. IsFiniteSet(all) /\ Cardinality(all) = MaxRetries + 1
  BY <1>1, FS_Interval
<1>3. C \subseteq all /\ \A n \in all : n \in C <=> <<r, n>> \in carried
  BY DEF CarriedOf
<1> HIDE DEF all, C
<1>4. /\ IsFiniteSet(C) /\ Cardinality(C) <= Cardinality(all)
      /\ Cardinality(C) = Cardinality(all) => C = all
  BY <1>2, <1>3, FS_Subset
<1>5. Cardinality(C) \in Nat
  BY <1>4, FS_CardinalityType
<1>6. ASSUME NEW n \in all, <<r, n>> \notin carried
      PROVE  Cardinality(C) < MaxRetries + 1
  <2>1. C # all
    BY <1>3, <1>6
  <2> QED
    BY <1>1, <1>2, <1>4, <1>5, <2>1
<1>7. ASSUME NEW n \in all, <<r, n>> \in carried
      PROVE  Cardinality(C) > 0
  <2>1. C # {}
    BY <1>3, <1>7
  <2>2. Cardinality(C) # 0
    BY <1>4, <2>1, FS_EmptySet
  <2> QED
    BY <1>5, <2>2
<1> QED
  BY <1>4, <1>5, <1>6, <1>7 DEF C, all

\* What the ledger does not see: a request that is neither new nor told of a
\* write goes on, or the account changes by itself.
LEMMA NothingSeen ==
    ASSUME \A q \in Requests : phase'[q] = "idle" <=> phase[q] = "idle",
           \A q \in Requests : phase'[q] = "ok" /\ Kind(q)' \in Writes
                                <=> phase[q] = "ok" /\ Kind(q) \in Writes,
           UNCHANGED carried
    PROVE  UNCHANGED Ledger!ledgerVars
<1>1. recorded' = recorded /\ begun' = begun
  BY DEF recorded, begun
<1>2. applied' = applied
  BY DEF applied, CarriedOf
<1>3. assured' = assured
  BY DEF assured
<1> QED
  BY <1>1, <1>2, <1>3 DEF Ledger!ledgerVars

\* A new request opens its record.
LEMMA StartOpens ==
    ASSUME IInv, NEW r \in Requests, NEW o \in Operations, Start(r, o)
    PROVE  Ledger!Open(r)
<1>1. /\ phase[r] = "idle" /\ phase' = [phase EXCEPT ![r] = "credentials"]
      /\ op' = [op EXCEPT ![r] = o] /\ carried' = carried
  BY DEF Start, Goes, accountVars
<1>2. phase \in [Requests -> {"idle"} \cup Awaits \cup Answers]
      /\ op \in [Requests -> Operations \cup {NoOperation}]
  BY DEF IInv, MonicaTypeOK
<1>3. recorded[r] = NoOperation /\ recorded' = [recorded EXCEPT ![r] = r]
  BY <1>1, <1>2 DEF recorded
<1>4. r \notin begun /\ begun' = begun \cup {r}
  BY <1>1, <1>2 DEF begun
<1>5. applied' = applied
  BY <1>1 DEF applied, CarriedOf
<1>6. assured' = assured
  BY <1>1, <1>2 DEF assured, Kind
<1> QED
  BY <1>3, <1>4, <1>5, <1>6 DEF Ledger!Open

\* A request that has begun goes on or is answered: of a write with 2xx the
\* ledger tells what was applied, and nothing else shows.
LEMMA GoesOn ==
    ASSUME IInv, NEW r \in Requests,
           NEW to \in Awaits \cup Answers,
           phase[r] # "idle", phase[r] # "ok", phase' = [phase EXCEPT ![r] = to],
           UNCHANGED <<op, carried>>,
           to = "ok" /\ Kind(r) \in Writes => <<r, attempt[r]>> \in carried
    PROVE  Ledger!Tell(r) \/ UNCHANGED Ledger!ledgerVars
<1>1. phase \in [Requests -> {"idle"} \cup Awaits \cup Answers]
      /\ attempt[r] \in 0 .. MaxRetries
  BY DEF IInv, MonicaTypeOK
<1>2. \A q \in Requests : Kind(q)' = Kind(q)
  BY DEF Kind
<1>3. \A q \in Requests : phase'[q] = "idle" <=> phase[q] = "idle"
  BY <1>1 DEF Awaits, Answers
<1>4. CASE to = "ok" /\ Kind(r) \in Writes
  <2>1. recorded' = recorded /\ begun' = begun
    BY <1>3 DEF recorded, begun
  <2>2. applied' = applied
    BY DEF applied, CarriedOf
  <2>3. assured' = assured \cup {r}
    BY <1>1, <1>2, <1>4 DEF assured
  <2>4. applied[r] > 0
    BY <1>1, <1>4, CarriedCount DEF applied
  <2> QED
    BY <2>1, <2>2, <2>3, <2>4 DEF Ledger!Tell
<1>5. CASE ~(to = "ok" /\ Kind(r) \in Writes)
  <2>1. \A q \in Requests : phase'[q] = "ok" /\ Kind(q)' \in Writes
                                <=> phase[q] = "ok" /\ Kind(q) \in Writes
    BY <1>1, <1>2, <1>5
  <2> QED
    BY <1>3, <2>1, NothingSeen
<1> QED
  BY <1>4, <1>5

\* An attempt that is carried out applies its request once more.
LEMMA ReachApplies ==
    ASSUME IInv, NEW r \in Requests, NEW n \in 0 .. MaxRetries, Reach(r, n)
    PROVE  Ledger!Apply(r) \/ UNCHANGED Ledger!ledgerVars
<1>1. UNCHANGED <<phase, op>> /\ <<r, n>> \in wire
  BY DEF Reach, requestVars
<1>2. \A q \in Requests : Kind(q)' = Kind(q)
  BY <1>1 DEF Kind
<1>3. CASE carried' = carried
  BY <1>1, <1>2, <1>3, NothingSeen
<1>4. CASE carried' = carried \cup {<<r, n>>}
  <2>1. recorded' = recorded /\ begun' = begun /\ assured' = assured
    BY <1>1, <1>2 DEF recorded, begun, assured
  <2>2. r \in begun
    BY <1>1 DEF begun, IInv, SentInv, Answers
  <2>3. <<r, n>> \notin carried
    BY <1>1 DEF IInv, OnceInv
  <2>4. applied[r] = Cardinality(CarriedOf(r)) /\ applied[r] < MaxRetries + 1
    BY <2>3, CarriedCount DEF applied
  <2>5. \A q \in Requests : CarriedOf(q)' = IF q = r THEN CarriedOf(r) \cup {n} ELSE CarriedOf(q)
    BY <1>4 DEF CarriedOf
  <2>6. n \notin CarriedOf(r)
    BY <2>3 DEF CarriedOf
  <2>7. Cardinality(CarriedOf(r) \cup {n}) = Cardinality(CarriedOf(r)) + 1
    BY <2>6, CarriedCount, FS_AddElement
  <2>8. applied' = [q \in Requests |-> Cardinality(CarriedOf(q)')]
    BY DEF applied
  <2>9. applied' = [applied EXCEPT ![r] = @ + 1]
    BY <2>5, <2>7, <2>8 DEF applied
  <2> QED
    BY <2>1, <2>2, <2>4, <2>9 DEF Ledger!Apply
<1> QED
  BY <1>3, <1>4 DEF Reach, CarryOut, accountVars

LEMMA LedgerInit == MonicaInit => Ledger!Init
<1> SUFFICES ASSUME MonicaInit PROVE Ledger!Init
  OBVIOUS
<1>1. \A r \in Requests : CarriedOf(r) = {}
  BY DEF MonicaInit, CarriedOf
<1>2. applied = [r \in Requests |-> 0]
  BY <1>1, FS_EmptySet DEF applied
<1>3. recorded = [r \in Requests |-> NoOperation] /\ begun = {} /\ assured = {}
  BY DEF MonicaInit, recorded, begun, assured
<1> QED
  BY <1>2, <1>3 DEF Ledger!Init

LEMMA LedgerStep == IInv /\ [MonicaNext]_vars => [Ledger!Next]_(Ledger!ledgerVars)
<1> SUFFICES ASSUME IInv, [MonicaNext]_vars
             PROVE  Ledger!Next \/ UNCHANGED Ledger!ledgerVars
  OBVIOUS
<1> DEFINE Maps == Ledger!Next \/ UNCHANGED Ledger!ledgerVars
<1>1. CASE UNCHANGED vars
  BY <1>1, NothingSeen DEF vars, requestVars, accountVars, Kind
<1>2. ASSUME NEW r \in Requests, NEW o \in Operations, Start(r, o)
      PROVE  Maps
  BY <1>2, StartOpens DEF Ledger!Next
<1>3. ASSUME NEW r \in Requests, NEW from \in {"credentials", "read", "page"},
             NEW to \in Awaits \cup Answers, Goes(r, from, to), UNCHANGED <<op, carried>>,
             to = "ok" => Kind(r) \notin Writes
      PROVE  Maps
  BY <1>3, GoesOn DEF Goes, Ledger!Next
<1>4. ASSUME NEW r \in Requests, NEW from \in {"credentials", "read", "page"}, GivesUp(r, from)
      PROVE  Maps
  BY <1>4, <1>3 DEF GivesUp, accountVars, Answers
<1>5. ASSUME NEW r \in Requests, Resolve(r)
      PROVE  Maps
  BY <1>3, <1>4, <1>5 DEF Resolve, NoCredentials, accountVars, Awaits
<1>6. ASSUME NEW r \in Requests, Read(r)
      PROVE  Maps
  <2>1. Kind(r) \notin Writes
    BY <1>6, WritesKnown DEF Read
  <2> QED
    BY <1>3, <1>4, <1>6, <2>1 DEF Read, accountVars, Answers
<1>7. ASSUME NEW r \in Requests, Fetch(r)
      PROVE  Maps
  BY <1>3, <1>4, <1>7 DEF Fetch, accountVars, Awaits
<1>8. ASSUME NEW r \in Requests, NEW n \in 0 .. MaxRetries, Reach(r, n)
      PROVE  Maps
  BY <1>8, ReachApplies DEF Ledger!Next
<1>9. ASSUME NEW r \in Requests, NEW to \in Answers, Goes(r, "write", to),
             UNCHANGED <<op, carried>>, to = "ok" => reply[r] = "ok"
      PROVE  Maps
  <2>1. to = "ok" => <<r, attempt[r]>> \in carried
    BY <1>9 DEF Goes, IInv, ReplyInv
  <2> QED
    BY <1>9, <2>1, GoesOn DEF Goes, Ledger!Next
<1>10. ASSUME NEW r \in Requests, Again(r)
       PROVE  Maps
  <2>1. CASE UNCHANGED <<phase, op, carried>>
    BY <2>1, NothingSeen DEF Kind
  <2>2. CASE ~(attempt[r] < MaxRetries)
    BY <1>9, <1>10, <2>2 DEF Again, accountVars, Answers
  <2> QED
    BY <1>10, <2>1, <2>2 DEF Again, accountVars
<1>11. ASSUME NEW r \in Requests, Hear(r)
       PROVE  Maps
  BY <1>9, <1>10, <1>11 DEF Hear, accountVars, Answers
<1>12. ASSUME NEW r \in Requests, FetchPage(r)
       PROVE  Maps
  <2>1. CASE GivesUp(r, "page")
    BY <1>4, <2>1
  <2>2. CASE ~GivesUp(r, "page")
    <3>1. PICK to \in {"page", "ok", "failed"} : Goes(r, "page", to)
      BY <1>12, <2>2 DEF FetchPage
    <3>2. Kind(r) \notin Writes /\ UNCHANGED <<op, carried>>
      BY <1>12, <2>2, <3>1, WritesKnown DEF FetchPage, Goes, accountVars, IInv, PhaseInv
    <3> QED
      BY <1>3, <3>1, <3>2 DEF Awaits, Answers
  <2> QED
    BY <2>1, <2>2
<1> QED
  BY <1>1, <1>2, <1>5, <1>6, <1>7, <1>8, <1>10, <1>11, <1>12 DEF MonicaNext, TimeOut

\* To the scheduler above it, monica-integration is a ledger of its own whose
\* budget is the attempts of withRetry: MonicaOperations refines CommandLedger.
THEOREM Refinement == MonicaSpec => KeepsLedger
BY LedgerInit, LedgerStep, Invariant, PTL DEF MonicaSpec, KeepsLedger, Ledger!Spec

=============================================================================
