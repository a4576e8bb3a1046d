-------------------------- MODULE SetupTokens_proofs --------------------------
(***************************************************************************)
(* Proofs about SetupTokens for every number of links and requests.        *)
(***************************************************************************)
EXTENDS SetupTokens, TLAPS

-----------------------------------------------------------------------------
\* The inductive invariant

\* A transaction in its course has a kind; only an issue inserts.
PhaseInv ==
    \A x \in Transactions :
        /\ at[x] \in Statement => kind[x] # "none"
        /\ at[x] = "insert" => kind[x] = "issue"
        /\ kind[x] \in {"issue", "consume"} => token[x] \in Tokens

\* The new token of an issue is its own and nobody's row until it is inserted.
IssueInv ==
    \A x \in Transactions :
        kind[x] = "issue" =>
            /\ at[x] \in {"scan", "update", "insert"} =>
                  status[token[x]] = "unissued" /\ holder[token[x]] = None
            /\ \A y \in Transactions :
                  kind[y] = "issue" /\ token[y] = token[x] => y = x

Inserted(t) == holder[t] # None /\ staged[t] = "active"

\* A changed row is an active one about to end, or one just inserted.
RowInv ==
    \A t \in Tokens :
        holder[t] # None =>
            \/ status[t] = "active" /\ staged[t] \in Terminal
            \/ /\ status[t] = "unissued"
               /\ staged[t] = "active"
               /\ kind[holder[t]] = "issue"
               /\ token[holder[t]] = t
               /\ at[holder[t]] = "commit"

\* One row is inserted at a time, by the transaction that ends the active one.
IndexInv ==
    \A t, u \in Tokens :
        Inserted(t) =>
            /\ Inserted(u) => t = u
            /\ status[u] = "active" => holder[u] = holder[t]

\* The transaction that writes credentials of a token is consuming the token.
UserInv ==
    /\ \A x \in Transactions :
          at[x] = "user" /\ kind[x] = "consume" =>
              holder[token[x]] = x /\ staged[token[x]] = "consumed"
    /\ userHolder # None /\ stagedUser \in Tokens =>
          /\ at[userHolder] = "commit"
          /\ holder[stagedUser] = userHolder
          /\ staged[stagedUser] = "consumed"

\* A disconnection keeps the users row, and then the tokens it saw, to its end.
DisconnectInv ==
    \A x \in Transactions :
        /\ \A t \in seen[x] : status[t] # "unissued"
        /\ kind[x] = "disconnect" /\ at[x] \in {"scan", "update", "commit"} =>
              userHolder = x /\ stagedUser = "revoked"
        /\ kind[x] = "disconnect" /\ at[x] = "commit" =>
              \A t \in seen[x] : status[t] = "active" => holder[t] = x

IInv ==
    /\ TypeOK /\ PhaseInv /\ IssueInv /\ RowInv /\ IndexInv /\ UserInv /\ DisconnectInv
    /\ AtMostOneActive /\ CredentialsFromConsumedToken /\ DisconnectRevokes

-----------------------------------------------------------------------------
\* Each action preserves the invariant

\* Every request starts alike: its transaction changes nothing yet.
LEMMA StartKeeps ==
    ASSUME IInv, NEW x \in Transactions, NEW k \in Kind \ {"none"},
           NEW t \in Tokens \cup {None}, NEW p \in {"scan", "update", "user", "refused"},
           Start(x, k, t, p),
           k \in {"issue", "consume"} => t \in Tokens,
           k = "issue" => /\ p = "scan"
                          /\ status[t] = "unissued"
                          /\ \A y \in Transactions : token[y] # t,
           k = "consume" => p # "user",
           k = "disconnect" => p = "user"
    PROVE  IInv'
<1>1. TypeOK'
  BY DEF IInv, TypeOK, Start, Statement, Ended, committed, locks
<1>2. PhaseInv'
  BY DEF IInv, TypeOK, PhaseInv, Start
<1>3. IssueInv'
  BY DEF IInv, TypeOK, IssueInv, RowInv, Start, committed, locks
<1>4. RowInv'
  BY DEF IInv, RowInv, Start, committed, locks
<1>5. IndexInv'
  BY DEF IInv, IndexInv, Inserted, Start, committed, locks
<1>6. UserInv'
  BY DEF IInv, TypeOK, UserInv, Start, locks
<1>7. DisconnectInv' /\ DisconnectRevokes'
  BY DEF IInv, TypeOK, DisconnectInv, DisconnectRevokes, Start, committed, locks
<1>8. AtMostOneActive' /\ CredentialsFromConsumedToken'
  BY DEF IInv, AtMostOneActive, CredentialsFromConsumedToken, Start, committed
<1> QED
  BY <1>1, <1>2, <1>3, <1>4, <1>5, <1>6, <1>7, <1>8 DEF IInv

\* A snapshot holds issued tokens only.
LEMMA ScanKeeps ==
    ASSUME IInv, NEW x \in Transactions, Scan(x)
    PROVE  IInv'
<1>1. TypeOK'
  BY DEF IInv, TypeOK, Scan, Goes, Statement, committed, request, locks
<1>2. PhaseInv'
  BY DEF IInv, PhaseInv, Scan, Goes, Statement, request
<1>3. IssueInv'
  BY DEF IInv, IssueInv, Scan, Goes, committed, request, locks
<1>4. RowInv' /\ IndexInv'
  BY DEF IInv, RowInv, IndexInv, Inserted, Scan, Goes, committed, request, locks
<1>5. UserInv'
  BY DEF IInv, UserInv, Scan, Goes, request, locks
<1>6. DisconnectInv' /\ DisconnectRevokes'
  BY DEF IInv, DisconnectInv, DisconnectRevokes, Scan, Goes, committed, request, locks
<1>7. AtMostOneActive' /\ CredentialsFromConsumedToken'
  BY DEF IInv, AtMostOneActive, CredentialsFromConsumedToken, Scan, committed
<1> QED
  BY <1>1, <1>2, <1>3, <1>4, <1>5, <1>6, <1>7 DEF IInv

\* The rows an UPDATE takes were active and nobody else's.
LEMMA UpdateKeeps ==
    ASSUME IInv, NEW x \in Transactions, Update(x)
    PROVE  IInv'
<1>1. TypeOK'
  BY DEF IInv, TypeOK, PhaseInv, Update, Goes, Outcome, AfterUpdate, Change, Terminal,
         Status, Kind, Statement, Ended, committed, request
<1>2. PhaseInv'
  BY DEF IInv, TypeOK, PhaseInv, Update, Goes, AfterUpdate, Kind, Ended, request
<1>3. IssueInv'
  BY DEF IInv, PhaseInv, IssueInv, Update, Goes, Change, committed, request
<1>4. RowInv'
  BY DEF IInv, TypeOK, PhaseInv, RowInv, Update, Goes, Outcome, Change, Terminal, Kind,
         Ended, committed, request
<1>5. IndexInv'
  BY DEF IInv, RowInv, IndexInv, AtMostOneActive, Inserted, Update, LockedTokens,
         Outcome, Change, committed
<1>6. UserInv'
  BY TokensAssumption DEF IInv, PhaseInv, UserInv, Update, Goes, Candidates,
                          LockedTokens, Outcome, Change, request
<1>7. DisconnectInv'
  BY TokensAssumption DEF IInv, TypeOK, DisconnectInv, Update, Goes, Candidates,
                          LockedTokens, Change, committed, request
<1>8. AtMostOneActive' /\ CredentialsFromConsumedToken'
  BY DEF IInv, AtMostOneActive, CredentialsFromConsumedToken, Update, committed
<1>9. DisconnectRevokes'
  BY DEF IInv, DisconnectRevokes, Update, Goes, AfterUpdate, committed, request
<1> QED
  BY <1>1, <1>2, <1>3, <1>4, <1>5, <1>6, <1>7, <1>8, <1>9 DEF IInv

\* The index makes sure that the active row is about to end.
LEMMA InsertKeeps ==
    ASSUME IInv, NEW x \in Transactions, Insert(x)
    PROVE  IInv'
<1>1. TypeOK'
  BY DEF IInv, TypeOK, Insert, Goes, Change, Status, Statement, committed, request
<1>2. PhaseInv'
  BY DEF IInv, PhaseInv, Insert, Goes, request
<1>3. IssueInv'
  BY DEF IInv, TypeOK, PhaseInv, IssueInv, Insert, Goes, Change, committed, request
<1>4. RowInv'
  BY DEF IInv, TypeOK, PhaseInv, IssueInv, RowInv, Insert, Goes, Change, committed,
         request
<1>5. IndexInv'
  BY DEF IInv, RowInv, IndexInv, Inserted, Insert, Contended, Duplicate, Change,
         Terminal, committed
<1>6. UserInv'
  BY TokensAssumption DEF IInv, PhaseInv, RowInv, UserInv, Insert, Goes, Contended,
                          request
<1>7. DisconnectInv'
  BY DEF IInv, TypeOK, PhaseInv, DisconnectInv, Insert, Goes, Contended, Duplicate,
         committed, request
<1>8. AtMostOneActive' /\ CredentialsFromConsumedToken'
  BY DEF IInv, AtMostOneActive, CredentialsFromConsumedToken, Insert, committed
<1>9. DisconnectRevokes'
  BY DEF IInv, DisconnectRevokes, Insert, Goes, committed, request
<1> QED
  BY <1>1, <1>2, <1>3, <1>4, <1>5, <1>6, <1>7, <1>8, <1>9 DEF IInv

\* The token of these credentials is consumed by the same transaction.
LEMMA CreateOrUpdateUserKeeps ==
    ASSUME IInv, NEW x \in Transactions, CreateOrUpdateUser(x)
    PROVE  IInv'
<1>1. TypeOK'
  BY DEF IInv, TypeOK, PhaseInv, CreateOrUpdateUser, Goes, WriteUser, Credentials,
         Statement, committed, request
<1>2. PhaseInv'
  BY DEF IInv, PhaseInv, CreateOrUpdateUser, Goes, request
<1>3. IssueInv'
  BY DEF IInv, IssueInv, CreateOrUpdateUser, Goes, committed, request
<1>4. RowInv' /\ IndexInv'
  BY DEF IInv, RowInv, IndexInv, Inserted, CreateOrUpdateUser, Goes, committed, request
<1>5. UserInv'
  BY DEF IInv, TypeOK, UserInv, CreateOrUpdateUser, Goes, WriteUser, request
<1>6. DisconnectInv'
  BY TokensAssumption DEF IInv, DisconnectInv, CreateOrUpdateUser, Goes, WriteUser,
                          committed, request
<1>7. AtMostOneActive' /\ CredentialsFromConsumedToken'
  BY DEF IInv, AtMostOneActive, CredentialsFromConsumedToken, CreateOrUpdateUser,
         committed
<1>8. DisconnectRevokes'
  BY DEF IInv, DisconnectRevokes, CreateOrUpdateUser, Goes, committed, request
<1> QED
  BY <1>1, <1>2, <1>3, <1>4, <1>5, <1>6, <1>7, <1>8 DEF IInv

LEMMA InvalidUrlKeeps ==
    ASSUME IInv, NEW x \in Transactions, InvalidUrl(x)
    PROVE  IInv'
<1>1. TypeOK'
  BY DEF IInv, TypeOK, InvalidUrl, Goes, Statement, committed, request, locks
<1>2. PhaseInv'
  BY DEF IInv, PhaseInv, InvalidUrl, Goes, request
<1>3. IssueInv'
  BY DEF IInv, IssueInv, InvalidUrl, Goes, committed, request, locks
<1>4. RowInv' /\ IndexInv'
  BY DEF IInv, RowInv, IndexInv, Inserted, InvalidUrl, Goes, committed, request, locks
<1>5. UserInv'
  BY DEF IInv, UserInv, InvalidUrl, Goes, request, locks
<1>6. DisconnectInv'
  BY DEF IInv, DisconnectInv, InvalidUrl, Goes, committed, request, locks
<1>7. AtMostOneActive' /\ CredentialsFromConsumedToken' /\ DisconnectRevokes'
  BY DEF IInv, AtMostOneActive, CredentialsFromConsumedToken, DisconnectRevokes,
         InvalidUrl, Goes, committed, request
<1> QED
  BY <1>1, <1>2, <1>3, <1>4, <1>5, <1>6, <1>7 DEF IInv

LEMMA SignatureOnlyKeeps ==
    ASSUME IInv, NEW x \in Transactions, SignatureOnly(x)
    PROVE  IInv'
<1>1. TypeOK'
  BY DEF IInv, TypeOK, SignatureOnly, Goes, Statement, committed, request, locks
<1>2. PhaseInv'
  BY DEF IInv, PhaseInv, SignatureOnly, Goes, request
<1>3. IssueInv'
  BY DEF IInv, IssueInv, SignatureOnly, Goes, committed, request, locks
<1>4. RowInv' /\ IndexInv'
  BY DEF IInv, RowInv, IndexInv, Inserted, SignatureOnly, Goes, committed, request,
         locks
<1>5. UserInv'
  BY DEF IInv, UserInv, SignatureOnly, Goes, request, locks
<1>6. DisconnectInv'
  BY DEF IInv, DisconnectInv, SignatureOnly, Goes, committed, request, locks
<1>7. AtMostOneActive' /\ CredentialsFromConsumedToken' /\ DisconnectRevokes'
  BY DEF IInv, AtMostOneActive, CredentialsFromConsumedToken, DisconnectRevokes,
         SignatureOnly, Goes, committed, request
<1> QED
  BY <1>1, <1>2, <1>3, <1>4, <1>5, <1>6, <1>7 DEF IInv

\* From here on the users row is the disconnection's.
LEMMA RevokeKeeps ==
    ASSUME IInv, NEW x \in Transactions, Revoke(x)
    PROVE  IInv'
<1>1. TypeOK'
  BY DEF IInv, TypeOK, Revoke, Goes, WriteUser, Credentials, Statement, committed,
         request
<1>2. PhaseInv'
  BY DEF IInv, PhaseInv, Revoke, Goes, request
<1>3. IssueInv'
  BY DEF IInv, IssueInv, Revoke, Goes, committed, request
<1>4. RowInv' /\ IndexInv'
  BY DEF IInv, RowInv, IndexInv, Inserted, Revoke, Goes, committed, request
<1>5. UserInv'
  BY TokensAssumption DEF IInv, UserInv, Revoke, Goes, WriteUser, request
<1>6. DisconnectInv'
  BY TokensAssumption DEF IInv, DisconnectInv, Revoke, Goes, WriteUser, committed,
                          request
<1>7. AtMostOneActive' /\ CredentialsFromConsumedToken'
  BY DEF IInv, AtMostOneActive, CredentialsFromConsumedToken, Revoke, committed
<1>8. DisconnectRevokes'
  BY DEF IInv, DisconnectRevokes, Revoke, Goes, committed, request
<1> QED
  BY <1>1, <1>2, <1>3, <1>4, <1>5, <1>6, <1>7, <1>8 DEF IInv

\* What the transaction leaves behind.
LEMMA CommitKeeps ==
    ASSUME IInv, NEW x \in Transactions, Commit(x)
    PROVE  IInv'
<1>1. TypeOK'
  BY DEF IInv, TypeOK, Commit, Goes, Release, Ended, request
<1>2. PhaseInv'
  BY DEF IInv, TypeOK, PhaseInv, Commit, Goes, Ended, request
<1>3. IssueInv'
  BY TokensAssumption DEF IInv, TypeOK, PhaseInv, IssueInv, Commit, Goes, Release,
                          request
<1>4. RowInv'
  BY DEF IInv, TypeOK, RowInv, Commit, Goes, Release, request
<1>5. IndexInv'
  BY TokensAssumption DEF IInv, IndexInv, Inserted, Commit, Release
<1>6. UserInv'
  BY DEF IInv, TypeOK, PhaseInv, UserInv, Commit, Goes, Release, request
<1>7. DisconnectInv'
  BY TokensAssumption DEF IInv, TypeOK, RowInv, DisconnectInv, Commit, Goes, Release,
                          Terminal, request
<1>8. AtMostOneActive'
  BY TokensAssumption DEF IInv, IndexInv, AtMostOneActive, Inserted, Commit
<1>9. CredentialsFromConsumedToken'
  BY TokensAssumption DEF IInv, RowInv, UserInv, CredentialsFromConsumedToken, Commit
<1>10. DisconnectRevokes'
  BY TokensAssumption DEF IInv, TypeOK, RowInv, UserInv, DisconnectInv,
                          DisconnectRevokes, Commit, Goes, Terminal, request
<1> QED
  BY <1>1, <1>2, <1>3, <1>4, <1>5, <1>6, <1>7, <1>8, <1>9, <1>10 DEF IInv

\* Every failure discards what the transaction changed.
LEMMA RollbackKeeps ==
    ASSUME IInv, NEW x \in Transactions, Rollback(x)
    PROVE  IInv'
<1>1. TypeOK'
  BY DEF IInv, TypeOK, Rollback, Release, Ended, committed, request
<1>2. PhaseInv'
  BY DEF IInv, PhaseInv, Rollback, request
<1>3. IssueInv'
  BY DEF IInv, PhaseInv, IssueInv, Rollback, Release, committed, request
<1>4. RowInv'
  BY DEF IInv, RowInv, Rollback, Release, committed, request
<1>5. IndexInv'
  BY DEF IInv, IndexInv, Inserted, Rollback, Release, committed
<1>6. UserInv'
  BY DEF IInv, TypeOK, PhaseInv, UserInv, Rollback, Release, request
<1>7. DisconnectInv'
  BY DEF IInv, TypeOK, DisconnectInv, Rollback, Release, committed, request
<1>8. AtMostOneActive' /\ CredentialsFromConsumedToken'
  BY DEF IInv, AtMostOneActive, CredentialsFromConsumedToken, Rollback, committed
<1>9. DisconnectRevokes'
  BY DEF IInv, DisconnectRevokes, Rollback, committed, request
<1> QED
  BY <1>1, <1>2, <1>3, <1>4, <1>5, <1>6, <1>7, <1>8, <1>9 DEF IInv

LEMMA ExpireKeeps ==
    ASSUME IInv, NEW t \in Tokens, Expire(t)
    PROVE  IInv'
<1>1. TypeOK'
  BY DEF IInv, TypeOK, Expire, request, locks
<1>2. PhaseInv'
  BY DEF IInv, PhaseInv, Expire, request
<1>3. IssueInv'
  BY DEF IInv, IssueInv, Expire, request, locks
<1>4. RowInv' /\ IndexInv'
  BY DEF IInv, RowInv, IndexInv, Inserted, Expire, request, locks
<1>5. UserInv'
  BY DEF IInv, UserInv, Expire, request, locks
<1>6. DisconnectInv'
  BY DEF IInv, DisconnectInv, Expire, request, locks
<1>7. AtMostOneActive' /\ CredentialsFromConsumedToken' /\ DisconnectRevokes'
  BY DEF IInv, AtMostOneActive, CredentialsFromConsumedToken, DisconnectRevokes,
         Expire, request
<1> QED
  BY <1>1, <1>2, <1>3, <1>4, <1>5, <1>6, <1>7 DEF IInv

-----------------------------------------------------------------------------
\* The invariant and what follows from it

LEMMA InvInit == Init => IInv
<1> SUFFICES ASSUME Init PROVE IInv
  OBVIOUS
<1>1. TypeOK
  BY DEF Init, TypeOK, Status, Terminal, Credentials, Kind
<1>2. PhaseInv /\ IssueInv
  BY DEF Init, PhaseInv, IssueInv, Statement
<1>3. RowInv /\ IndexInv /\ UserInv
  BY DEF Init, RowInv, IndexInv, Inserted, UserInv
<1>4. DisconnectInv /\ DisconnectRevokes
  BY DEF Init, DisconnectInv, DisconnectRevokes
<1>5. AtMostOneActive /\ CredentialsFromConsumedToken
  BY TokensAssumption DEF Init, AtMostOneActive, CredentialsFromConsumedToken
<1> QED
  BY <1>1, <1>2, <1>3, <1>4, <1>5 DEF IInv

LEMMA RequestKeeps ==
    ASSUME IInv, NEW x \in Transactions,
           StartIssue(x) \/ StartConsume(x) \/ StartCancel(x) \/ StartDisconnect(x)
    PROVE  IInv'
<1>1. CASE StartIssue(x)
  <2>1. PICK t \in Tokens : /\ status[t] = "unissued"
                            /\ \A y \in Transactions : token[y] # t
                            /\ Start(x, "issue", t, "scan")
    BY <1>1 DEF StartIssue
  <2> QED
    BY <2>1, StartKeeps DEF Kind
<1>2. CASE StartConsume(x)
  <2>1. PICK t \in Tokens, p \in {"update", "refused"} : Start(x, "consume", t, p)
    BY <1>2 DEF StartConsume
  <2> QED
    BY <2>1, StartKeeps DEF Kind
<1>3. CASE StartCancel(x)
  <2>1. PICK t \in Tokens : Start(x, "cancel", t, "scan")
    BY <1>3 DEF StartCancel
  <2> QED
    BY <2>1, StartKeeps DEF Kind
<1>4. CASE StartDisconnect(x)
  <2>1. Start(x, "disconnect", None, "user")
    BY <1>4 DEF StartDisconnect
  <2> QED
    BY <2>1, StartKeeps DEF Kind
<1> QED
  BY <1>1, <1>2, <1>3, <1>4

LEMMA StutterKeeps == ASSUME IInv, UNCHANGED vars PROVE IInv'
<1> USE DEF vars
<1>1. TypeOK' /\ PhaseInv' /\ IssueInv'
  BY DEF IInv, TypeOK, PhaseInv, IssueInv
<1>2. RowInv' /\ IndexInv' /\ UserInv'
  BY DEF IInv, RowInv, IndexInv, Inserted, UserInv
<1>3. DisconnectInv' /\ DisconnectRevokes'
  BY DEF IInv, DisconnectInv, DisconnectRevokes
<1>4. AtMostOneActive' /\ CredentialsFromConsumedToken'
  BY DEF IInv, AtMostOneActive, CredentialsFromConsumedToken
<1> QED
  BY <1>1, <1>2, <1>3, <1>4 DEF IInv

LEMMA InvStep == IInv /\ [Next]_vars => IInv'
<1> SUFFICES ASSUME IInv, [Next]_vars PROVE IInv'
  OBVIOUS
<1>1. ASSUME NEW x \in Transactions,
             StartIssue(x) \/ StartConsume(x) \/ StartCancel(x) \/ StartDisconnect(x)
      PROVE  IInv'
  BY <1>1, RequestKeeps
<1>2. ASSUME NEW x \in Transactions, Step(x)
      PROVE  IInv'
  <2>1. CASE Scan(x) \/ Update(x) \/ Insert(x)
    BY <2>1, ScanKeeps, UpdateKeeps, InsertKeeps
  <2>2. CASE CreateOrUpdateUser(x) \/ InvalidUrl(x) \/ SignatureOnly(x) \/ Revoke(x)
    BY <2>2, CreateOrUpdateUserKeeps, InvalidUrlKeeps, SignatureOnlyKeeps, RevokeKeeps
  <2>3. CASE Commit(x)
    BY <2>3, CommitKeeps
  <2>4. CASE UniqueViolation(x)
    BY <2>4, RollbackKeeps DEF UniqueViolation
  <2> QED
    BY <1>2, <2>1, <2>2, <2>3, <2>4 DEF Step
<1>3. ASSUME NEW x \in Transactions, ConnectionLost(x) \/ DeadlockDetected(x)
      PROVE  IInv'
  BY <1>3, RollbackKeeps DEF ConnectionLost, DeadlockDetected
<1>4. ASSUME NEW t \in Tokens, Expire(t)
      PROVE  IInv'
  BY <1>4, ExpireKeeps
<1> QED
  BY <1>1, <1>2, <1>3, <1>4, StutterKeeps DEF Next

\* What open transactions hold and will leave behind is as IInv says.
THEOREM Invariant == Spec => []IInv
BY InvInit, InvStep, PTL DEF Spec

\* Tokens, credentials and transactions keep to their types.
THEOREM TypeCorrect == Spec => []TypeOK
<1>1. IInv => TypeOK
  BY DEF IInv
<1> QED  BY Invariant, <1>1, PTL

\* A user never has two setup links that work.
THEOREM AtMostOneActiveHolds == Spec => []AtMostOneActive
<1>1. IInv => AtMostOneActive
  BY DEF IInv
<1> QED  BY Invariant, <1>1, PTL

\* Credentials are only ever those of a consumed token.
THEOREM CredentialsFromConsumedTokenHolds == Spec => []CredentialsFromConsumedToken
<1>1. IInv => CredentialsFromConsumedToken
  BY DEF IInv
<1> QED  BY Invariant, <1>1, PTL

\* A committed disconnect has ended every link it saw, in-flight forms included.
THEOREM DisconnectRevokesHolds == Spec => []DisconnectRevokes
<1>1. IInv => DisconnectRevokes
  BY DEF IInv
<1> QED  BY Invariant, <1>1, PTL

\* A link that has ended keeps its status: only Commit changes statuses, and
\* rows that an open transaction has changed were active or new.
THEOREM TerminalStatesHolds == Spec => TerminalStates
<1>1. ASSUME IInv, [Next]_vars, NEW t \in Tokens, status[t] \in Terminal
      PROVE  status'[t] = status[t]
  <2>1. CASE \E x \in Transactions : Commit(x)
    <3>1. holder[t] = None
      BY <1>1 DEF IInv, RowInv, Terminal
    <3>2. PICK x \in Transactions : Commit(x)
      BY <2>1
    <3> QED
      BY <3>1, <3>2, TokensAssumption DEF Commit
  <2>2. CASE ~\E x \in Transactions : Commit(x)
    <3>1. UNCHANGED status
      BY <1>1, <2>2
      DEF Next, Step, vars, committed, Start, StartIssue, StartConsume, StartCancel,
          StartDisconnect, Scan, Update, Insert, CreateOrUpdateUser, InvalidUrl,
          SignatureOnly, Revoke, UniqueViolation, ConnectionLost, DeadlockDetected,
          Rollback, Expire
    <3> QED
      BY <3>1
  <2> QED
    BY <2>1, <2>2
<1>2. IInv /\ [Next]_vars
        => \A t \in Tokens : status[t] \in Terminal => status'[t] = status[t]
  BY <1>1
<1> QED  BY Invariant, <1>2, PTL DEF Spec, TerminalStates

-----------------------------------------------------------------------------
\* SetupTokens implements SetupLinks: a commit is the instant at which the request
\* takes effect. EffectInv says what the rows of a transaction that has done its
\* statements are, so that publishing them is that effect and nothing less.

\* The rows a transaction has changed, and to what.
HeldInv ==
    \A t \in Tokens : \A x \in Transactions :
        holder[t] = x =>
            /\ at[x] \in {"insert", "user", "commit", "commit_invalid"}
            /\ kind[x] = "issue" =>
                  IF t = token[x] THEN staged[t] = "active" ELSE staged[t] = "superseded"
            /\ kind[x] = "consume" => t = token[x] /\ staged[t] = "consumed"
            /\ kind[x] = "cancel" => t \in seen[x] /\ staged[t] = "cancelled"
            /\ kind[x] = "disconnect" =>
                  t \in seen[x] /\ staged[t] = "invalidated" /\ at[x] = "commit"

\* The rows it must have changed by then.
DoneInv ==
    \A x \in Transactions :
        /\ kind[x] = "issue" /\ at[x] = "commit" => holder[token[x]] = x
        /\ kind[x] = "consume" /\ at[x] \in {"user", "commit", "commit_invalid"} =>
              holder[token[x]] = x
        /\ kind[x] = "cancel" /\ at[x] = "commit" =>
              \A t \in seen[x] : status[t] = "active" => holder[t] = x
        /\ at[x] = "commit_invalid" => kind[x] = "consume" /\ userHolder # x
        /\ kind[x] = "disconnect" => credentials # "absent"

\* The users row is written by a consumption, with its link, or by a disconnect.
WriterInv ==
    \A x \in Transactions :
        userHolder = x =>
            /\ kind[x] \in {"consume", "disconnect"}
            /\ kind[x] = "consume" => at[x] = "commit" /\ stagedUser = token[x]
            /\ kind[x] = "disconnect" => at[x] \in Statement

EffectInv == IInv /\ HeldInv /\ DoneInv /\ WriterInv

LEMMA EffectInit == Init => EffectInv
<1> SUFFICES ASSUME Init PROVE EffectInv
  OBVIOUS
<1>1. HeldInv /\ DoneInv /\ WriterInv
  BY TokensAssumption DEF Init, HeldInv, DoneInv, WriterInv
<1> QED
  BY <1>1, InvInit DEF EffectInv

\* A request that only starts holds nothing.
LEMMA StartHolds ==
    ASSUME EffectInv, NEW x \in Transactions, NEW k \in Kind \ {"none"},
           NEW t \in Tokens \cup {None}, NEW p \in {"scan", "update", "user", "refused"},
           Start(x, k, t, p),
           k = "consume" => p # "user",
           k = "disconnect" => credentials # "absent"
    PROVE  HeldInv' /\ DoneInv' /\ WriterInv'
<1> USE DEF EffectInv, IInv, TypeOK, Start, committed, locks
<1>1. at[x] \notin Statement /\ (\A u \in Tokens : holder[u] # x) /\ userHolder # x
  BY DEF HeldInv, WriterInv, Statement
<1>2. HeldInv'
  BY <1>1 DEF HeldInv
<1>3. DoneInv'
  BY <1>1 DEF DoneInv
<1>4. WriterInv'
  BY <1>1 DEF WriterInv
<1> QED
  BY <1>2, <1>3, <1>4

\* A snapshot comes before the rows.
LEMMA ScanHolds ==
    ASSUME EffectInv, NEW x \in Transactions, Scan(x)
    PROVE  HeldInv' /\ DoneInv' /\ WriterInv'
<1> USE DEF EffectInv, IInv, TypeOK, Scan, Goes, committed, request, locks
<1>1. HeldInv'
  BY DEF HeldInv
<1>2. DoneInv' /\ WriterInv'
  BY DEF DoneInv, WriterInv, Statement
<1> QED
  BY <1>1, <1>2


\* The UPDATE takes what works of what it looks at, all of it.
LEMMA UpdateHolds ==
    ASSUME EffectInv, NEW x \in Transactions, Update(x)
    PROVE  HeldInv' /\ DoneInv' /\ WriterInv'
<1> DEFINE hit == {t \in Candidates(x) : status[t] = "active"}
<1> USE DEF EffectInv, IInv, TypeOK
<1>1. /\ at[x] = "update" /\ kind[x] \in {"issue", "consume", "cancel", "disconnect"}
      /\ hit \subseteq Tokens
      /\ UNCHANGED <<status, credentials, kind, token, seen, userHolder, stagedUser>>
      /\ at' = [at EXCEPT ![x] = IF kind[x] = "consume" /\ hit = {} THEN "refused"
                                 ELSE AfterUpdate[kind[x]]]
      /\ holder' = [t \in Tokens |-> IF t \in hit THEN x ELSE holder[t]]
      /\ staged' = [t \in Tokens |-> IF t \in hit THEN Outcome[kind[x]] ELSE staged[t]]
  BY DEF Update, Goes, Change, Candidates, committed, request, PhaseInv, Statement, Kind
<1>2. \A t \in hit : /\ status[t] = "active" /\ holder[t] \in {None, x}
                     /\ kind[x] = "consume" => t = token[x]
                     /\ kind[x] # "consume" => t \in seen[x]
  BY DEF Update, LockedTokens, Candidates
<1>3. kind[x] = "issue" => token[x] \notin hit
  BY <1>1, <1>2 DEF IssueInv
<1>4. kind[x] = "consume" => hit \in {{}, {token[x]}}
  BY DEF Candidates
<1>5. kind[x] # "consume" => \A t \in seen[x] : status[t] = "active" => t \in hit
  BY DEF Candidates
<1> HIDE DEF hit
<1>6. \A t \in Tokens : holder[t] # x /\ (holder'[t] = x => t \in hit)
  BY <1>1 DEF HeldInv
<1>7. HeldInv'
  <2> SUFFICES ASSUME NEW t \in Tokens, NEW y \in Transactions, holder'[t] = y
               PROVE  /\ at'[y] \in {"insert", "user", "commit", "commit_invalid"}
                      /\ kind[y] = "issue" =>
                            IF t = token[y] THEN staged'[t] = "active" ELSE staged'[t] = "superseded"
                      /\ kind[y] = "consume" => t = token[y] /\ staged'[t] = "consumed"
                      /\ kind[y] = "cancel" => t \in seen[y] /\ staged'[t] = "cancelled"
                      /\ kind[y] = "disconnect" =>
                            t \in seen[y] /\ staged'[t] = "invalidated" /\ at'[y] = "commit"
    BY <1>1 DEF HeldInv
  <2>1. CASE y = x
    <3>1. t \in hit
      BY <1>6, <2>1
    <3>2. staged'[t] = Outcome[kind[x]] /\ at'[x] = AfterUpdate[kind[x]]
      BY <1>1, <3>1
    <3> QED
      BY <1>1, <1>2, <1>3, <2>1, <3>1, <3>2 DEF Outcome, AfterUpdate
  <2>2. CASE y # x
    <3>1. t \notin hit /\ holder[t] = y
      BY <1>1, <2>2
    <3> QED
      BY <1>1, <2>2, <3>1 DEF HeldInv
  <2> QED
    BY <2>1, <2>2
<1>8. ASSUME NEW y \in Transactions
      PROVE  /\ kind[y] = "issue" /\ at'[y] = "commit" => holder'[token[y]] = y
             /\ kind[y] = "consume" /\ at'[y] \in {"user", "commit", "commit_invalid"} =>
                   holder'[token[y]] = y
             /\ kind[y] = "cancel" /\ at'[y] = "commit" =>
                   \A t \in seen[y] : status[t] = "active" => holder'[t] = y
             /\ at'[y] = "commit_invalid" => kind[y] = "consume" /\ userHolder # y
             /\ kind[y] = "disconnect" => credentials # "absent"
  <2>1. CASE y = x
    <3>1. at'[x] # "commit_invalid" /\ (kind[x] = "issue" => at'[x] # "commit")
      BY <1>1 DEF AfterUpdate
    <3>2. kind[x] = "consume" /\ at'[x] = "user" => hit = {token[x]}
      BY <1>1, <1>4
    <3>3. kind[x] = "consume" => at'[x] \in {"user", "refused"}
      BY <1>1 DEF AfterUpdate
    <3>4. \A t \in hit : holder'[t] = x
      BY <1>1
    <3>5. kind[x] = "disconnect" => credentials # "absent"
      BY DEF DoneInv
    <3> QED
      BY <1>5, <2>1, <3>1, <3>2, <3>3, <3>4, <3>5
  <2>2. CASE y # x
    <3>1. \A t \in Tokens : holder[t] = y => holder'[t] = y
      BY <1>1, <1>2, <2>2, TokensAssumption
    <3> QED
      BY <1>1, <2>2, <3>1 DEF DoneInv, PhaseInv
  <2> QED
    BY <2>1, <2>2
<1>9. DoneInv'
  <2>1. /\ status' = status /\ credentials' = credentials /\ kind' = kind
        /\ token' = token /\ seen' = seen /\ userHolder' = userHolder
    BY <1>1
  <2> QED
    BY <1>8, <2>1 DEF DoneInv
<1>10. WriterInv'
  BY <1>1 DEF WriterInv, AfterUpdate, Statement
<1> QED
  BY <1>7, <1>9, <1>10

\* The new row is the issue's own.
LEMMA InsertHolds ==
    ASSUME EffectInv, NEW x \in Transactions, Insert(x)
    PROVE  HeldInv' /\ DoneInv' /\ WriterInv'
<1> USE DEF EffectInv, IInv, TypeOK, Insert, Goes, Change, committed, request
<1>1. kind[x] = "issue" /\ holder[token[x]] = None /\ token[x] \in Tokens
  BY DEF PhaseInv, IssueInv
<1>2. HeldInv'
  BY <1>1, TokensAssumption DEF HeldInv
<1>3. DoneInv'
  BY <1>1, TokensAssumption DEF DoneInv, PhaseInv
<1>4. WriterInv'
  BY <1>1 DEF WriterInv, Statement
<1> QED
  BY <1>2, <1>3, <1>4

\* The users row is written by the transaction that has consumed the link, left
\* alone by it, or taken by a disconnect.
LEMMA UserHolds ==
    ASSUME EffectInv, NEW x \in Transactions,
           CreateOrUpdateUser(x) \/ InvalidUrl(x) \/ SignatureOnly(x) \/ Revoke(x)
    PROVE  HeldInv' /\ DoneInv' /\ WriterInv'
<1> USE DEF EffectInv, IInv, TypeOK, Goes, WriteUser, committed, request, locks,
            CreateOrUpdateUser, InvalidUrl, SignatureOnly, Revoke
<1>1. HeldInv'
  <2>1. CASE kind[x] = "consume"
    BY <2>1 DEF HeldInv
  <2>2. CASE Revoke(x)
    <3>1. \A t \in Tokens : holder[t] # x
      BY <2>2 DEF HeldInv
    <3> QED
      BY <2>2, <3>1 DEF HeldInv
  <2> QED
    BY <2>1, <2>2
<1>2. DoneInv'
  BY TokensAssumption DEF DoneInv, WriterInv
<1>3. WriterInv'
  BY TokensAssumption DEF WriterInv, Statement
<1> QED
  BY <1>1, <1>2, <1>3

\* Whatever ends a transaction takes its rows from it.
LEMMA EndHolds ==
    ASSUME EffectInv, NEW x \in Transactions, Commit(x) \/ Rollback(x)
    PROVE  HeldInv' /\ DoneInv' /\ WriterInv'
<1> USE DEF EffectInv, IInv, TypeOK, Goes, Release, committed, request, Commit, Rollback
<1>1. HeldInv'
  BY TokensAssumption DEF HeldInv
<1>2. DoneInv'
  <2>1. CASE Commit(x)
    <3>1. ASSUME NEW y \in Transactions, y # x, NEW t \in seen[y], status'[t] = "active"
          PROVE  status[t] = "active" /\ holder[t] # x
      BY <2>1, <3>1, TokensAssumption DEF RowInv, DisconnectInv, Terminal
    <3>2. credentials # "absent" => credentials' # "absent"
      BY <2>1, TokensAssumption DEF WriterInv, DoneInv, DisconnectInv, PhaseInv
    <3>3. \A t \in Tokens, y \in Transactions : y # x /\ holder[t] = y => holder'[t] = y
      BY <2>1
    <3>4. at'[x] \in {"ok", "invalid_url"} /\ \A y \in Transactions : y # x => at'[y] = at[y]
      BY <2>1
    <3>5. \A y \in Transactions : y # x => (userHolder' = y <=> userHolder = y)
      BY <2>1, TokensAssumption
    <3>6. UNCHANGED <<kind, token, seen>>
      BY <2>1
    <3>7. \A y \in Transactions : kind[y] \in {"issue", "consume"} => token[y] \in Tokens
      BY DEF PhaseInv
    <3> QED
      BY <3>1, <3>2, <3>3, <3>4, <3>5, <3>6, <3>7 DEF DoneInv
  <2>2. CASE Rollback(x)
    BY <2>2, TokensAssumption DEF DoneInv, PhaseInv
  <2> QED
    BY <2>1, <2>2
<1>3. WriterInv'
  BY TokensAssumption DEF WriterInv
<1> QED
  BY <1>1, <1>2, <1>3


LEMMA EffectStep == EffectInv /\ [Next]_vars => EffectInv'
<1> SUFFICES ASSUME EffectInv, [Next]_vars PROVE HeldInv' /\ DoneInv' /\ WriterInv'
  BY InvStep DEF EffectInv
<1>1. ASSUME NEW x \in Transactions, StartIssue(x)
      PROVE  HeldInv' /\ DoneInv' /\ WriterInv'
  <2>1. PICK t \in Tokens : Start(x, "issue", t, "scan")
    BY <1>1 DEF StartIssue
  <2> QED
    BY <2>1, StartHolds DEF Kind
<1>2. ASSUME NEW x \in Transactions, StartConsume(x)
      PROVE  HeldInv' /\ DoneInv' /\ WriterInv'
  <2>1. PICK t \in Tokens, p \in {"update", "refused"} : Start(x, "consume", t, p)
    BY <1>2 DEF StartConsume
  <2> QED
    BY <2>1, StartHolds DEF Kind
<1>3. ASSUME NEW x \in Transactions, StartCancel(x)
      PROVE  HeldInv' /\ DoneInv' /\ WriterInv'
  <2>1. PICK t \in Tokens : Start(x, "cancel", t, "scan")
    BY <1>3 DEF StartCancel
  <2> QED
    BY <2>1, StartHolds DEF Kind
<1>4. ASSUME NEW x \in Transactions, StartDisconnect(x)
      PROVE  HeldInv' /\ DoneInv' /\ WriterInv'
  <2>1. Start(x, "disconnect", None, "user") /\ credentials # "absent"
    BY <1>4 DEF StartDisconnect
  <2> QED
    BY <2>1, StartHolds DEF Kind
<1>5. ASSUME NEW x \in Transactions, Step(x) \/ ConnectionLost(x) \/ DeadlockDetected(x)
      PROVE  HeldInv' /\ DoneInv' /\ WriterInv'
  <2>1. CASE Scan(x) \/ Update(x) \/ Insert(x)
    BY <2>1, ScanHolds, UpdateHolds, InsertHolds
  <2>2. CASE CreateOrUpdateUser(x) \/ InvalidUrl(x) \/ SignatureOnly(x) \/ Revoke(x)
    BY <2>2, UserHolds
  <2>3. CASE Commit(x) \/ Rollback(x)
    BY <2>3, EndHolds
  <2> QED
    BY <1>5, <2>1, <2>2, <2>3 DEF Step, UniqueViolation, ConnectionLost, DeadlockDetected
<1>6. ASSUME NEW t \in Tokens, Expire(t)
      PROVE  HeldInv' /\ DoneInv' /\ WriterInv'
  BY <1>6 DEF Expire, request, locks, EffectInv, HeldInv, DoneInv, WriterInv
<1>7. ASSUME UNCHANGED vars
      PROVE  HeldInv' /\ DoneInv' /\ WriterInv'
  BY <1>7 DEF vars, EffectInv, HeldInv, DoneInv, WriterInv
<1> QED
  BY <1>1, <1>2, <1>3, <1>4, <1>5, <1>6, <1>7 DEF Next

\* How the answers follow the statements of a transaction.
LEMMA AnswerFacts ==
    ASSUME TypeOK, NEW x \in Transactions, NEW p, at' = [at EXCEPT ![x] = p]
    PROVE  /\ at[x] = "idle" => answered[x] = "idle"
           /\ at[x] \in Statement => answered[x] = "open"
           /\ at[x] \in Statement /\ p \in Statement => answered' = answered
           /\ p \in Statement => answered' = [answered EXCEPT ![x] = "open"]
           /\ p \notin Statement => answered' = [answered EXCEPT ![x] = p]
<1>1. "idle" \notin Statement
  BY DEF Statement
<1>2. DOMAIN answered = Transactions /\ DOMAIN answered' = Transactions
  BY DEF answered
<1>3. \A y \in Transactions : answered[y] = IF at[y] \in Statement THEN "open" ELSE at[y]
  BY DEF answered
<1>4. \A y \in Transactions :
          answered'[y] = IF y = x THEN IF p \in Statement THEN "open" ELSE p ELSE answered[y]
  BY <1>3 DEF answered, TypeOK
<1>5. answered' = [answered EXCEPT ![x] = IF p \in Statement THEN "open" ELSE p]
  BY <1>2, <1>4 DEF answered
<1>6. at[x] \in Statement => answered = [answered EXCEPT ![x] = "open"]
  BY <1>2, <1>3 DEF answered
<1> QED
  BY <1>1, <1>3, <1>5, <1>6

LEMMA AskMaps ==
    ASSUME EffectInv, NEW x \in Transactions,
           StartIssue(x) \/ StartConsume(x) \/ StartCancel(x) \/ StartDisconnect(x)
    PROVE  Links!Ask(x)
<1>1. ASSUME NEW k, NEW t, NEW p, NEW a, Start(x, k, t, p),
             a = IF p \in Statement THEN "open" ELSE p
      PROVE  Links!Asks(x, k, t, a)
  BY <1>1, AnswerFacts DEF Start, Links!Asks, committed, EffectInv, IInv
<1>2. /\ "scan" \in Statement /\ "update" \in Statement /\ "user" \in Statement
      /\ "refused" \notin Statement
  BY DEF Statement
<1>3. CASE StartIssue(x)
  <2>1. PICK t \in Tokens : /\ status[t] = "unissued" /\ credentials = "absent"
                            /\ \A y \in Transactions : token[y] # t
                            /\ Start(x, "issue", t, "scan")
    BY <1>3 DEF StartIssue
  <2>2. Links!Asks(x, "issue", t, "open")
    BY <1>1, <1>2, <2>1
  <2> QED
    BY <2>1, <2>2 DEF Links!Ask, Links!Issued
<1>4. CASE StartConsume(x)
  <2>1. PICK t \in Tokens :
            /\ status[t] # "unissued"
            /\ Start(x, "consume", t,
                     IF status[t] = "active" /\ t \notin expired THEN "update" ELSE "refused")
    BY <1>4 DEF StartConsume
  <2>2. Links!Asks(x, "consume", t,
                   IF status[t] = "active" /\ t \notin expired THEN "open" ELSE "refused")
    BY <1>1, <1>2, <2>1
  <2> QED
    BY <2>1, <2>2 DEF Links!Ask, Links!Issued, Links!Active
<1>5. CASE StartCancel(x)
  <2>1. PICK t \in Tokens : status[t] # "unissued" /\ Start(x, "cancel", t, "scan")
    BY <1>5 DEF StartCancel
  <2>2. Links!Asks(x, "cancel", t, "open")
    BY <1>1, <1>2, <2>1
  <2> QED
    BY <2>1, <2>2 DEF Links!Ask, Links!Issued
<1>6. CASE StartDisconnect(x)
  <2>1. credentials # "absent" /\ Start(x, "disconnect", None, "user")
    BY <1>6 DEF StartDisconnect
  <2>2. Links!Asks(x, "disconnect", None, "open")
    BY <1>1, <1>2, <2>1
  <2> QED
    BY <2>1, <2>2 DEF Links!Ask
<1> QED
  BY <1>3, <1>4, <1>5, <1>6

\* Statements before the commit are not seen, but for the one that finds the
\* links and the one that refuses.
LEMMA StatementMaps ==
    ASSUME EffectInv, NEW x \in Transactions,
           \/ Scan(x) \/ Update(x) \/ Insert(x)
           \/ CreateOrUpdateUser(x) \/ InvalidUrl(x) \/ SignatureOnly(x) \/ Revoke(x)
    PROVE  Links!Find(x) \/ Links!Refuse(x) \/ UNCHANGED Links!linkVars
<1> USE DEF EffectInv, IInv
<1>1. CASE Scan(x)
  <2>1. answered[x] = "open" /\ answered' = answered
    BY <1>1, AnswerFacts DEF Scan, Goes, Statement
  <2> QED
    BY <1>1, <2>1 DEF Scan, Links!Find, Links!Issued, committed, request
<1> DEFINE hit == {t \in Candidates(x) : status[t] = "active"}
           next == IF kind[x] = "consume" /\ hit = {} THEN "refused" ELSE AfterUpdate[kind[x]]
<1>0. ASSUME Update(x)
      PROVE  /\ UNCHANGED <<status, expired, credentials, kind, token, seen>>
             /\ at[x] = "update" /\ at' = [at EXCEPT ![x] = next] /\ at'[x] = next
             /\ kind[x] = "consume" /\ hit = {} => status[token[x]] # "active"
             /\ next # "refused" => next \in Statement
             /\ next = "refused" => kind[x] = "consume" /\ hit = {}
  <2>1. /\ UNCHANGED <<status, expired, credentials, kind, token, seen>>
        /\ at[x] = "update" /\ at' = [at EXCEPT ![x] = next]
    BY <1>0 DEF Update, Goes, committed, request
  <2>2. kind[x] \in {"issue", "consume", "cancel", "disconnect"}
    BY <2>1 DEF PhaseInv, TypeOK, Kind, Statement
  <2>3. AfterUpdate[kind[x]] \in Statement \ {"refused"}
    BY <2>2 DEF AfterUpdate, Statement
  <2>4. kind[x] = "consume" /\ hit = {} => status[token[x]] # "active"
    BY DEF Candidates
  <2>5. at'[x] = next
    BY <2>1 DEF TypeOK
  <2> QED
    BY <2>1, <2>3, <2>4, <2>5
<1> HIDE DEF hit
<1>2. CASE Update(x) /\ at'[x] = "refused"
  <2>1. /\ kind[x] = "consume" /\ status[token[x]] # "active"
        /\ UNCHANGED <<status, expired, credentials, kind, token, seen>>
        /\ at[x] = "update" /\ at' = [at EXCEPT ![x] = "refused"]
    BY <1>2, <1>0
  <2>2. answered[x] = "open" /\ answered' = [answered EXCEPT ![x] = "refused"]
    BY <2>1, AnswerFacts DEF Statement
  <2> QED
    BY <2>1, <2>2 DEF Links!Refuse, Links!Answers, Links!Active
<1>3. CASE Update(x) /\ at'[x] # "refused"
  <2>1. /\ UNCHANGED <<status, expired, credentials, kind, token, seen>>
        /\ at[x] = "update" /\ \E p \in Statement : at' = [at EXCEPT ![x] = p]
    BY <1>3, <1>0
  <2>2. answered' = answered
    BY <2>1, AnswerFacts DEF Statement
  <2> QED
    BY <2>1, <2>2 DEF Links!linkVars
<1>4. CASE Insert(x) \/ CreateOrUpdateUser(x) \/ InvalidUrl(x) \/ SignatureOnly(x) \/ Revoke(x)
  <2>1. /\ UNCHANGED <<status, expired, credentials, kind, token, seen>>
        /\ at[x] \in Statement /\ \E p \in Statement : at' = [at EXCEPT ![x] = p]
    BY <1>4 DEF Insert, CreateOrUpdateUser, InvalidUrl, SignatureOnly, Revoke, Goes,
                Statement, committed, request
  <2>2. answered' = answered
    BY <2>1, AnswerFacts
  <2> QED
    BY <2>1, <2>2 DEF Links!linkVars
<1> QED
  BY <1>1, <1>2, <1>3, <1>4

\* A failure has no effect, whatever the transaction had done.
LEMMA RollbackMaps ==
    ASSUME EffectInv, NEW x \in Transactions, Rollback(x)
    PROVE  Links!Fail(x)
<1> USE DEF EffectInv, IInv
<1>1. answered[x] = "open" /\ answered' = [answered EXCEPT ![x] = "error"]
  BY AnswerFacts DEF Rollback, Statement
<1>2. kind[x] \in {"issue", "consume", "cancel", "disconnect"}
  BY DEF Rollback, PhaseInv, TypeOK, Kind
<1> QED
  BY <1>1, <1>2 DEF Rollback, Links!Fail, Links!Answers, committed, request

\* The commit is the effect.
LEMMA CommitMaps ==
    ASSUME EffectInv, NEW x \in Transactions, Commit(x)
    PROVE  Links!Issue(x) \/ Links!Consume(x) \/ Links!Cancel(x) \/ Links!Disconnect(x)
<1> USE DEF EffectInv, IInv
<1>1. PICK a \in {"ok", "invalid_url"} :
          /\ answered[x] = "open" /\ answered' = [answered EXCEPT ![x] = a]
          /\ at[x] = IF a = "ok" THEN "commit" ELSE "commit_invalid"
  <2>1. CASE Goes(x, "commit", "ok")
    BY <2>1, AnswerFacts DEF Goes, Statement
  <2>2. CASE Goes(x, "commit_invalid", "invalid_url")
    BY <2>2, AnswerFacts DEF Goes, Statement
  <2> QED
    BY <2>1, <2>2 DEF Commit
<1>2. /\ UNCHANGED <<expired, kind, token, seen>>
      /\ status' = [t \in Tokens |-> IF holder[t] = x THEN staged[t] ELSE status[t]]
      /\ credentials' = IF userHolder = x THEN stagedUser ELSE credentials
  BY DEF Commit, request
<1>3. kind[x] \in {"issue", "consume", "cancel", "disconnect"}
  BY <1>1 DEF PhaseInv, TypeOK, Kind, Statement
<1>4. \A t \in Tokens : holder[t] = x => status[t] = "active" \/ (kind[x] = "issue" /\ t = token[x])
  BY TokensAssumption DEF RowInv
<1>5. CASE kind[x] = "issue"
  <2>1. a = "ok" /\ token[x] \in Tokens /\ holder[token[x]] = x /\ userHolder # x
    BY <1>1, <1>5 DEF DoneInv, WriterInv, PhaseInv
  <2>2. staged[token[x]] = "active" /\ status[token[x]] = "unissued"
    BY <1>5, <2>1, TokensAssumption DEF HeldInv, RowInv, Terminal
  <2>3. \A t \in Tokens : status[t] = "active" => holder[t] = x
    BY <2>1, <2>2, TokensAssumption DEF IndexInv, Inserted
  <2>4. \A t \in Tokens : holder[t] = x /\ t # token[x] => staged[t] = "superseded"
    BY <1>5 DEF HeldInv
  <2>5. status' = [Links!Become(Links!Active, "superseded") EXCEPT ![token[x]] = "active"]
    BY <1>2, <1>4, <2>1, <2>2, <2>3, <2>4 DEF Links!Become, Links!Active
  <2>6. Links!Answers(x, "issue", "ok")
    BY <1>1, <1>2, <1>5, <2>1 DEF Links!Answers
  <2>7. token[x] \in Tokens \ Links!Issued
    BY <2>1, <2>2 DEF Links!Issued
  <2> QED
    BY <1>2, <2>1, <2>5, <2>6, <2>7 DEF Links!Issue
<1>6. CASE kind[x] = "consume"
  <2>1. token[x] \in Tokens /\ holder[token[x]] = x
    BY <1>1, <1>6 DEF DoneInv, PhaseInv
  <2>2. status[token[x]] = "active" /\ staged[token[x]] = "consumed"
    BY <1>4, <1>6, <2>1 DEF HeldInv
  <2>3. \A t \in Tokens : holder[t] = x <=> t = token[x]
    BY <1>6, <2>1 DEF HeldInv
  <2>4. status' = Links!Become({token[x]}, "consumed")
    BY <1>2, <2>2, <2>3 DEF Links!Become
  <2>5. Links!Answers(x, "consume", a)
    BY <1>1, <1>2, <1>6 DEF Links!Answers
  <2>6. credentials' \in {credentials, token[x]}
    BY <1>2, <1>6 DEF WriterInv
  <2>7. a = "invalid_url" => credentials' = credentials
    BY <1>1, <1>2 DEF DoneInv
  <2>8. token[x] \in Links!Active
    BY <2>1, <2>2 DEF Links!Active
  <2> QED
    BY <1>1, <2>4, <2>5, <2>6, <2>7, <2>8 DEF Links!Consume
<1>7. CASE kind[x] = "cancel"
  <2>1. a = "ok" /\ userHolder # x
    BY <1>1, <1>7 DEF DoneInv, WriterInv
  <2>2. \A t \in Tokens : holder[t] = x <=> t \in seen[x] /\ status[t] = "active"
    BY <1>1, <1>4, <1>7, <2>1 DEF HeldInv, DoneInv
  <2>3. \A t \in Tokens : holder[t] = x => staged[t] = "cancelled"
    BY <1>7 DEF HeldInv
  <2>4. status' = Links!Become(seen[x] \cap Links!Active, "cancelled")
    BY <1>2, <2>2, <2>3 DEF Links!Become, Links!Active
  <2> QED
    BY <1>1, <1>2, <1>7, <2>1, <2>4 DEF Links!Cancel, Links!Answers
<1>8. CASE kind[x] = "disconnect"
  <2>1. a = "ok" /\ userHolder = x /\ stagedUser = "revoked" /\ credentials # "absent"
    BY <1>1, <1>8 DEF DoneInv, DisconnectInv
  <2>2. \A t \in Tokens : holder[t] = x <=> t \in seen[x] /\ status[t] = "active"
    BY <1>1, <1>4, <1>8, <2>1 DEF HeldInv, DisconnectInv
  <2>3. \A t \in Tokens : holder[t] = x => staged[t] = "invalidated"
    BY <1>8 DEF HeldInv
  <2>4. status' = Links!Become(seen[x] \cap Links!Active, "invalidated")
    BY <1>2, <2>2, <2>3 DEF Links!Become, Links!Active
  <2> QED
    BY <1>1, <1>2, <1>8, <2>1, <2>4 DEF Links!Disconnect, Links!Answers
<1> QED
  BY <1>3, <1>5, <1>6, <1>7, <1>8

LEMMA LinksInitMaps == Init => Links!LinksInit
BY DEF Init, Links!LinksInit, answered, Statement

LEMMA LinksStepMaps == EffectInv /\ [Next]_vars => [Links!LinksNext]_(Links!linkVars)
<1> SUFFICES ASSUME EffectInv, [Next]_vars
             PROVE  Links!LinksNext \/ UNCHANGED Links!linkVars
  OBVIOUS
<1>1. ASSUME NEW x \in Transactions,
             StartIssue(x) \/ StartConsume(x) \/ StartCancel(x) \/ StartDisconnect(x)
      PROVE  Links!LinksNext
  BY <1>1, AskMaps DEF Links!LinksNext
<1>2. ASSUME NEW x \in Transactions, Step(x) \/ ConnectionLost(x) \/ DeadlockDetected(x)
      PROVE  Links!LinksNext \/ UNCHANGED Links!linkVars
  <2>1. CASE \/ Scan(x) \/ Update(x) \/ Insert(x)
             \/ CreateOrUpdateUser(x) \/ InvalidUrl(x) \/ SignatureOnly(x) \/ Revoke(x)
    BY <2>1, StatementMaps DEF Links!LinksNext
  <2>2. CASE Commit(x)
    BY <2>2, CommitMaps DEF Links!LinksNext
  <2>3. CASE Rollback(x)
    BY <2>3, RollbackMaps DEF Links!LinksNext
  <2> QED
    BY <1>2, <2>1, <2>2, <2>3 DEF Step, UniqueViolation, ConnectionLost, DeadlockDetected
<1>3. ASSUME NEW t \in Tokens, Expire(t)
      PROVE  Links!LinksNext
  <2>1. Links!Expire(t)
    BY <1>3 DEF Expire, Links!Expire, Links!Issued, request, answered
  <2> QED
    BY <2>1 DEF Links!LinksNext
<1>4. ASSUME UNCHANGED vars
      PROVE  UNCHANGED Links!linkVars
  BY <1>4 DEF vars, Links!linkVars, answered
<1> QED
  BY <1>1, <1>2, <1>3, <1>4 DEF Next

\* At every moment the rows an open transaction has changed are what its request
\* will have done when it commits.
THEOREM EffectInvariant == Spec => []EffectInv
BY EffectInit, EffectStep, PTL DEF Spec

\* However the statements of requests overlap, each request takes effect at one
\* instant and is answered what became of it.
THEOREM EffectAtOnce == Spec => LinksTakeEffectAtOnce
BY EffectInvariant, LinksStepMaps, PTL DEF Spec, LinksTakeEffectAtOnce

\* The transactions implement SetupLinks.
THEOREM Refinement == Spec => Links!LinksSpec
BY LinksInitMaps, EffectAtOnce, PTL DEF Spec, LinksTakeEffectAtOnce, Links!LinksSpec

=============================================================================
