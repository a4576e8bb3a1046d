------------------------- MODULE MCConfirmedCommands -------------------------
(***************************************************************************)
(* Instances of ConfirmedCommands for TLC: two requests for one key, one   *)
(* processed in the handler and one through the queue, so that claims,     *)
(* records, purges and re-runs of one command meet; or a conversation that *)
(* proposes a command and confirms it twice.                               *)
(***************************************************************************)
EXTENDS ConfirmedCommands, TLC

CONSTANTS k1, c1, u1, u2, r1, q1, h1, h2, h3

Others      == {r1, q1}
AllRequests == Others \cup Confirmation
SomeSync    == {r1} \cup Confirmation
SomeKeys    == [r \in AllRequests |-> IF r \in Others THEN k1 ELSE c1]
SomeOwners  == [k \in Keys |-> IF k = c1 THEN u2 ELSE u1]

OthersBusy == {r \in Others : handler[r] # "idle"} # {}
Conversing == {h \in Handlers : at[h] # "idle"} # {}

\* The parts of the run: the others have requests and the scheduler may die twice;
\* or the user converses, and once a confirmation has reached the scheduler it may
\* die, or once a command has a record the user may leave.
Reached == {r \in Confirmation : handler[r] # "idle"} # {}

OneAtATime ==
    /\ Conversing => crashes > 0 /\ ~OthersBusy /\ (crashes = 1 \/ Reached)
    /\ revoked => crashes = 1 /\ opener[c1] # NoRequest

\* Until the first handler has proposed the command there is nothing to tap on;
\* the others are interchangeable, and named in the order in which they start.
InOrder ==
    /\ at[h2] # "idle" => at[h1] = "done"
    /\ at[h3] # "idle" => at[h2] # "idle"

LiveSpec ==
    /\ ConfirmedInit
    /\ [][ConfirmedNext /\ OneAtATime' /\ InOrder']_confirmedVars
    /\ Fairness

=============================================================================
