---------------------------- MODULE MCSetupTokens ----------------------------
(***************************************************************************)
(* SetupTokens for TLC. Tokens and transactions are used up, never reused, *)
(* so the number of each bounds a behaviour.                               *)
(***************************************************************************)
EXTENDS SetupTokens

CONSTANTS connected, issuing    \* a token and a transaction

\* A later start: the user has connected with one link while a second /start,
\* which still found nobody, is about to issue another. Init leads here with two
\* more transactions, which have ended: the issue and the consumption.
ConnectedInit ==
    /\ status = [t \in Tokens |-> IF t = connected THEN "consumed" ELSE "unissued"]
    /\ expired = {}
    /\ credentials = connected
    /\ at = [x \in Transactions |-> IF x = issuing THEN "scan" ELSE "idle"]
    /\ kind = [x \in Transactions |-> IF x = issuing THEN "issue" ELSE "none"]
    /\ token = [x \in Transactions |->
                  IF x = issuing THEN CHOOSE t \in Tokens : t # connected ELSE None]
    /\ seen = [x \in Transactions |-> {}]
    /\ holder = [t \in Tokens |-> None]
    /\ staged = [t \in Tokens |-> "unissued"]
    /\ userHolder = None
    /\ stagedUser = "absent"

LiveSpec == (Init \/ ConnectedInit) /\ [][Next]_vars /\ Fairness

=============================================================================
