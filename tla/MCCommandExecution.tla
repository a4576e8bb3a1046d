-------------------------- MODULE MCCommandExecution --------------------------
(***************************************************************************)
(* Instances of CommandExecution for TLC, for what the repository's docs   *)
(* say of it: requests for one key, processed in the handler or through    *)
(* the queue. MCConfirmedCommands checks the rest.                         *)
(***************************************************************************)
EXTENDS CommandExecution, TLC

CONSTANTS k1, u1, r1, r2, q1

OneKey == [r \in Requests |-> k1]
OneOwner == [k \in Keys |-> u1]
SyncRequests == {r1, r2} \cap Requests

=============================================================================
