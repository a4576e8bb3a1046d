------------------------- MODULE MCConversationLoop -------------------------
(***************************************************************************)
(* Instances of ConversationLoop for TLC: enough events to propose two     *)
(* commands, tap on both, and have two handlers answer the same one.       *)
(***************************************************************************)
EXTENDS ConversationLoop, TLC

\* Neither ids nor handlers are ever compared but for equality.
Symmetry == Permutations(Commands) \cup Permutations(Handlers)

=============================================================================
