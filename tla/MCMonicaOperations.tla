-------------------------- MODULE MCMonicaOperations --------------------------
(***************************************************************************)
(* An instance of MonicaOperations for TLC: an account with two contacts,  *)
(* a page of one contact, and every kind of operation.                     *)
(***************************************************************************)
EXTENDS MonicaOperations

CONSTANTS c1, c2

TwoContacts == <<c1, c2>>

On(k, c, names) == [kind |-> k, contact |-> c, named |-> names]

SomeOperations ==
    {On(k, c1, {}) : k \in {"create", "add", "read", "list", "delete"}}
        \cup {On("nickname", c1, {"nickname"}), On("update", c1, {"name"}),
              On("update", c1, {"birthdate"})}

=============================================================================
