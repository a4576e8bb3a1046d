------------------------------- MODULE MCAgent -------------------------------
(***************************************************************************)
(* Two requests of one user at the agent loop; and, by itself, because it  *)
(* keeps nothing between two requests, contact resolution on every listing *)
(* of up to three of four contacts, some of them listed twice.             *)
(***************************************************************************)
EXTENDS AgentTranscript, ContactResolution, TLC

MCTexts ==
    {"", "'s", "a", "an", "ann", "anna", "lee", "ann lee", "ann lee (annie)",
     "my", "mom", "my mom", "mom lee", "friend"}

MCNormalized ==
    [t \in MCTexts |-> CASE t = "'s" -> "" [] t = "my mom" -> "mom" [] OTHER -> t]

MCWords ==
    [t \in MCTexts |-> CASE t = "" -> << >>
                         [] t = "ann lee" -> <<"ann", "lee">>
                         [] t = "ann lee (annie)" -> <<"ann", "lee", "a">>
                         [] t = "my mom" -> <<"my", "mom">>
                         [] t = "mom lee" -> <<"mom", "lee">>
                         [] OTHER -> <<t>>]

MCStartsWith ==
    {p \in MCTexts \X MCTexts :
        Len(p[2]) < Len(p[1]) /\ SubSeq(p[1], 1, Len(p[2])) = p[2]}

MCLongEnough == {t \in MCTexts : Len(t) >= 2}

MCKinship == [t \in MCTexts |-> IF t = "mom" THEN {"parent", "child"} ELSE {}]

Contact(id, display, stripped, aliases, labels, last) ==
    [id |-> id, display |-> display, stripped |-> stripped, aliases |-> aliases,
     labels |-> labels, last |-> last]

MCContacts ==
    {Contact(1, "ann lee (annie)", "ann lee", {"ann", "lee"}, {"friend"}, 1),
     Contact(2, "anna", "anna", {"anna"}, {"parent"}, 0),
     Contact(3, "mom", "mom", {"mom"}, {}, 2),
     Contact(4, "lee", "lee", {"lee"}, {"friend"}, 1)}

MCListings == UNION {[1 .. n -> MCContacts] : n \in 0 .. 3}

MCInit == AgentInit /\ ResolutionInit

MCNext ==
    /\ resolution = NoAnswer
    /\ \/ AgentNext /\ UNCHANGED resolution
       \/ AgentInit /\ ResolveContact /\ UNCHANGED vars

MCSpec == MCInit /\ [][MCNext]_<<vars, resolution>>

Symmetry == Permutations(Handlers) \cup Permutations(Calls)
=============================================================================
