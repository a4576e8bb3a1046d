--------------------------- MODULE ContactResolution ---------------------------
(***************************************************************************)
(* Which contact a text means: the matcher scores every contact of the    *)
(* user's listing in monica-integration, the resolver settles on one of   *)
(* them or asks. The search_contacts tool shows the LLM the same ranking.  *)
(*                                                                         *)
(* Scores are in hundredths. The code subtracts floating-point scores: the *)
(* gaps 1.0 - 0.9 and 0.9 - 0.8 come out below its threshold of 0.1, hence *)
(* the strict comparison in Leads.                                         *)
(***************************************************************************)
EXTENDS Integers, SequencesExt

CONSTANTS
    Texts,          \* lower-case texts: queries, their words, names
    Empty,          \* the text without characters
    Normalized,     \* normalizeQuery, on texts
    Words,          \* the words of a text
    StartsWith,     \* pairs of different texts: the first starts with the second
    LongEnough,     \* texts of at least MIN_PREFIX_LENGTH characters
    Kinship,        \* KINSHIP_MAP: the labels a text may mean
    MaxCandidates,  \* MAX_DISAMBIGUATION_CANDIDATES
    MaxResults,     \* MAX_RESULTS
    Contacts,       \* the user's contacts, as monica-integration sums them up
    Listings,       \* listings that it may answer with
    NoAnswer

ASSUME ResolutionAssumption ==
    /\ Empty \in Texts /\ LongEnough \subseteq Texts
    /\ Normalized \in [Texts -> Texts]
    /\ Words \in [Texts -> Seq(Texts)]
    /\ StartsWith \subseteq Texts \X Texts
    /\ \A c \in Contacts : c.id \in Nat /\ c.last \in Nat
    /\ \A c, d \in Contacts : c.id = d.id => c = d
    /\ Listings \subseteq Seq(Contacts)
    /\ MaxCandidates \in Nat \ {0} /\ MaxResults \in Nat
    /\ MaxCandidates <= MaxResults

VARIABLE resolution   \* the last answer, with what it answers

-----------------------------------------------------------------------------
(* The matcher. A contact has an id, a display name, with and without the  *)
(* parenthesis at its end, aliases, labels of its relationships, and the   *)
(* day of the last interaction, 0 for none.                                *)

\* scoreRelationship
Related(t, c) == t \in c.labels \/ Kinship[t] \cap c.labels # {}

\* The scores that apply to a contact; a single word has no parts.
Scores(q, c) ==
    LET parts == IF Len(Words[q]) >= 2 THEN ToSet(Words[q]) ELSE {}
    IN  {s \in {60, 80, 90, 95, 100} :
            \/ s = 100 /\ q \in {c.display, c.stripped}
            \/ s = 95 /\ parts # {} /\ {Head(Words[q]), Last(Words[q])} \subseteq c.aliases
            \/ s = 90 /\ \E t \in {q} \cup parts : Related(t, c)
            \/ s = 80 /\ ({q} \cup (parts \cap LongEnough)) \cap c.aliases # {}
            \/ s = 60 /\ q \in LongEnough
                      /\ \E t \in c.aliases \cup {c.stripped} : <<t, q>> \in StartsWith}

\* scoreCandidate, 0 for no match.
Score(q, c) ==
    IF q = Empty THEN 0 ELSE CHOOSE s \in Scores(q, c) \cup {0} : \A t \in Scores(q, c) : t <= s

\* The order of the candidates: by score, the latest interaction, the id.
RankedBefore(q, a, b) ==
    LET x == Score(q, a)   y == Score(q, b)
    IN  \/ x > y
        \/ x = y /\ a.last > b.last
        \/ x = y /\ a.last = b.last /\ a.id <= b.id

\* matchContacts: where the matches are in the listing, and in which order.
Matches(q, listing) == {i \in DOMAIN listing : Score(Normalized[q], listing[i]) > 0}

Order(q, listing) ==
    CHOOSE p \in Bijection(1 .. Cardinality(Matches(q, listing)), Matches(q, listing)) :
        \A i, j \in DOMAIN p :
            i < j => RankedBefore(Normalized[q], listing[p[i]], listing[p[j]])

Ranking(q, listing) == [k \in DOMAIN Order(q, listing) |-> listing[Order(q, listing)[k]]]

FirstOf(n, ranking) == SubSeq(ranking, 1, IF Len(ranking) < n THEN Len(ranking) ELSE n)

-----------------------------------------------------------------------------
(* The resolver. *)

\* Faulty variant: a confident candidate need not be ahead of the second.
LeadsAnyway(q, ranking) == Score(Normalized[q], ranking[1]) >= 90

\* The first candidate is confident and clearly ahead of the second.
Leads(q, ranking) ==
    LET top == Score(Normalized[q], ranking[1])
    IN  top >= 90 /\ (Len(ranking) > 1 => top - Score(Normalized[q], ranking[2]) > 10)

Outcome(q, listing) ==
    LET ranking == Ranking(q, listing)
    IN  CASE ranking = << >> -> [outcome |-> "no_match", candidates |-> << >>]
          [] ranking # << >> /\ (Leads(q, ranking) \/ Len(ranking) = 1) ->
                 [outcome |-> "resolved", candidates |-> FirstOf(1, ranking)]
          [] OTHER ->
                 [outcome |-> "ambiguous", candidates |-> FirstOf(MaxCandidates, ranking)]

\* POST /internal/resolve-contact; a failed call of monica-integration answers
\* nothing. The search_contacts tool shows the best of the same ranking.
ResolveContact ==
    \E q \in Texts, listing \in Listings :
        resolution' = [query |-> q, listing |-> listing, answer |-> Outcome(q, listing),
                       shown |-> FirstOf(MaxResults, Ranking(q, listing))]

ResolutionInit == resolution = NoAnswer

ResolutionSpec == ResolutionInit /\ [][ResolveContact]_resolution

-----------------------------------------------------------------------------
\* A text that resolves to a contact means no other contact of the listing: each
\* of the others is the same contact, is no match or is clearly behind. A list
\* to choose from leaves out no contact that matches better than one it has, and
\* what it offers the LLM sees first. The order of the listing decides nothing.
ResolvedIsClear ==
    resolution # NoAnswer =>
        LET q == Normalized[resolution.query]   listing == resolution.listing
            answer == resolution.answer   chosen == ToSet(answer.candidates)
            Lags(c, d) == Score(q, d) = 0 \/ Score(q, c) - Score(q, d) > 10
        IN  /\ answer.outcome = "resolved" =>
                   \A c \in chosen : \A i \in DOMAIN listing : c = listing[i] \/ Lags(c, listing[i])
            /\ \A c \in chosen, d \in ToSet(listing) \ chosen : Score(q, c) >= Score(q, d)
            /\ IsPrefix(answer.candidates, resolution.shown)
            /\ \A i, j \in DOMAIN listing :
                   LET swapped == [listing EXCEPT ![i] = listing[j], ![j] = listing[i]]
                   IN  Outcome(resolution.query, swapped) = answer

=============================================================================
