---------------------------- MODULE MCExactRead -----------------------------
(***************************************************************************)
(* TLC instances of ExactRead: the responses a search may give, and some   *)
(* that the client lets through although no search gives them.             *)
(***************************************************************************)
EXTENDS ExactRead

Hit(session, seq, time) == [session |-> session, seq |-> seq, time |-> time, kind |-> "user"]
C(query, rank, seq) == [query |-> query, rank |-> rank, seq |-> seq]
Candidate(session, contributions) == [session |-> session, contributions |-> contributions]

\* Two literals, found in one event and in two; a ranked hit no candidate names.
Shared ==
    [ranked |-> << <<Hit("a", 1, 1), Hit("b", 1, 1)>>, <<Hit("a", 1, 1), Hit("a", 2, 1), Hit("b", 2, 1)>> >>,
     fused |-> <<Candidate("a", {C(1, 1, 1), C(2, 1, 1)}), Candidate("b", {C(1, 2, 1), C(2, 3, 2)})>>]

\* One event at two ranks, with two times in the index.
Repeated ==
    [ranked |-> << <<Hit("a", 1, 1), Hit("a", 1, 2)>>, <<Hit("b", 1, 1)>> >>,
     fused |-> <<Candidate("a", {C(1, 1, 1)}), Candidate("a", {C(1, 2, 1)}), Candidate("b", {C(2, 1, 1)})>>]

\* A contribution that means another event than the one at its rank.
Unresolved ==
    [ranked |-> << <<Hit("a", 1, 1), Hit("b", 1, 1)>>, <<Hit("b", 2, 1)>> >>,
     fused |-> <<Candidate("a", {C(1, 1, 2)}), Candidate("b", {C(1, 2, 1), C(2, 1, 2)})>>]

\* More events of one session than a batch holds, and a second session after it.
Large ==
    [ranked |-> << <<Hit("a", 1, 1), Hit("a", 2, 1)>>, <<Hit("a", 3, 1), Hit("b", 1, 1)>> >>,
     fused |-> <<Candidate("a", {C(1, 1, 1), C(1, 2, 2)}), Candidate("a", {C(2, 1, 3)}), Candidate("b", {C(2, 2, 1)})>>]

\* Three sessions, of which two fill a batch only together.
Many ==
    [ranked |-> << <<Hit("a", 1, 1), Hit("b", 1, 1), Hit("b", 2, 1)>>, <<Hit("c", 1, 1)>> >>,
     fused |-> <<Candidate("b", {C(1, 2, 1), C(1, 3, 2)}), Candidate("a", {C(1, 1, 1)}),
                 Candidate("c", {C(2, 1, 1)})>>]

\* More pointers than candidates are allowed, one of them not a safe integer.
Beyond ==
    [ranked |-> << <<Hit("a", 1, 1), Hit("a", 9, 1), Hit("b", 1, 1)>>, <<Hit("b", 2, 1), Hit("a", 2, 1)>> >>,
     fused |-> <<Candidate("a", {C(1, 1, 1), C(1, 2, 9)}), Candidate("b", {C(1, 3, 1), C(2, 1, 2)}),
                 Candidate("a", {C(2, 2, 2)})>>]

Nothing == [ranked |-> << <<Hit("a", 1, 1)>> >>, fused |-> <<>>]

MCResponses == {Shared, Repeated, Unresolved, Large, Many, Beyond, Nothing}

\* As indexed, at the other time, with one literal only, and of a kind not allowed.
MCDocuments ==
    {[time |-> 1, kind |-> "user", has |-> {1, 2}], [time |-> 2, kind |-> "user", has |-> {1, 2}],
     [time |-> 1, kind |-> "user", has |-> {1}], [time |-> 1, kind |-> "tool", has |-> {1, 2}]}
=============================================================================
