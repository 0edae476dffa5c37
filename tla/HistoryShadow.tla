---------------------------- MODULE HistoryShadow ----------------------------
(***************************************************************************)
(* The evidence policy of history-shadow.mjs: which pairs of paths of a    *)
(* repository are reported as changed together.  The module has one        *)
(* variable, the first-parent history; the report is a function of it.  The*)
(* tree of HEAD is one and fixed: Current and Eligible, and with them the  *)
(* limit on bulk diffs, do not move as the history gets longer.  A state is*)
(* one history that may end in that tree, and a step compares two of them. *)
(*                                                                         *)
(* A diff is the set of paths it changes.  Paths are numbers, in byte      *)
(* order.  The limits and gates of HISTORY_SHADOW_POLICY are constants, the*)
(* two fractions are the policy's.                                         *)
(***************************************************************************)
EXTENDS Naturals, Sequences, SequencesExt, FiniteSetsExt, Functions

CONSTANTS
    Current,        \* regular files of HEAD
    Eligible,       \* those that no list and no attribute excludes
    Directory,      \* path -> its directory
    Diff,           \* the diffs people may commit
    MaxHistory,     \* bound: revisions of the history
    ScanRevisions, RetainedDiffs, MaxDiffPaths, MaxPairObservations,
    BulkMinimum, BulkMaximum,
    PairRelativeEvents, OutputCandidates, FutureAnnotations,
    MinimumOpportunities, MinimumShared, RunnerUpMargin

ASSUME ShadowAssumption ==
    /\ Eligible \subseteq Current /\ Current \subseteq Nat /\ IsFiniteSet(Current)
    /\ \A d \in Diff : IsFiniteSet(d)
    /\ {ScanRevisions, RetainedDiffs, MaxDiffPaths, OutputCandidates, MinimumOpportunities, MinimumShared,
        FutureAnnotations, RunnerUpMargin} \subseteq Nat
    /\ RetainedDiffs <= ScanRevisions /\ PairRelativeEvents \in Nat \ {0}

VARIABLE history        \* newest first

Abstained == [status |-> "abstained", candidates |-> <<>>]

\* The elements of S in the order of R.
Arranged(S, R) ==
    [n \in 1..Cardinality(S) |-> CHOOSE x \in S : Cardinality({y \in S : <<y, x>> \in R}) = n - 1]

\* The elements of s at the positions of I, in their order.
Picked(s, I) == LET at == Arranged(I, {p \in I \X I : p[1] < p[2]}) IN [n \in DOMAIN at |-> s[at[n]]]

----------------------------------------------------------------------------
(* retainEligibleEvents                                                    *)

Surviving(diff) == diff \cap Eligible

BulkPathLimit == Min({BulkMaximum, Max({BulkMinimum, Cardinality(Eligible) \div 5})})

\* Empty, excluded-only, not current and bulk diffs
Omitted(diff) == Surviving(diff) = {} \/ Cardinality(Surviving(diff)) > BulkPathLimit

Scanned(h) == SubSeq(h, 1, Min({Len(h), ScanRevisions}))

\* Mutant: what is left out takes a place in the retained window.
ExaminedFirst(h) == {i \in DOMAIN Scanned(h) : i <= RetainedDiffs}

\* Positions of the scanned revisions that are looked at before the window is full.
Examined(h) ==
    {i \in DOMAIN Scanned(h) : Cardinality({j \in 1..i - 1 : ~ Omitted(h[j])}) < RetainedDiffs}

RetainEligibleEvents(h) ==
    LET kept == Picked(h, {i \in Examined(h) : ~ Omitted(h[i])})
    IN [n \in DOMAIN kept |-> Surviving(kept[n])]

DiffPathLimit(h) == \E i \in Examined(h) : Cardinality(h[i]) > MaxDiffPaths

----------------------------------------------------------------------------
(* statisticsForPair                                                       *)

Count(events, P(_)) == Cardinality({i \in DOMAIN events : P(events[i])})
Shared(events, l, r) == Count(events, LAMBDA e : {l, r} \subseteq e)
Touching(events, l, r) == Picked(events, {i \in DOMAIN events : {l, r} \cap events[i] # {}})

\* splitOrderedBands: older, middle and newer events
SplitOrderedBands(events) ==
    [b \in 1..3 |-> SubSeq(events, ((b - 1) * Len(events)) \div 3 + 1, (b * Len(events)) \div 3)]

Scope(events, l, r, mode) ==
    IF mode = "pair-relative-v1"
    THEN LET near == Touching(events, l, r) IN SubSeq(near, 1, Min({Len(near), PairRelativeEvents}))
    ELSE events

StatisticsForPair(events, l, r, mode) ==
    LET scope == Reverse(Scope(events, l, r, mode))
        bands == SplitOrderedBands(scope)
    IN [pair |-> <<l, r>>, support |-> Shared(events, l, r),
        left |-> Count(scope, LAMBDA e : l \in e), right |-> Count(scope, LAMBDA e : r \in e),
        shared |-> Shared(scope, l, r), opportunities |-> Len(Touching(scope, l, r)),
        bands |-> [b \in 1..3 |-> [shared |-> Shared(bands[b], l, r),
                                   opportunities |-> Len(Touching(bands[b], l, r))]]]

CandidateClearsGates(c) ==
    /\ c.opportunities >= MinimumOpportunities /\ c.shared >= MinimumShared
    /\ Min({c.left, c.right}) > 0
    /\ c.shared * 5 >= 3 * Min({c.left, c.right})
    /\ c.shared * 10 >= 3 * c.opportunities
    /\ \A b \in 1..3 : c.bands[b].shared >= 1

----------------------------------------------------------------------------
(* selectScopeCandidates                                                   *)

\* compareFractionsDescending and compareCandidates
Greater(n1, d1, n2, d2) == n2 * d1 < n1 * d2
Before(c, d) ==
    LET share(x) == Min({x.left, x.right})
    IN \/ c.support > d.support
       \/ /\ c.support = d.support
          /\ \/ Greater(c.shared, c.opportunities, d.shared, d.opportunities)
             \/ /\ ~ Greater(d.shared, d.opportunities, c.shared, c.opportunities)
                /\ \/ Greater(c.shared, share(c), d.shared, share(d))
                   \/ /\ ~ Greater(d.shared, share(d), c.shared, share(c))
                      /\ \/ c.pair[1] < d.pair[1]
                         \/ c.pair[1] = d.pair[1] /\ c.pair[2] < d.pair[2]

Ordered(candidates) == Arranged(candidates, {p \in candidates \X candidates : Before(p[1], p[2])})

Pairs == {p \in Eligible \X Eligible : p[1] < p[2] /\ Directory[p[1]] # Directory[p[2]]}

PairObservations(events) ==
    FoldSet(LAMBDA p, n : n + Shared(events, p[1], p[2]), 0, Pairs)

Qualified(events, mode) ==
    {c \in {StatisticsForPair(events, p[1], p[2], mode) : p \in
              {q \in Pairs : Shared(events, q[1], q[2]) >= MinimumShared}} : CandidateClearsGates(c)}

Paths(candidates) == UNION {{c.pair[1], c.pair[2]} : c \in ToSet(candidates)}

\* Mutant: only the first path of a pair is looked up.
TakeByFirstPath(chosen, c) ==
    IF Len(chosen) < OutputCandidates /\ c.pair[1] \notin Paths(chosen)
    THEN Append(chosen, c) ELSE chosen

\* The loop over the ordered candidates: usedPaths, and the break when it is full.
Take(chosen, c) ==
    IF Len(chosen) < OutputCandidates /\ {c.pair[1], c.pair[2]} \cap Paths(chosen) = {}
    THEN Append(chosen, c) ELSE chosen

\* What is chosen of the candidates, the best ones first.
Chosen(ordered) ==
    LET chosen[i \in 0..Len(ordered)] == IF i = 0 THEN <<>> ELSE Take(chosen[i - 1], ordered[i])
    IN chosen[Len(ordered)]

SelectScopeCandidates(events, mode) ==
    IF PairObservations(events) > MaxPairObservations THEN Abstained
    ELSE [status |-> "ok", candidates |-> Chosen(Ordered(Qualified(events, mode)))]

\* analyzeRepository
Report(h, mode) ==
    IF DiffPathLimit(h) THEN Abstained ELSE SelectScopeCandidates(RetainEligibleEvents(h), mode)

----------------------------------------------------------------------------
(* selectFutureAnnotations                                                 *)

Companion(c, path) == IF c.pair[1] = path THEN c.pair[2] ELSE c.pair[1]

Annotate(candidates, chosen, path) ==
    LET choices == Ordered({c \in candidates : CandidateClearsGates(c) /\ path \in {c.pair[1], c.pair[2]}})
        used == UNION {{a.route, a.companion} : a \in ToSet(chosen)}
    IN IF \/ Len(chosen) >= FutureAnnotations
          \/ path \in used
          \/ choices = <<>>
          \/ Len(choices) > 1 /\ choices[1].support < choices[2].support + RunnerUpMargin
          \/ Companion(choices[1], path) \in used
       THEN chosen
       ELSE Append(chosen, [route |-> path, companion |-> Companion(choices[1], path)])

SelectFutureAnnotations(routes, candidates) ==
    LET chosen[i \in 0..Len(routes)] ==
            IF i = 0 THEN <<>> ELSE Annotate(candidates, chosen[i - 1], routes[i])
    IN chosen[Len(routes)]

----------------------------------------------------------------------------

ShadowInit == history = <<>>
Commit(diff) == Len(history) < MaxHistory /\ history' = <<diff>> \o history
ShadowNext == \E diff \in Diff : Commit(diff)
ShadowSpec == ShadowInit /\ [][ShadowNext]_history

----------------------------------------------------------------------------
(* Properties                                                              *)

Mode == {"pair-relative-v1", "repository-window-v1"}
Routes == {r \in [1..3 -> Eligible] : IsInjective(r)}
Candidates(mode) == ToSet(Report(history, mode).candidates)

\* "100% mechanical truth": the bands of a candidate partition its events, its
\* counts agree with each other, and what is shared in scope is shared in the
\* retained window.
CandidatesAddUp ==
    \A mode \in Mode : \A c \in Candidates(mode) :
        LET Sum3(f(_)) == f(1) + f(2) + f(3)
        IN /\ Sum3(LAMBDA b : c.bands[b].shared) = c.shared
           /\ Sum3(LAMBDA b : c.bands[b].opportunities) = c.opportunities
           /\ c.left + c.right = c.shared + c.opportunities
           /\ c.shared <= c.support /\ (mode = "repository-window-v1" => c.shared = c.support)

\* "four non-path-reusing candidates per selector": of the qualified pairs in the
\* order of compareCandidates, no two chosen ones share a path, a better one is
\* reported first, and a pair is left out only for better ones: for one that has a
\* path of it, or for as many as are reported.
CandidatesDisjoint ==
    \A mode \in Mode :
        LET report == Report(history, mode)
            chosen == report.candidates
            Ends(c) == {c.pair[1], c.pair[2]}
            Better(i, c) == Before(chosen[i], c)
        IN /\ \A i, j \in DOMAIN chosen :
                 i < j => Ends(chosen[i]) \cap Ends(chosen[j]) = {} /\ Better(i, chosen[j])
           /\ report.status = "ok" =>
                 \A c \in Qualified(RetainEligibleEvents(history), mode) \ ToSet(chosen) :
                    \/ \E i \in DOMAIN chosen : Better(i, c) /\ Ends(chosen[i]) \cap Ends(c) # {}
                    \/ Len(chosen) = OutputCandidates /\ \A i \in DOMAIN chosen : Better(i, c)

\* "An event containing no remaining current path does not consume the retained
\* window": while the scan reaches the whole history, excluded-only, not current,
\* empty and bulk diffs change no report: over one tree of HEAD, the report is that of
\* the history without the diff.
OmittedChangesNothing ==
    (history # <<>> /\ Len(history) <= ScanRevisions /\ Omitted(Head(history))
        /\ Cardinality(Head(history)) <= MaxDiffPaths)
    => \A mode \in Mode : Report(history, mode) = Report(Tail(history), mode)

\* "no reused path": annotations chosen from all qualified pairs, for the routes
\* in any order, name no path twice.
AnnotationsReuseNoPath ==
    \A mode \in Mode :
        LET qualified == Qualified(RetainEligibleEvents(history), mode)
        IN \A routes \in Routes :
               LET chosen == SelectFutureAnnotations(routes, qualified)
               IN /\ Len(chosen) <= FutureAnnotations
                  /\ Cardinality(UNION {{a.route, a.companion} : a \in ToSet(chosen)}) = 2 * Len(chosen)

\* What the margin is for: of all qualified pairs with the annotated route, that of the
\* companion has by the margin the most support.
AnnotationsLead ==
    \A mode \in Mode :
        LET qualified == Qualified(RetainEligibleEvents(history), mode)
        IN \A routes \in Routes : \A a \in ToSet(SelectFutureAnnotations(routes, qualified)) :
               \E c \in qualified :
                   /\ {c.pair[1], c.pair[2]} = {a.route, a.companion}
                   /\ \A d \in qualified \ {c} :
                          a.route \in {d.pair[1], d.pair[2]} => c.support >= d.support + RunnerUpMargin

\* "Unrelated singleton events do not affect pair-relative counts": a diff of
\* one path leaves the counts of the qualified pairs it is not in as they were.
SingletonsAreLocal ==
    (history # <<>> /\ Cardinality(Head(history)) = 1) =>
        \A c \in Qualified(RetainEligibleEvents(Tail(history)), "pair-relative-v1") :
            Head(history) \cap {c.pair[1], c.pair[2]} = {} =>
                c \in Qualified(RetainEligibleEvents(history), "pair-relative-v1")

\* "the leading companion's retained-window shared support must exceed its
\* per-route runner-up by at least two events": also for annotations chosen from
\* the candidates of the report.
LeadersLead ==
    \A mode \in Mode :
        LET qualified == Qualified(RetainEligibleEvents(history), mode)
            reported == Candidates(mode)
            Support(p) == Max({0} \cup {c.support : c \in {d \in qualified : ToSet(d.pair) = p}})
        IN \A routes \in Routes : \A a \in ToSet(SelectFutureAnnotations(routes, reported)) :
               \A path \in Eligible \ {a.route, a.companion} :
                   Support({a.route, path}) > 0 =>
                       Support({a.route, a.companion}) >= Support({a.route, path}) + RunnerUpMargin
=============================================================================
