----------------------------- MODULE ExactRead ------------------------------
(***************************************************************************)
(* verifyDshSearchCandidates (session-index-dsh-source.mjs): what a search *)
(* found in the index is read again from the host's own session logs, and  *)
(* only the candidates whose every contribution is confirmed are returned. *)
(* The reads go out in bounded batches, one after the other ("grouped"),   *)
(* or one by one from a few workers that share a cursor ("filter", and     *)
(* "event", which tries a failed read once more).                          *)
(*                                                                         *)
(* A hit carries what the index says of an event: its time and its kind,   *)
(* which stands for the pair of event type and surface.  The document key  *)
(* is a function of the session and the number.  Titles, snippets and the  *)
(* checks of the shape of a response are left out; the host's answer to a  *)
(* batch may be malformed, which rejects the call.                         *)
(***************************************************************************)
EXTENDS Integers, FiniteSets, Sequences, SequencesExt

CONSTANTS
    Responses,      \* search responses: [ranked |-> per literal the hits by rank, fused |-> candidates]
    Documents,      \* what the host may hold at a coordinate: [time, kind, has |-> its literals]
    AllowedKinds,   \* eventTypeAllowList and surfaceAllowList of the caller
    MaxSafe,        \* Number.MAX_SAFE_INTEGER
    MaxCandidates, MaxConcurrency,
    MaxGroups, MaxCoordinates   \* MAX_SNAPSHOT_GROUPS, MAX_SNAPSHOT_COORDINATES

None == [time |-> 0, kind |-> "none", has |-> {}]

ASSUME ExactReadAssumption ==
    /\ None \notin Documents
    /\ \A r \in Responses :
           /\ r.fused \in Seq(ToSet(r.fused)) /\ r.ranked \in Seq(ToSet(r.ranked))
           /\ \A hits \in ToSet(r.ranked) : hits \in Seq(ToSet(hits))
    /\ {MaxCandidates, MaxConcurrency, MaxGroups, MaxCoordinates} \subseteq Nat \ {0}

VARIABLES
    response, mode,
    step,           \* of the call: "call", "reading", "verify", "ended"
    aborted,        \* the caller's signal
    chunks,         \* the batches not yet answered; the first one is in flight
    cursor, worker, \* of the readers: [at, index of the coordinate in the work]
    cancellation,   \* the host has answered with a cancellation error
    event,          \* what was read at each coordinate of the work
    rejected,       \* rejectedSessions
    outcome,        \* "none", "error" or "returned"
    result,         \* verifiedCandidates and verifiedEvidence
    reads           \* the batches and coordinates asked for, in order

vars == <<response, mode, step, aborted, chunks, cursor, worker, cancellation, event, rejected,
          outcome, result, reads>>

----------------------------------------------------------------------------
(* Elements in the order in which a loop of the code comes to them.        *)

\* The elements of a finite set S, each after those that R puts before it.
Arranged(S, R) ==
    [n \in 1..Cardinality(S) |-> CHOOSE x \in S : Cardinality({y \in S : <<y, x>> \in R}) = n - 1]

Ascending(S) == Arranged(S, {p \in S \X S : p[1] < p[2]})
Lexical(S) ==
    Arranged(S, {p \in S \X S : p[1][1] < p[2][1] \/ (p[1][1] = p[2][1] /\ p[1][2] < p[2][2])})

\* A sequence at some of its positions.
Picked(s, I) == LET at == Ascending(I) IN [n \in DOMAIN at |-> s[at[n]]]

\* A Set or a Map of the code, which keeps the order in which elements are first added.
DropRepeats(s) == Picked(s, {i \in DOMAIN s : \A j \in DOMAIN s : s[j] = s[i] => i <= j})

----------------------------------------------------------------------------
(* Which events are read.                                                  *)

Coordinate(hit) == <<hit.session, hit.seq>>

\* Some fused contribution names this rank of this source, and means this hit.
Referenced(r, query, rank) ==
    LET hit == r.ranked[query][rank]
    IN \E c \in ToSet(r.fused) : \E k \in c.contributions :
           k.query = query /\ k.rank = rank /\ c.session = hit.session /\ k.seq = hit.seq
Pointer(r, query, rank) == [query |-> query, rank |-> rank, hit |-> r.ranked[query][rank]]

Ranks(r) == UNION {{query} \X (DOMAIN r.ranked[query]) : query \in DOMAIN r.ranked}

ReferencedPointers(r) ==
    LET at == Lexical({x \in Ranks(r) : Referenced(r, x[1], x[2])})
    IN [n \in DOMAIN at |-> Pointer(r, at[n][1], at[n][2])]

\* Mutant: one pointer too few.
Short(n, s) == SubSeq(s, 1, IF Len(s) < n THEN Len(s) ELSE n - 1)

\* Pointers beyond the bound are passed over.
AtMost(n, s) == SubSeq(s, 1, IF Len(s) < n THEN Len(s) ELSE n)

Pointers(r) == AtMost(MaxCandidates, ReferencedPointers(r))

\* coordinates: one read for all the pointers to an event.
Work(r) ==
    LET pointers == Pointers(r) IN DropRepeats([i \in DOMAIN pointers |-> Coordinate(pointers[i].hit)])

----------------------------------------------------------------------------
(* groupedSnapshotChunks: batches of at most MaxGroups sessions and        *)
(* MaxCoordinates events; a session is in one batch if it fits into one.   *)

Eligible(work) == Picked(work, {i \in DOMAIN work : work[i][2] <= MaxSafe})
Group(session, seqs) == [session |-> session, seqs |-> seqs]
Size(groups) == Cardinality(UNION {{i} \X (DOMAIN groups[i].seqs) : i \in DOMAIN groups})

Flush(b) == IF b.current = <<>> THEN b ELSE [chunks |-> Append(b.chunks, b.current), current |-> <<>>]

\* Mutant: the events are not counted.
FullByGroups(b, n) == Len(b.current) >= MaxGroups

\* No room for a session with n events.
Full(b, n) == Len(b.current) >= MaxGroups \/ Size(b.current) + n > MaxCoordinates

AddSession(b, session, seqs) ==
    LET n == Len(seqs)
        slices == (n - 1) \div MaxCoordinates       \* full slices; a remainder is always left
        Slice(i) == SubSeq(seqs, (i - 1) * MaxCoordinates + 1, i * MaxCoordinates)
        rest == Group(session, SubSeq(seqs, slices * MaxCoordinates + 1, n))
    IN IF n > MaxCoordinates
       THEN [chunks |-> Flush(b).chunks \o [i \in 1..slices |-> <<Group(session, Slice(i))>>],
             current |-> <<rest>>]
       ELSE LET open == IF Full(b, n) THEN Flush(b) ELSE b
            IN [open EXCEPT !.current = Append(@, rest)]

Sessions(work) == DropRepeats([i \in DOMAIN work |-> work[i][1]])
SeqsOf(work, session) ==
    LET own == Picked(work, {i \in DOMAIN work : work[i][1] = session})
    IN [i \in DOMAIN own |-> own[i][2]]

\* After the first n sessions.
Grouped(work) ==
    LET b[n \in 0..Len(Sessions(work))] ==
            IF n = 0 THEN [chunks |-> <<>>, current |-> <<>>]
            ELSE AddSession(b[n - 1], Sessions(work)[n], SeqsOf(work, Sessions(work)[n]))
    IN b

GroupedChunks(work) == Flush(Grouped(work)[Len(Sessions(work))]).chunks

----------------------------------------------------------------------------
(* What is returned.                                                       *)

\* A pointer is confirmed by the event read at its coordinate.
Confirms(document, p) ==
    /\ document # None
    /\ document.kind \in AllowedKinds /\ document.kind = p.hit.kind
    /\ document.time = p.hit.time
    /\ p.query \in document.has

Evidence(query, session, seq) == [query |-> query, session |-> session, seq |-> seq]
EvidenceOf(p) == Evidence(p.query, p.hit.session, p.hit.seq)
ContributionOf(p) == [query |-> p.query, rank |-> p.rank, session |-> p.hit.session, seq |-> p.hit.seq]

\* observedEvidence: the confirmed pointers, by coordinate in the order of the work.
Observed(r, read) ==
    LET pointers == Pointers(r)
        work == Work(r)
        at == Lexical({x \in (DOMAIN work) \X (DOMAIN pointers) :
                           /\ Coordinate(pointers[x[2]].hit) = work[x[1]]
                           /\ Confirms(read[work[x[1]]], pointers[x[2]])})
    IN [n \in DOMAIN at |-> pointers[at[n][2]]]

\* verifiedContributionKeys: the rank is part of the key, so that a confirmed
\* pointer says nothing for another rank of the same event.
Verified(observed, session, k) ==
    [query |-> k.query, rank |-> k.rank, session |-> session, seq |-> k.seq]
        \in {ContributionOf(p) : p \in ToSet(observed)}

Retained(r, observed) ==
    Picked(r.fused, {i \in DOMAIN r.fused :
                         \A k \in r.fused[i].contributions : Verified(observed, r.fused[i].session, k)})

Result(r, read) ==
    LET observed == Observed(r, read)
        unique == DropRepeats([i \in DOMAIN observed |-> EvidenceOf(observed[i])])
        retained == Retained(r, observed)
        keys == UNION {{Evidence(k.query, c.session, k.seq) : k \in c.contributions} :
                           c \in ToSet(retained)}
    IN [candidates |-> retained, evidence |-> Picked(unique, {i \in DOMAIN unique : unique[i] \in keys})]

\* Mutant: the session keeps what its other batches brought.
SettledAsRead == event

\* A session that was rejected in one batch loses what was read of it in another.
Settled == [c \in DOMAIN event |-> IF c[1] \in rejected THEN None ELSE event[c]]

----------------------------------------------------------------------------
(* The call.                                                               *)

Idle == [at |-> "done", index |-> 0]
Thrown == [at |-> "threw", index |-> 0]
Reader == 1..MaxConcurrency

Init ==
    /\ response \in Responses
    /\ mode \in {"grouped", "filter", "event"}
    /\ step = "call" /\ aborted = FALSE
    /\ chunks = <<>> /\ cursor = 0 /\ worker = [w \in Reader |-> Idle] /\ cancellation = FALSE
    /\ event = << >> /\ rejected = {}
    /\ outcome = "none" /\ result = [candidates |-> <<>>, evidence |-> <<>>] /\ reads = <<>>

Reject == step' = "ended" /\ outcome' = "error" /\ UNCHANGED result
Asked(coordinates) ==
    LET safe == Eligible(coordinates) IN [i \in DOMAIN safe |-> <<Group(safe[i][1], <<safe[i][2]>>)>>]

\* The caller's signal: it fires while the call awaits something.
Abort ==
    /\ step # "ended" /\ ~ aborted
    /\ aborted' = TRUE
    /\ UNCHANGED <<response, mode, step, chunks, cursor, worker, cancellation, event, rejected,
                   outcome, result, reads>>

\* verifyDshSearchCandidates up to its first await.
CallAborted ==
    /\ step = "call" /\ aborted
    /\ Reject
    /\ UNCHANGED <<response, mode, aborted, chunks, cursor, worker, cancellation, event, rejected,
                   reads>>

CallGrouped ==
    /\ step = "call" /\ ~ aborted /\ mode = "grouped"
    /\ event' = [c \in ToSet(Work(response)) |-> None]
    /\ LET batches == GroupedChunks(Eligible(Work(response)))
       IN /\ chunks' = batches
          /\ step' = IF batches = <<>> THEN "verify" ELSE "reading"
          /\ reads' = IF batches = <<>> THEN reads ELSE <<Head(batches)>>
    /\ UNCHANGED <<response, mode, aborted, cursor, worker, cancellation, rejected, outcome, result>>

CallLegacy ==
    /\ step = "call" /\ ~ aborted /\ mode # "grouped"
    /\ LET work == Work(response)
           started == IF Len(work) < MaxConcurrency THEN Len(work) ELSE MaxConcurrency
       IN /\ event' = [c \in ToSet(work) |-> None]
          /\ cursor' = started
          /\ worker' = [w \in Reader |-> IF w <= started THEN [at |-> "reading", index |-> w] ELSE Idle]
          /\ reads' = Asked(SubSeq(work, 1, started))
          /\ step' = IF work = <<>> THEN "verify" ELSE "reading"
    /\ UNCHANGED <<response, mode, aborted, chunks, cancellation, rejected, outcome, result>>

----------------------------------------------------------------------------
(* readGroupedAuthoritativeDocuments: the batch in flight is answered.     *)

InFlight == mode = "grouped" /\ step = "reading"

\* After the answer the next batch goes out in the same step.
NextChunk ==
    /\ chunks' = Tail(chunks)
    /\ IF Tail(chunks) = <<>>
       THEN step' = "verify" /\ UNCHANGED reads
       ELSE step' = step /\ reads' = Append(reads, Head(Tail(chunks)))

\* Aborted, answered with a cancellation error, or with something malformed.
GroupedRejects ==
    /\ InFlight
    /\ Reject
    /\ UNCHANGED <<response, mode, aborted, chunks, cursor, worker, cancellation, event, rejected, reads>>

\* Any other failure of the call as a whole: its events stay unread.
GroupedFails ==
    /\ InFlight /\ ~ aborted
    /\ NextChunk
    /\ UNCHANGED <<response, mode, aborted, cursor, worker, cancellation, event, rejected, outcome, result>>

CoordinatesOf(groups) == UNION {{<<g.session, n>> : n \in ToSet(g.seqs)} : g \in ToSet(groups)}

\* One settlement per session: refused, or the documents found there.
GroupedSettles ==
    /\ InFlight /\ ~ aborted
    /\ \E refused \in SUBSET {g.session : g \in ToSet(Head(chunks))} :
           LET answered == {c \in CoordinatesOf(Head(chunks)) : c[1] \notin refused}
           IN \E found \in [answered -> Documents \cup {None}] :
                  /\ rejected' = rejected \cup refused
                  /\ event' = [c \in DOMAIN event |-> IF c \in answered THEN found[c] ELSE event[c]]
    /\ NextChunk
    /\ UNCHANGED <<response, mode, aborted, cursor, worker, cancellation, outcome, result>>

----------------------------------------------------------------------------
(* readLegacyAuthoritativeDocuments: the readers and their shared cursor.  *)

Reading(w) == step = "reading" /\ mode # "grouped" /\ worker[w].at \in {"reading", "again"}

Readable(c) == c[2] <= MaxSafe
ReadAt(w) == Work(response)[worker[w].index]

\* The loop of a reader after a read: it throws, ends, or takes the next coordinate.
\* A number beyond the safe integers is taken, and answered with nothing unread.
NextRead(w) ==
    LET work == Work(response)
    IN IF cursor = Len(work)
       THEN worker' = [worker EXCEPT ![w] = Idle] /\ UNCHANGED <<cursor, reads>>
       ELSE IF cancellation
       THEN worker' = [worker EXCEPT ![w] = Thrown] /\ UNCHANGED <<cursor, reads>>
       ELSE /\ worker' = [worker EXCEPT ![w] = [at |-> "reading", index |-> cursor + 1]]
            /\ cursor' = cursor + 1
            /\ reads' = reads \o Asked(SubSeq(work, cursor + 1, cursor + 1))

\* The read is answered with the event, with none, or fails for good.
LegacyAnswers(w) ==
    /\ Reading(w) /\ ~ aborted
    /\ \E found \in {None} \cup (IF Readable(ReadAt(w)) THEN Documents ELSE {}) :
           event' = [event EXCEPT ![ReadAt(w)] = found]
    /\ NextRead(w)
    /\ UNCHANGED <<response, mode, step, aborted, chunks, cancellation, rejected, outcome, result>>

\* readEvent alone: a read that fails is asked for once more in the older form.
LegacyRetries(w) ==
    /\ Reading(w) /\ ~ aborted /\ mode = "event"
    /\ worker[w].at = "reading" /\ Readable(ReadAt(w))
    /\ worker' = [worker EXCEPT ![w].at = "again"]
    /\ UNCHANGED <<response, mode, step, aborted, chunks, cursor, cancellation, event, rejected,
                   outcome, result, reads>>

\* Aborted, or the host's answer is a cancellation error.
LegacyCancelled(w) ==
    /\ Reading(w) /\ (aborted \/ Readable(ReadAt(w)))
    /\ cancellation' = TRUE
    /\ worker' = [worker EXCEPT ![w] = Thrown]
    /\ UNCHANGED <<response, mode, step, aborted, chunks, cursor, event, rejected, outcome, result, reads>>

\* Mutant: Promise.all goes on as soon as one reader has thrown.
OneReaderThrew ==
    \/ \A w \in Reader : worker[w].at \in {"done", "threw"}
    \/ \E w \in Reader : worker[w].at = "threw"

\* Promise.allSettled: the call goes on when every reader has ended.
ReadersEnded == \A w \in Reader : worker[w].at \in {"done", "threw"}

LegacySettled ==
    /\ step = "reading" /\ mode # "grouped" /\ ReadersEnded
    /\ step' = "verify"
    /\ UNCHANGED <<response, mode, aborted, chunks, cursor, worker, cancellation, event, rejected,
                   outcome, result, reads>>

Fails == aborted \/ \E w \in Reader : worker[w].at = "threw"

\* What was read is compared with what was found; the call returns.
Verify ==
    /\ step = "verify"
    /\ IF Fails
       THEN Reject /\ UNCHANGED event
       ELSE /\ event' = Settled
            /\ result' = Result(response, event')
            /\ step' = "ended" /\ outcome' = "returned"
    /\ UNCHANGED <<response, mode, aborted, chunks, cursor, worker, cancellation, rejected, reads>>

Done == step = "ended" /\ UNCHANGED vars

Next ==
    \/ Abort \/ CallAborted \/ CallGrouped \/ CallLegacy
    \/ GroupedRejects \/ GroupedFails \/ GroupedSettles
    \/ \E w \in Reader : LegacyAnswers(w) \/ LegacyRetries(w) \/ LegacyCancelled(w)
    \/ LegacySettled \/ Verify \/ Done

Spec == Init /\ [][Next]_vars

----------------------------------------------------------------------------
(* Properties.                                                             *)

Returned == outcome = "returned"
AskedFor(i) == CoordinatesOf(reads[i])

\* The event read at a coordinate stands for a hit of the index.
Stands(c, k) ==
    /\ k.query \in DOMAIN response.ranked /\ k.rank \in DOMAIN response.ranked[k.query]
    /\ LET hit == response.ranked[k.query][k.rank]
       IN /\ hit.session = c.session /\ hit.seq = k.seq
          /\ Coordinate(hit) \in DOMAIN event
          /\ hit.session \notin rejected
          /\ LET document == event[Coordinate(hit)]
             IN /\ document.kind \in AllowedKinds /\ document.kind = hit.kind
                /\ document.time = hit.time /\ k.query \in document.has
Proved(c) == \A k \in c.contributions : Stands(c, k)

\* "Verification fails closed": a candidate is returned only if the host itself
\* confirmed each of its contributions, at the very rank it names, in a session it
\* refused in no batch; and the evidence handed out is that of those candidates,
\* each once.
RetainedIsProved ==
    Returned =>
        /\ \A i \in DOMAIN result.candidates : Proved(result.candidates[i])
        /\ IsInjective(result.evidence)
        /\ ToSet(result.evidence) =
               UNION {{Evidence(k.query, c.session, k.seq) : k \in c.contributions} :
                          c \in ToSet(result.candidates)}

\* Unless the bound on candidates was reached, every event a contribution names is
\* asked for, and the result is all that was proved, in the order of the search.
NothingLost ==
    (Returned /\ Len(ReferencedPointers(response)) <= MaxCandidates) =>
        /\ \A p \in ToSet(ReferencedPointers(response)) :
               p.hit.seq <= MaxSafe => \E i \in DOMAIN reads : Coordinate(p.hit) \in AskedFor(i)
        /\ result.candidates =
               Picked(response.fused, {i \in DOMAIN response.fused : Proved(response.fused[i])})

\* "cancellation rejects the whole operation": no further event is asked for once
\* the caller has aborted or the host has answered with a cancellation, and such a
\* call returns nothing; and however it ends, it leaves no reader behind.
CancellationEndsReading ==
    [][ /\ (aborted \/ cancellation) => (reads' = reads /\ outcome' # "returned")
        /\ step' = "ended" => \A w \in Reader : worker'[w].at \in {"done", "threw"} ]_vars

\* "each (sessionId, seq) coordinate is read once" (readEvent's second form is the
\* same read, tried again), and only for a fused contribution; a batch respects both
\* bounds, and a session is in two batches only if it is too large for one.
ReadsFit ==
    /\ \A i, j \in DOMAIN reads : i # j => AskedFor(i) \cap AskedFor(j) = {}
    /\ \A i \in DOMAIN reads :
           /\ Len(reads[i]) <= MaxGroups /\ Size(reads[i]) <= MaxCoordinates
           /\ Cardinality(AskedFor(i)) = Size(reads[i])
           /\ \A c \in AskedFor(i) : \E f \in ToSet(response.fused) :
                  f.session = c[1] /\ \E k \in f.contributions : k.seq = c[2]
    /\ mode = "grouped" =>
           \A i, j \in DOMAIN reads : \A g \in ToSet(reads[i]), h \in ToSet(reads[j]) :
               (i # j /\ g.session = h.session)
               => Cardinality({c \in DOMAIN event : c[1] = g.session}) > MaxCoordinates
=============================================================================
