-------------------------- MODULE ExactReadProofs ---------------------------
(***************************************************************************)
(* Proofs about ExactRead: for any responses, documents and bounds, a      *)
(* cancellation rejects the whole call and leaves no reader behind, and a  *)
(* call that returns has computed its result from what the host answered.  *)
(*                                                                         *)
(* The readers of the older modes share a cursor and a flag.  A reader     *)
(* that threw never reads again, so the flag is never up without one that  *)
(* makes the call fail; and a call compares what was read only when every  *)
(* reader has ended.                                                       *)
(*                                                                         *)
(* Then what is asked for and what is returned.  The loops of the code are *)
(* arrangements of finite sets by a strict total order (Arranged), each of *)
(* which is a bijection; from that follow the pointers and coordinates of  *)
(* a response, the confirmed evidence, and, adding one session after the   *)
(* other, the batches: Planned says that they keep the bounds and are      *)
(* apart, Covered that they miss nothing.  The reads are at every moment   *)
(* the first batches of that plan, or the work up to the readers' cursor   *)
(* (AskedInv), so that a call that returns has asked for all of it.        *)
(***************************************************************************)
EXTENDS ExactRead, SequenceTheorems, FiniteSetTheorems, TLAPS

Settling == \A w \in Reader : worker[w].at \in {"done", "threw"}

\* What a reader's record looks like; its index may be anything.
ReaderShape ==
    /\ worker = [w \in Reader |-> worker[w]]
    /\ \A w \in Reader : "at" \in DOMAIN worker[w]

\* Readers are at work only while a call of the older modes reads.
ReadersAreAwaited == step # "reading" \/ mode = "grouped" => Settling

\* A cancellation leaves the reader that saw it behind as a witness.
CancellationIsSeen ==
    cancellation => /\ step # "call" /\ mode # "grouped"
                    /\ \E w \in Reader : worker[w].at = "threw"

\* A call that returned was neither aborted nor cancelled.
ReturnIsClean == outcome = "returned" => step = "ended" /\ ~ aborted /\ ~ cancellation

CancelInv ==
    /\ step \in {"call", "reading", "verify", "ended"}
    /\ aborted \in BOOLEAN /\ cancellation \in BOOLEAN
    /\ ReaderShape /\ ReadersAreAwaited /\ CancellationIsSeen /\ ReturnIsClean

----------------------------------------------------------------------------
(* The readers of one action.                                              *)

\* A call of the older modes with nothing to read starts no reader.
LEMMA CallStartsReaders ==
    ASSUME CancelInv, CallLegacy
    PROVE  ReaderShape' /\ ReadersAreAwaited'
<1> DEFINE work == Work(response)
           started == IF Len(work) < MaxConcurrency THEN Len(work) ELSE MaxConcurrency
<1>1. /\ worker' = [w \in Reader |-> IF w <= started THEN [at |-> "reading", index |-> w] ELSE Idle]
      /\ step' = IF work = <<>> THEN "verify" ELSE "reading"
      /\ mode' = mode /\ mode # "grouped"
  BY DEF CallLegacy
<1> HIDE DEF work
<1>2. ReaderShape'
  BY <1>1 DEF ReaderShape, Idle
<1>3. CASE work = <<>>
  <2>1. started = 0
    BY <1>3, ExactReadAssumption DEF ExactReadAssumption
  <2>2. \A w \in Reader : ~ (w <= started)
    BY <2>1, ExactReadAssumption DEF Reader, ExactReadAssumption
  <2>3. Settling'
    BY <1>1, <2>2 DEF Settling, Idle
  <2> QED BY <1>2, <2>3 DEF ReadersAreAwaited
<1>4. CASE work # <<>>
  BY <1>1, <1>2, <1>4 DEF ReadersAreAwaited
<1> QED BY <1>3, <1>4

\* A reader goes on, throws or ends; only it moves, and a cancellation stops the reading.
LEMMA ReaderMoves ==
    ASSUME CancelInv, NEW w \in Reader, Reading(w),
           LegacyAnswers(w) \/ LegacyRetries(w) \/ LegacyCancelled(w)
    PROVE  /\ worker' = [worker EXCEPT ![w] = worker'[w]]
           /\ "at" \in DOMAIN worker'[w]
           /\ UNCHANGED <<step, mode, aborted, outcome>>
           /\ \/ cancellation' = cancellation
              \/ cancellation' = TRUE /\ worker'[w].at = "threw"
           /\ aborted \/ cancellation => reads' = reads
<1>1. worker = [v \in Reader |-> worker[v]] /\ "at" \in DOMAIN worker[w]
  BY DEF CancelInv, ReaderShape
<1>2. CASE LegacyAnswers(w)
  <2> DEFINE next == [at |-> "reading", index |-> cursor + 1]
  <2>1. NextRead(w) /\ ~ aborted /\ UNCHANGED <<step, mode, aborted, cancellation, outcome>>
    BY <1>2 DEF LegacyAnswers
  <2>2. \/ worker' = [worker EXCEPT ![w] = Idle] /\ reads' = reads
        \/ worker' = [worker EXCEPT ![w] = Thrown] /\ reads' = reads
        \/ worker' = [worker EXCEPT ![w] = next] /\ ~ cancellation
    BY <2>1 DEF NextRead
  <2>3. \A r : worker' = [worker EXCEPT ![w] = r]
               => worker'[w] = r /\ worker' = [worker EXCEPT ![w] = worker'[w]]
    BY <1>1
  <2>4. "at" \in DOMAIN Idle /\ "at" \in DOMAIN Thrown /\ "at" \in DOMAIN next
    BY DEF Idle, Thrown
  <2> HIDE DEF next
  <2>5. worker' = [worker EXCEPT ![w] = worker'[w]] /\ "at" \in DOMAIN worker'[w]
    BY <2>2, <2>3, <2>4
  <2> QED BY <2>1, <2>2, <2>5
<1>3. CASE LegacyRetries(w)
  <2>1. /\ worker' = [worker EXCEPT ![w].at = "again"]
        /\ UNCHANGED <<step, mode, aborted, cancellation, outcome, reads>>
    BY <1>3 DEF LegacyRetries
  <2>2. worker' = [worker EXCEPT ![w] = worker'[w]] /\ "at" \in DOMAIN worker'[w]
    BY <1>1, <2>1
  <2> QED BY <2>1, <2>2
<1>4. CASE LegacyCancelled(w)
  <2>1. /\ worker' = [worker EXCEPT ![w] = Thrown] /\ cancellation' = TRUE
        /\ UNCHANGED <<step, mode, aborted, outcome, reads>>
    BY <1>4 DEF LegacyCancelled
  <2>2. worker'[w] = Thrown
    BY <1>1, <2>1
  <2>3. worker'[w].at = "threw" /\ "at" \in DOMAIN worker'[w]
    BY <2>2 DEF Thrown
  <2>4. worker' = [worker EXCEPT ![w] = worker'[w]]
    BY <2>1, <2>2
  <2> QED BY <2>1, <2>3, <2>4
<1> QED BY <1>2, <1>3, <1>4

----------------------------------------------------------------------------
(* The invariant.                                                          *)

LEMMA CancelInit == Init => CancelInv
<1> SUFFICES ASSUME Init PROVE CancelInv
  OBVIOUS
<1>1. /\ step = "call" /\ aborted = FALSE /\ cancellation = FALSE /\ outcome = "none"
      /\ worker = [w \in Reader |-> Idle]
  BY DEF Init
<1>2. ReaderShape /\ Settling
  BY <1>1 DEF ReaderShape, Settling, Idle
<1> QED BY <1>1, <1>2 DEF CancelInv, ReadersAreAwaited, CancellationIsSeen, ReturnIsClean

\* An action of the call itself leaves the readers as they are, and a call that goes on
\* past its reading has none.
LEMMA CallMoves ==
    ASSUME CancelInv,
           UNCHANGED <<worker, mode, cancellation>>, aborted' \in BOOLEAN,
           step' \in {"call", "reading", "verify", "ended"},
           step' = "call" => step = "call",
           step' # "reading" => Settling,
           step = "verify" => step' # "reading",
           step = "ended" => step' = "ended",
           step = "call" /\ step' = "reading" => mode = "grouped",
           outcome' = "returned" =>
               step' = "ended" /\ ~ aborted' /\ \A w \in Reader : worker[w].at # "threw"
    PROVE  CancelInv'
<1>1. ReaderShape' /\ CancellationIsSeen'
  BY DEF CancelInv, ReaderShape, CancellationIsSeen
<1>2. Settling' <=> Settling
  BY DEF Settling
<1>3. ReadersAreAwaited'
  BY <1>2 DEF CancelInv, ReadersAreAwaited
<1>4. ReturnIsClean'
  BY DEF CancelInv, ReturnIsClean, CancellationIsSeen
<1> QED BY <1>1, <1>3, <1>4 DEF CancelInv

LEMMA CancelNext == CancelInv /\ [Next]_vars => CancelInv'
<1> SUFFICES ASSUME CancelInv, [Next]_vars PROVE CancelInv'
  OBVIOUS
<1>1. CASE Abort
  <2>1. /\ UNCHANGED <<worker, mode, cancellation, step, outcome>>
        /\ aborted' = TRUE /\ step # "ended"
    BY <1>1 DEF Abort
  <2> QED BY <2>1, CallMoves DEF CancelInv, ReadersAreAwaited, ReturnIsClean
<1>2. CASE CallAborted
  BY <1>2, CallMoves DEF CallAborted, Reject, CancelInv, ReadersAreAwaited
<1>3. CASE CallGrouped
  <2>1. /\ UNCHANGED <<worker, mode, cancellation, aborted, outcome>>
        /\ step = "call" /\ mode = "grouped" /\ step' \in {"verify", "reading"}
    BY <1>3 DEF CallGrouped
  <2> QED BY <2>1, CallMoves DEF CancelInv, ReadersAreAwaited, ReturnIsClean
<1>4. CASE CallLegacy
  <2>1. /\ UNCHANGED <<mode, cancellation, aborted, outcome>>
        /\ step = "call" /\ step' \in {"verify", "reading"}
    BY <1>4 DEF CallLegacy
  <2>2. ReaderShape' /\ ReadersAreAwaited'
    BY <1>4, CallStartsReaders
  <2>3. ~ cancellation /\ outcome # "returned"
    BY <2>1 DEF CancelInv, CancellationIsSeen, ReturnIsClean
  <2> QED BY <2>1, <2>2, <2>3 DEF CancelInv, CancellationIsSeen, ReturnIsClean
<1>5. CASE GroupedRejects \/ GroupedFails \/ GroupedSettles
  <2>1. /\ UNCHANGED <<worker, mode, cancellation, aborted>>
        /\ mode = "grouped" /\ step = "reading" /\ step' \in {"reading", "verify", "ended"}
        /\ outcome' = outcome \/ outcome' = "error"
    BY <1>5 DEF GroupedRejects, GroupedFails, GroupedSettles, NextChunk, InFlight, Reject
  <2> QED BY <2>1, CallMoves DEF CancelInv, ReadersAreAwaited, ReturnIsClean
<1>6. ASSUME NEW w \in Reader, LegacyAnswers(w) \/ LegacyRetries(w) \/ LegacyCancelled(w)
      PROVE  CancelInv'
  <2>1. Reading(w)
    BY <1>6 DEF LegacyAnswers, LegacyRetries, LegacyCancelled
  <2>2. step = "reading" /\ mode # "grouped" /\ worker[w].at # "threw"
    BY <2>1 DEF Reading
  <2>3. /\ worker' = [worker EXCEPT ![w] = worker'[w]]
        /\ "at" \in DOMAIN worker'[w]
        /\ UNCHANGED <<step, mode, aborted, outcome>>
        /\ \/ cancellation' = cancellation
           \/ cancellation' = TRUE /\ worker'[w].at = "threw"
    BY <1>6, <2>1, ReaderMoves
  <2>4. ReaderShape' /\ \A v \in Reader \ {w} : worker'[v] = worker[v]
    <3>1. worker = [v \in Reader |-> worker[v]] /\ \A v \in Reader : "at" \in DOMAIN worker[v]
      BY DEF CancelInv, ReaderShape
    <3> QED BY <2>3, <3>1 DEF ReaderShape
  <2>5. CancellationIsSeen'
    <3>1. CASE cancellation' = cancellation
      BY <2>2, <2>3, <2>4, <3>1 DEF CancelInv, CancellationIsSeen
    <3>2. CASE worker'[w].at = "threw"
      BY <2>2, <2>3, <3>2 DEF CancellationIsSeen
    <3> QED BY <2>3, <3>1, <3>2
  <2>6. ReadersAreAwaited' /\ ReturnIsClean'
    BY <2>2, <2>3 DEF CancelInv, ReadersAreAwaited, ReturnIsClean
  <2>7. cancellation' \in BOOLEAN
    BY <2>3 DEF CancelInv
  <2> QED BY <2>3, <2>4, <2>5, <2>6, <2>7 DEF CancelInv
<1>7. CASE LegacySettled
  <2>1. /\ UNCHANGED <<worker, mode, cancellation, aborted, outcome>>
        /\ step = "reading" /\ step' = "verify" /\ Settling
    BY <1>7 DEF LegacySettled, ReadersEnded, Settling
  <2> QED BY <2>1, CallMoves DEF CancelInv, ReturnIsClean
<1>8. CASE Verify
  <2>1. /\ UNCHANGED <<worker, mode, cancellation, aborted>>
        /\ step = "verify" /\ step' = "ended"
        /\ outcome' = "returned" => ~ Fails
    BY <1>8 DEF Verify, Reject
  <2>2. outcome' = "returned" => ~ aborted' /\ \A w \in Reader : worker[w].at # "threw"
    BY <2>1 DEF Fails
  <2> QED BY <2>1, <2>2, CallMoves DEF CancelInv, ReadersAreAwaited
<1>9. CASE UNCHANGED vars
  BY <1>9 DEF vars, CancelInv, ReaderShape, ReadersAreAwaited, Settling, CancellationIsSeen, ReturnIsClean
<1>10. CASE Done
  BY <1>9, <1>10 DEF Done
<1> QED BY <1>1, <1>2, <1>3, <1>4, <1>5, <1>6, <1>7, <1>8, <1>9, <1>10 DEF Next

\* A reader works only while its call waits for it, a cancellation is never up without
\* the reader that makes the call fail, and a call that returned was not cancelled.
THEOREM CancelInvariant == Spec => []CancelInv
BY CancelInit, CancelNext, PTL DEF Spec

----------------------------------------------------------------------------
(* "cancellation rejects the whole operation": once the caller has aborted *)
(* or the host has answered with a cancellation nothing more is read and   *)
(* nothing is returned, and no call ends before its readers.               *)

LEMMA CancellationStep ==
    ASSUME CancelInv, [Next]_vars
    PROVE  [ /\ (aborted \/ cancellation) => (reads' = reads /\ outcome' # "returned")
             /\ step' = "ended" => \A w \in Reader : worker'[w].at \in {"done", "threw"} ]_vars
<1>1. CancelInv'
  BY CancelNext
<1>2. step' = "ended" => \A w \in Reader : worker'[w].at \in {"done", "threw"}
  BY <1>1 DEF CancelInv, ReadersAreAwaited, Settling
<1>3. SUFFICES ASSUME Next, aborted \/ cancellation PROVE reads' = reads /\ outcome' # "returned"
  BY <1>2
<1>4. outcome' # "returned"
  <2>1. aborted' \/ cancellation'
    BY <1>3 DEF Next, Abort, CallAborted, CallGrouped, CallLegacy, GroupedRejects, GroupedFails,
                GroupedSettles, LegacyAnswers, LegacyRetries, LegacyCancelled, LegacySettled, Verify, Done, vars
  <2> QED BY <1>1, <2>1 DEF CancelInv, ReturnIsClean
<1>5. reads' = reads
  <2>1. CASE Abort \/ CallAborted \/ GroupedRejects \/ LegacySettled \/ Verify \/ Done
    BY <2>1 DEF Abort, CallAborted, GroupedRejects, LegacySettled, Verify, Done, vars
  <2>2. CASE CallGrouped \/ CallLegacy
    BY <1>3, <2>2 DEF CallGrouped, CallLegacy, CancelInv, CancellationIsSeen
  <2>3. CASE GroupedFails \/ GroupedSettles
    BY <1>3, <2>3 DEF GroupedFails, GroupedSettles, InFlight, CancelInv, CancellationIsSeen
  <2>4. ASSUME NEW w \in Reader, LegacyAnswers(w) \/ LegacyRetries(w) \/ LegacyCancelled(w)
        PROVE  reads' = reads
    <3>1. Reading(w)
      BY <2>4 DEF LegacyAnswers, LegacyRetries, LegacyCancelled
    <3> QED BY <1>3, <2>4, <3>1, ReaderMoves
  <2> QED BY <1>3, <2>1, <2>2, <2>3, <2>4 DEF Next
<1> QED BY <1>2, <1>4, <1>5

\* For any number of readers, batches and failures: no read goes out and nothing is
\* returned after a cancellation, and a call that ends leaves no reader behind.
THEOREM CancellationRejectsTheCall == Spec => CancellationEndsReading
BY CancelInit, CancelNext, CancellationStep, PTL DEF Spec, CancellationEndsReading

----------------------------------------------------------------------------
(* What a call returns is computed from what the host answered.            *)

\* What was read of the work: a document of the host, or nothing.
ReadShape ==
    /\ DOMAIN event = ToSet(Work(response))
    /\ \A c \in DOMAIN event : event[c] \in Documents \cup {None}

\* The result is that of the events read, and none of a rejected session counts.
ResultShape ==
    /\ result = Result(response, event)
    /\ \A c \in DOMAIN event : c[1] \in rejected => event[c] = None

ReadInv ==
    /\ step \in {"reading", "verify"} \/ Returned => ReadShape
    /\ Returned => step = "ended" /\ ResultShape

\* A step that leaves what was read as it is, and returns nothing.
LEMMA ReadStays ==
    ASSUME ReadInv, UNCHANGED <<response, event>>, outcome' # "returned",
           step' \in {"reading", "verify"} => step \in {"reading", "verify"}
    PROVE  ReadInv'
<1>1. Work(response)' = Work(response)
  OBVIOUS
<1>2. ReadShape => ReadShape'
  BY <1>1 DEF ReadShape
<1> QED BY <1>2 DEF ReadInv, Returned

\* A step that reads.
LEMMA ReadGrows ==
    ASSUME response' = response, outcome' # "returned", ReadShape'
    PROVE  ReadInv'
BY DEF ReadInv, Returned

LEMMA ReadNext == ReadInv /\ [Next]_vars => ReadInv'
<1> SUFFICES ASSUME ReadInv, [Next]_vars PROVE ReadInv'
  OBVIOUS
<1>0. step # "ended" => outcome # "returned"
  BY DEF ReadInv, Returned
<1>1. CASE Abort \/ CallAborted \/ GroupedRejects \/ GroupedFails \/ LegacySettled
  <2>1. UNCHANGED <<response, event>> /\ outcome' # "returned"
    BY <1>0, <1>1 DEF Abort, CallAborted, GroupedRejects, GroupedFails, LegacySettled, Reject, InFlight
  <2>2. step' \in {"reading", "verify"} => step \in {"reading", "verify"}
    BY <1>1 DEF Abort, CallAborted, GroupedRejects, GroupedFails, LegacySettled, Reject, InFlight
  <2> QED BY <2>1, <2>2, ReadStays
<1>2. CASE CallGrouped \/ CallLegacy
  <2>1. /\ response' = response /\ outcome' # "returned"
        /\ event' = [c \in ToSet(Work(response)) |-> None]
    BY <1>0, <1>2 DEF CallGrouped, CallLegacy
  <2>2. Work(response)' = Work(response)
    BY <2>1
  <2>3. ReadShape'
    BY <2>1, <2>2 DEF ReadShape
  <2> QED BY <2>1, <2>3, ReadGrows
<1>3. CASE GroupedSettles
  <2>1. response' = response /\ outcome' # "returned" /\ ReadShape
    BY <1>0, <1>3 DEF GroupedSettles, InFlight, ReadInv
  <2>2. PICK refused : \E found \in [{c \in CoordinatesOf(Head(chunks)) : c[1] \notin refused}
                                        -> Documents \cup {None}] :
            event' = [c \in DOMAIN event |->
                         IF c \in {d \in CoordinatesOf(Head(chunks)) : d[1] \notin refused}
                         THEN found[c] ELSE event[c]]
    BY <1>3 DEF GroupedSettles
  <2> DEFINE answered == {c \in CoordinatesOf(Head(chunks)) : c[1] \notin refused}
  <2> HIDE DEF answered
  <2>3. PICK found \in [answered -> Documents \cup {None}] :
            event' = [c \in DOMAIN event |-> IF c \in answered THEN found[c] ELSE event[c]]
    BY <2>2 DEF answered
  <2>4. ReadShape'
    BY <2>1, <2>3 DEF ReadShape
  <2> QED BY <2>1, <2>4, ReadGrows
<1>4. ASSUME NEW w \in Reader, LegacyAnswers(w) PROVE ReadInv'
  <2>1. response' = response /\ outcome' # "returned" /\ ReadShape
    BY <1>0, <1>4 DEF LegacyAnswers, Reading, ReadInv
  <2>2. PICK found \in Documents \cup {None} : event' = [event EXCEPT ![ReadAt(w)] = found]
    BY <1>4 DEF LegacyAnswers
  <2>3. ReadShape'
    BY <2>1, <2>2 DEF ReadShape
  <2> QED BY <2>1, <2>3, ReadGrows
<1>5. ASSUME NEW w \in Reader, LegacyRetries(w) \/ LegacyCancelled(w) PROVE ReadInv'
  <2>1. UNCHANGED <<response, event, step>> /\ outcome' # "returned"
    BY <1>0, <1>5 DEF LegacyRetries, LegacyCancelled, Reading
  <2> QED BY <2>1, ReadStays
<1>6. CASE Verify
  <2>1. CASE Fails
    <3>1. UNCHANGED <<response, event>> /\ step' = "ended" /\ outcome' # "returned"
      BY <1>6, <2>1 DEF Verify, Reject
    <3> QED BY <3>1, ReadStays
  <2>2. CASE ~ Fails
    <3>1. /\ response' = response /\ rejected' = rejected
          /\ event' = Settled /\ result' = Result(response, event') /\ step' = "ended"
      BY <1>6, <2>2 DEF Verify
    <3>2. ReadShape
      BY <1>6 DEF Verify, ReadInv
    <3>3. /\ DOMAIN event' = DOMAIN event
          /\ \A c \in DOMAIN event : event'[c] = IF c[1] \in rejected THEN None ELSE event[c]
      BY <3>1 DEF Settled
    <3>4. ReadShape'
      BY <3>1, <3>2, <3>3 DEF ReadShape
    <3>5. ResultShape'
      BY <3>1, <3>3 DEF ResultShape
    <3> QED BY <3>1, <3>4, <3>5 DEF ReadInv
  <2> QED BY <2>1, <2>2
<1>7. CASE UNCHANGED vars
  <2>1. ReadShape' = ReadShape /\ ResultShape' = ResultShape
    BY <1>7 DEF vars, ReadShape, ResultShape
  <2> QED BY <1>7, <2>1 DEF vars, ReadInv, Returned
<1>8. CASE Done
  BY <1>7, <1>8 DEF Done
<1> QED BY <1>1, <1>2, <1>3, <1>4, <1>5, <1>6, <1>7, <1>8 DEF Next

\* "Verification fails closed", the part of it that is about the order of steps: a call
\* returns what follows from documents the host itself gave, at the coordinates of its
\* work, and of a session refused in any batch it counts none, whenever it was read.
THEOREM ResultIsOfWhatWasRead == Spec => [](Returned => ReadShape /\ ResultShape)
<1>1. Init => ReadInv
  BY DEF Init, ReadInv, Returned
<1>2. ReadInv => (Returned => ReadShape /\ ResultShape)
  BY DEF ReadInv
<1> QED BY <1>1, <1>2, ReadNext, PTL DEF Spec

----------------------------------------------------------------------------
(* The operators that put elements into the order of a loop.               *)

\* R is a strict total order on S.
Orders(R, S) ==
    /\ \A x \in S : <<x, x>> \notin R
    /\ \A x, y, z \in S : <<x, y>> \in R /\ <<y, z>> \in R => <<x, z>> \in R
    /\ \A x, y \in S : x # y => <<x, y>> \in R \/ <<y, x>> \in R

\* An arrangement has every element of the set once, and those that R puts first before.
LEMMA ArrangedIsBijection ==
    ASSUME NEW S, IsFiniteSet(S), NEW R, Orders(R, S)
    PROVE  /\ Cardinality(S) \in Nat
           /\ Arranged(S, R) \in [1..Cardinality(S) -> S]
           /\ \A x \in S : \E n \in 1..Cardinality(S) : Arranged(S, R)[n] = x
           /\ \A m, n \in 1..Cardinality(S) : Arranged(S, R)[m] = Arranged(S, R)[n] => m = n
           /\ \A m, n \in 1..Cardinality(S) : m < n => <<Arranged(S, R)[m], Arranged(S, R)[n]>> \in R
<1> DEFINE Before(x) == {y \in S : <<y, x>> \in R}
           N == Cardinality(S)
           rank == [x \in S |-> Cardinality(Before(x)) + 1]
           A == Arranged(S, R)
<1>1. N \in Nat
  BY FS_CardinalityType
<1>2. \A x \in S : IsFiniteSet(Before(x)) /\ Cardinality(Before(x)) \in 0..N-1
  <2> TAKE x \in S
  <2>1. Before(x) \in SUBSET S /\ x \notin Before(x)
    BY DEF Orders
  <2> HIDE DEF Before
  <2>2. IsFiniteSet(Before(x)) /\ Cardinality(Before(x)) <= N /\ Cardinality(Before(x)) # N
    BY <2>1, FS_Subset
  <2>3. Cardinality(Before(x)) \in Nat
    BY <2>2, FS_CardinalityType
  <2> QED BY <1>1, <2>2, <2>3
<1>3. \A x, y \in S : <<x, y>> \in R => Cardinality(Before(x)) < Cardinality(Before(y))
  <2> SUFFICES ASSUME NEW x \in S, NEW y \in S, <<x, y>> \in R
               PROVE  Cardinality(Before(x)) < Cardinality(Before(y))
    OBVIOUS
  <2>1. Before(x) \in SUBSET Before(y) /\ x \in Before(y) /\ x \notin Before(x)
    BY DEF Orders
  <2> HIDE DEF Before
  <2>2. IsFiniteSet(Before(y)) /\ Cardinality(Before(x)) \in Nat /\ Cardinality(Before(y)) \in Nat
    BY <1>1, <1>2
  <2>3. Cardinality(Before(x)) <= Cardinality(Before(y)) /\ Cardinality(Before(x)) # Cardinality(Before(y))
    BY <2>1, <2>2, FS_Subset
  <2> QED BY <2>2, <2>3
<1>4. rank \in [S -> 1..N] /\ \A x \in S : rank[x] = Cardinality(Before(x)) + 1
  <2> HIDE DEF Before, N
  <2> QED BY <1>1, <1>2
<1>5. \A x, y \in S : <<x, y>> \in R => rank[x] < rank[y]
  <2> HIDE DEF Before, rank, N
  <2> QED BY <1>1, <1>2, <1>3, <1>4
<1>6. \A x, y \in S : rank[x] = rank[y] => x = y
  <2> SUFFICES ASSUME NEW x \in S, NEW y \in S, rank[x] = rank[y], x # y PROVE FALSE
    OBVIOUS
  <2>1. <<x, y>> \in R \/ <<y, x>> \in R
    BY DEF Orders
  <2>2. rank[x] \in 1..N /\ rank[y] \in 1..N
    BY <1>4
  <2> HIDE DEF rank
  <2> QED BY <1>1, <1>5, <2>1, <2>2
<1>7. \A n \in 1..N : \E x \in S : rank[x] = n
  <2> HIDE DEF rank
  <2>1. IsFiniteSet(1..N) /\ Cardinality(1..N) = N
    BY <1>1, FS_Interval
  <2>2. rank \in Injection(S, 1..N)
    BY <1>4, <1>6 DEF Injection, IsInjective
  <2>3. rank \in Surjection(S, 1..N)
    BY <2>1, <2>2, FS_Injection
  <2> QED BY <2>3 DEF Surjection
<1> DEFINE at(n) == CHOOSE x \in S : Cardinality(Before(x)) = n - 1
<1>8. A = [n \in 1..N |-> at(n)]
  BY DEF Arranged
<1>9. \A n \in 1..N : A[n] \in S /\ rank[A[n]] = n
  <2> TAKE n \in 1..N
  <2>1. PICK x \in S : rank[x] = n
    BY <1>7
  <2> HIDE DEF Before, rank, A, at
  <2>0. A[n] = at(n)
    BY <1>8
  <2>2. Cardinality(Before(x)) = n - 1
    BY <1>1, <1>2, <1>4, <2>1
  <2>3. A[n] \in S /\ Cardinality(Before(A[n])) = n - 1
    BY <2>0, <2>2 DEF at
  <2> QED BY <1>4, <2>3
<1>10. A \in [1..N -> S]
  <2>1. A = [n \in 1..N |-> A[n]]
    <3> HIDE DEF A, at, N
    <3> QED BY <1>8
  <2> HIDE DEF A, N
  <2> QED BY <1>9, <2>1
<1> HIDE DEF A, N, rank, Before
<1>11. \A x \in S : A[rank[x]] = x /\ rank[x] \in 1..N
  BY <1>4, <1>6, <1>9
<1>12. \A m, n \in 1..N : m < n => <<A[m], A[n]>> \in R
  <2> SUFFICES ASSUME NEW m \in 1..N, NEW n \in 1..N, m < n PROVE <<A[m], A[n]>> \in R
    OBVIOUS
  <2>1. A[m] # A[n]
    BY <1>9
  <2>2. ~ (<<A[n], A[m]>> \in R)
    BY <1>1, <1>5, <1>9
  <2>3. \A x, y \in S : x # y => <<x, y>> \in R \/ <<y, x>> \in R
    BY DEF Orders
  <2> QED BY <1>9, <2>1, <2>2, <2>3
<1>13. (\A x \in S : \E n \in 1..N : A[n] = x) /\ \A m, n \in 1..N : A[m] = A[n] => m = n
  BY <1>9, <1>11
<1> QED BY <1>1, <1>10, <1>12, <1>13 DEF A, N

\* Positions in ascending order.
LEMMA AscendingIsBijection ==
    ASSUME NEW S, S \subseteq Nat, IsFiniteSet(S)
    PROVE  /\ Cardinality(S) \in Nat
           /\ Ascending(S) \in [1..Cardinality(S) -> S]
           /\ \A x \in S : \E n \in 1..Cardinality(S) : Ascending(S)[n] = x
           /\ \A m, n \in 1..Cardinality(S) : Ascending(S)[m] = Ascending(S)[n] => m = n
<1> DEFINE R == {p \in S \X S : p[1] < p[2]}
<1>1. \A x, y \in S : <<x, y>> \in R <=> x < y
  OBVIOUS
<1>2. \A x, y, z \in S : ~ (x < x) /\ (x < y /\ y < z => x < z) /\ (x # y => x < y \/ y < x)
  OBVIOUS
<1>3. Ascending(S) = Arranged(S, R)
  BY DEF Ascending
<1> HIDE DEF R
<1>4. Orders(R, S)
  BY <1>1, <1>2 DEF Orders
<1> QED BY <1>3, <1>4, ArrangedIsBijection

\* Pairs of numbers in the order of a loop within a loop.
LEMMA LexicalIsBijection ==
    ASSUME NEW S, S \subseteq Nat \X Nat, IsFiniteSet(S)
    PROVE  /\ Cardinality(S) \in Nat
           /\ Lexical(S) \in [1..Cardinality(S) -> S]
           /\ \A x \in S : \E n \in 1..Cardinality(S) : Lexical(S)[n] = x
<1> DEFINE Less(x, y) == x[1] < y[1] \/ (x[1] = y[1] /\ x[2] < y[2])
           R == {p \in S \X S : Less(p[1], p[2])}
<1>1. \A x, y \in S : <<x, y>> \in R <=> Less(x, y)
  <2> HIDE DEF Less
  <2> QED OBVIOUS
<1>2. \A x, y, z \in S : ~ Less(x, x) /\ (Less(x, y) /\ Less(y, z) => Less(x, z))
  OBVIOUS
<1>3. \A x, y \in S : x # y => Less(x, y) \/ Less(y, x)
  OBVIOUS
<1>4. Lexical(S) = Arranged(S, R)
  BY DEF Lexical
<1> HIDE DEF R, Less
<1>5. Orders(R, S)
  BY <1>1, <1>2, <1>3 DEF Orders
<1> QED BY <1>4, <1>5, ArrangedIsBijection

----------------------------------------------------------------------------
(* Sequences: their shape, a choice of their positions, repeats dropped.   *)

IsSequence(s) == s \in Seq(ToSet(s))

\* What the positions of a sequence are.
LEMMA SequenceShape ==
    ASSUME NEW s, IsSequence(s)
    PROVE  Len(s) \in Nat /\ DOMAIN s = 1..Len(s) /\ s = [i \in 1..Len(s) |-> s[i]] /\ IsFiniteSet(DOMAIN s)
<1>1. Len(s) \in Nat /\ DOMAIN s = 1..Len(s) /\ s \in [1..Len(s) -> ToSet(s)]
  BY LenProperties DEF IsSequence
<1> QED BY <1>1, FS_Interval

\* A function on the first numbers is a sequence.
LEMMA FunctionIsSequence ==
    ASSUME NEW n \in Nat, NEW f, f = [i \in 1..n |-> f[i]]
    PROVE  IsSequence(f) /\ Len(f) = n /\ DOMAIN f = 1..n
<1>1. DOMAIN f = 1..n /\ \A i \in 1..n : f[i] \in ToSet(f)
  BY DEF ToSet
<1>2. f \in Seq(ToSet(f))
  <2> DEFINE T == ToSet(f)
  <2>1. f \in [1..n -> T]
    BY <1>1
  <2> HIDE DEF T
  <2>2. f \in Seq(T)
    BY <2>1
  <2> QED BY <2>2 DEF T
<1>3. Len(f) \in Nat /\ DOMAIN f = 1..Len(f)
  BY <1>2, LenProperties
<1>4. Len(f) = n
  BY <1>1, <1>3
<1> QED BY <1>1, <1>2, <1>4 DEF IsSequence

\* What is picked are the elements at the chosen positions.
LEMMA PickedIs ==
    ASSUME NEW s, IsSequence(s), NEW I, I \subseteq DOMAIN s
    PROVE  /\ IsSequence(Picked(s, I)) /\ Len(Picked(s, I)) = Cardinality(I)
           /\ \A i \in I : \E n \in DOMAIN Picked(s, I) : Picked(s, I)[n] = s[i]
           /\ \A n \in DOMAIN Picked(s, I) : \E i \in I : Picked(s, I)[n] = s[i]
           /\ (\A i, j \in I : s[i] = s[j] => i = j) => IsInjective(Picked(s, I))
<1> DEFINE at == Ascending(I)
           P == Picked(s, I)
           N == Cardinality(I)
<1>1. I \subseteq Nat /\ IsFiniteSet(I)
  BY SequenceShape, FS_Subset
<1>2. /\ N \in Nat /\ at \in [1..N -> I]
      /\ \A x \in I : \E n \in 1..N : at[n] = x
      /\ \A m, n \in 1..N : at[m] = at[n] => m = n
  BY <1>1, AscendingIsBijection
<1>3. P = [n \in DOMAIN at |-> s[at[n]]]
  BY DEF Picked
<1> HIDE DEF at, P, N
<1>4. DOMAIN P = 1..N /\ \A n \in 1..N : P[n] = s[at[n]]
  BY <1>2, <1>3
<1>5. IsSequence(P) /\ Len(P) = N
  <2>1. P = [n \in 1..N |-> P[n]]
    BY <1>2, <1>3
  <2> QED BY <1>2, <2>1, FunctionIsSequence
<1>6. \A i \in I : \E n \in DOMAIN P : P[n] = s[i]
  BY <1>2, <1>4
<1>7. \A n \in DOMAIN P : \E i \in I : P[n] = s[i]
  BY <1>2, <1>4
<1>8. (\A i, j \in I : s[i] = s[j] => i = j) => IsInjective(P)
  BY <1>2, <1>4 DEF IsInjective
<1> QED BY <1>5, <1>6, <1>7, <1>8 DEF P, N

\* A set of positions that is not empty has a least one.
LEMMA LeastPosition ==
    ASSUME NEW T, T \subseteq Nat, T # {}
    PROVE  \E x \in T : \A y \in T : x <= y
<1>1. PICK x \in T : \A y \in T : <<y, x>> \notin OpToRel(<, Nat)
  BY NatLessThanWellFounded, WFMin
<1>2. \A y \in T : ~(y < x)
  BY <1>1 DEF OpToRel
<1> QED BY <1>2

\* A Set of the code has the elements added to it, each once.
LEMMA DropRepeatsIs ==
    ASSUME NEW s, IsSequence(s)
    PROVE  /\ IsSequence(DropRepeats(s))
           /\ ToSet(DropRepeats(s)) = ToSet(s)
           /\ IsInjective(DropRepeats(s))
<1> DEFINE first == {i \in DOMAIN s : \A j \in DOMAIN s : s[j] = s[i] => i <= j}
           D == DropRepeats(s)
<1>0. DOMAIN s \subseteq Nat
  BY SequenceShape
<1>1. D = Picked(s, first) /\ first \subseteq DOMAIN s
  BY DEF DropRepeats
<1>2. \A i \in DOMAIN s : \E j \in first : s[j] = s[i]
  <2> TAKE i \in DOMAIN s
  <2> DEFINE T == {j \in DOMAIN s : s[j] = s[i]}
  <2>1. T \subseteq Nat /\ T # {}
    BY <1>0
  <2>2. PICK j \in T : \A k \in T : j <= k
    BY <2>1, LeastPosition
  <2>3. j \in first
    BY <2>2
  <2> QED BY <2>2, <2>3
<1>3. \A i, j \in first : s[i] = s[j] => i = j
  BY <1>0
<1> HIDE DEF first, D
<1>4. /\ IsSequence(D) /\ IsInjective(D)
      /\ \A i \in first : \E n \in DOMAIN D : D[n] = s[i]
      /\ \A n \in DOMAIN D : \E i \in first : D[n] = s[i]
  BY <1>1, <1>3, PickedIs
<1>5. ToSet(D) = ToSet(s)
  <2>1. \A x \in ToSet(D) : x \in ToSet(s)
    BY <1>1, <1>4 DEF ToSet
  <2>2. \A x \in ToSet(s) : x \in ToSet(D)
    BY <1>2, <1>4 DEF ToSet
  <2> QED BY <2>1, <2>2
<1> QED BY <1>4, <1>5 DEF D

----------------------------------------------------------------------------
(* What is read, and what of it is confirmed.                              *)

\* Every pair has its turn.
LEMMA LexicalIs ==
    ASSUME NEW S, S \subseteq Nat \X Nat, IsFiniteSet(S)
    PROVE  /\ Cardinality(S) \in Nat /\ DOMAIN Lexical(S) = 1..Cardinality(S)
           /\ \A n \in DOMAIN Lexical(S) : Lexical(S)[n] \in S
           /\ \A x \in S : \E n \in DOMAIN Lexical(S) : Lexical(S)[n] = x
BY LexicalIsBijection

\* A response has finitely many ranks.
LEMMA RanksAreFinite ==
    ASSUME NEW r \in Responses
    PROVE  IsFiniteSet(Ranks(r)) /\ Ranks(r) \subseteq Nat \X Nat
<1>1. IsSequence(r.ranked) /\ \A hits \in ToSet(r.ranked) : IsSequence(hits)
  BY ExactReadAssumption DEF ExactReadAssumption, IsSequence
<1> DEFINE Q == DOMAIN r.ranked
           of == [query \in Q |-> {query} \X (DOMAIN r.ranked[query])]
           All == {of[query] : query \in Q}
<1>2. Q \subseteq Nat /\ IsFiniteSet(Q)
  BY <1>1, SequenceShape
<1>3. \A query \in Q : DOMAIN r.ranked[query] \subseteq Nat /\ IsFiniteSet(DOMAIN r.ranked[query])
  <2> TAKE query \in Q
  <2>1. r.ranked[query] \in ToSet(r.ranked)
    BY DEF ToSet
  <2> QED BY <1>1, <2>1, SequenceShape
<1>4. \A query \in Q : IsFiniteSet(of[query]) /\ of[query] \subseteq Nat \X Nat
  <2> TAKE query \in Q
  <2>1. IsFiniteSet({query}) /\ IsFiniteSet(DOMAIN r.ranked[query])
    BY <1>3, FS_Singleton
  <2>2. of[query] = {query} \X (DOMAIN r.ranked[query])
    OBVIOUS
  <2>3. IsFiniteSet(of[query])
    BY <2>1, <2>2, FS_Product
  <2>4. of[query] \subseteq Nat \X Nat
    BY <1>2, <1>3, <2>2
  <2> QED BY <2>3, <2>4
<1>5. Ranks(r) = UNION All
  BY DEF Ranks
<1>6. DOMAIN of = Q
  OBVIOUS
<1> HIDE DEF of, Q
<1>7. of \in Surjection(Q, All)
  <2>1. of \in [Q -> All]
    <3>1. of = [query \in Q |-> of[query]]
      BY DEF of
    <3> QED BY <3>1
  <2> QED BY <2>1 DEF Surjection
<1>8. IsFiniteSet(All)
  BY <1>2, <1>7, FS_Surjection
<1> QED BY <1>4, <1>5, <1>8, FS_UNION

\* The pointers are those that a fused contribution names, and all of them.
LEMMA ReferencedPointersIs ==
    ASSUME NEW r \in Responses
    PROVE  /\ IsSequence(ReferencedPointers(r))
           /\ \A p \in ToSet(ReferencedPointers(r)) :
                  \E query \in DOMAIN r.ranked : \E rank \in DOMAIN r.ranked[query] :
                      Referenced(r, query, rank) /\ p = Pointer(r, query, rank)
           /\ \A query \in DOMAIN r.ranked : \A rank \in DOMAIN r.ranked[query] :
                  Referenced(r, query, rank) => Pointer(r, query, rank) \in ToSet(ReferencedPointers(r))
<1> DEFINE S == {x \in Ranks(r) : Referenced(r, x[1], x[2])}
           at == Lexical(S)
           P == ReferencedPointers(r)
<1>1. IsFiniteSet(S) /\ S \subseteq Nat \X Nat
  BY RanksAreFinite, FS_Subset
<1>2. P = [n \in DOMAIN at |-> Pointer(r, at[n][1], at[n][2])]
  BY DEF ReferencedPointers
<1>3. \A x \in S : /\ x[1] \in DOMAIN r.ranked /\ x[2] \in DOMAIN r.ranked[x[1]]
                   /\ Referenced(r, x[1], x[2])
  BY DEF Ranks
<1>4. \A query \in DOMAIN r.ranked : \A rank \in DOMAIN r.ranked[query] :
          Referenced(r, query, rank) => \E x \in S : x[1] = query /\ x[2] = rank
  <2> SUFFICES ASSUME NEW query \in DOMAIN r.ranked, NEW rank \in DOMAIN r.ranked[query],
                      Referenced(r, query, rank)
               PROVE  \E x \in S : x[1] = query /\ x[2] = rank
    OBVIOUS
  <2>1. <<query, rank>> \in Ranks(r)
    BY DEF Ranks
  <2> QED BY <2>1
<1> HIDE DEF S
<1>5. /\ Cardinality(S) \in Nat /\ DOMAIN at = 1..Cardinality(S)
      /\ \A n \in DOMAIN at : at[n] \in S
      /\ \A x \in S : \E n \in DOMAIN at : at[n] = x
  BY <1>1, LexicalIs
<1> HIDE DEF at, P
<1>6. DOMAIN P = 1..Cardinality(S) /\ \A n \in DOMAIN P : P[n] = Pointer(r, at[n][1], at[n][2])
  BY <1>2, <1>5
<1>7. IsSequence(P)
  <2>1. P = [n \in 1..Cardinality(S) |-> P[n]]
    BY <1>2, <1>5
  <2> QED BY <1>5, <2>1, FunctionIsSequence
<1>8. \A p \in ToSet(P) : \E query \in DOMAIN r.ranked : \E rank \in DOMAIN r.ranked[query] :
          Referenced(r, query, rank) /\ p = Pointer(r, query, rank)
  <2> SUFFICES ASSUME NEW n \in DOMAIN P
               PROVE  \E query \in DOMAIN r.ranked : \E rank \in DOMAIN r.ranked[query] :
                          Referenced(r, query, rank) /\ P[n] = Pointer(r, query, rank)
    BY DEF ToSet
  <2> QED BY <1>3, <1>5, <1>6
<1>9. \A query \in DOMAIN r.ranked : \A rank \in DOMAIN r.ranked[query] :
          Referenced(r, query, rank) => Pointer(r, query, rank) \in ToSet(P)
  <2> SUFFICES ASSUME NEW query \in DOMAIN r.ranked, NEW rank \in DOMAIN r.ranked[query],
                      Referenced(r, query, rank)
               PROVE  Pointer(r, query, rank) \in ToSet(P)
    OBVIOUS
  <2>1. PICK x \in S : x[1] = query /\ x[2] = rank
    BY <1>4
  <2>2. PICK n \in DOMAIN at : at[n] = x
    BY <1>5
  <2>3. n \in DOMAIN P /\ P[n] = Pointer(r, query, rank)
    BY <1>5, <1>6, <2>1, <2>2
  <2> QED BY <2>3 DEF ToSet
<1> QED BY <1>7, <1>8, <1>9 DEF P

\* A bound cuts a sequence off, or leaves it alone.
LEMMA AtMostIs ==
    ASSUME NEW n \in Nat, NEW s, IsSequence(s)
    PROVE  /\ IsSequence(AtMost(n, s)) /\ ToSet(AtMost(n, s)) \subseteq ToSet(s)
           /\ Len(s) <= n => AtMost(n, s) = s
<1> DEFINE len == Len(s)
           m == IF len < n THEN len ELSE n
           T == ToSet(s)
           A == AtMost(n, s)
<1>1. len \in Nat /\ \A i \in 1..len : s[i] \in T
  BY SequenceShape DEF ToSet
<1>a. A = SubSeq(s, 1, m)
  BY DEF AtMost
<1> HIDE DEF T, A, len
<1>b. m \in Nat /\ m <= len /\ (len <= n => m = len)
  BY <1>1
<1> HIDE DEF m
<1>2. m \in Nat /\ m <= len /\ (len <= n => m = len) /\ A = SubSeq(s, 1, m)
  BY <1>a, <1>b
<1>3. \A i \in 1..m : s[i] \in T
  BY <1>1, <1>2
<1>4. A \in Seq(T)
  BY <1>2, <1>3, SubSeqProperties
<1>5. Len(A) \in Nat /\ A \in [1..Len(A) -> T]
  BY <1>4, LenProperties
<1>6. ToSet(A) \subseteq T
  BY <1>5 DEF ToSet
<1>7. IsSequence(A)
  <2>1. A = [i \in 1..Len(A) |-> A[i]]
    BY <1>5
  <2> QED BY <1>5, <2>1, FunctionIsSequence
<1>8. len <= n => A = s
  BY <1>2, SubSeqFull DEF IsSequence, len
<1> QED BY <1>6, <1>7, <1>8 DEF A, T, len

\* The pointers and the work of a response; the work has each coordinate once.
LEMMA PointersAre ==
    ASSUME NEW r \in Responses
    PROVE  /\ IsSequence(Pointers(r))
           /\ ToSet(Pointers(r)) \subseteq ToSet(ReferencedPointers(r))
           /\ Len(ReferencedPointers(r)) <= MaxCandidates => Pointers(r) = ReferencedPointers(r)
           /\ IsSequence(Work(r)) /\ IsInjective(Work(r))
           /\ ToSet(Work(r)) = {Coordinate(p.hit) : p \in ToSet(Pointers(r))}
<1>1. /\ IsSequence(Pointers(r))
      /\ ToSet(Pointers(r)) \subseteq ToSet(ReferencedPointers(r))
      /\ Len(ReferencedPointers(r)) <= MaxCandidates => Pointers(r) = ReferencedPointers(r)
  <2>1. MaxCandidates \in Nat
    BY ExactReadAssumption DEF ExactReadAssumption
  <2> QED BY <2>1, ReferencedPointersIs, AtMostIs DEF Pointers
<1> DEFINE P == Pointers(r)
           C == [i \in DOMAIN P |-> Coordinate(P[i].hit)]
<1>2. IsSequence(C)
  <2>1. Len(P) \in Nat /\ DOMAIN P = 1..Len(P)
    BY <1>1, SequenceShape
  <2> HIDE DEF P
  <2>2. C = [i \in 1..Len(P) |-> C[i]]
    BY <2>1
  <2> HIDE DEF C
  <2> QED BY <2>1, <2>2, FunctionIsSequence
<1>3. Work(r) = DropRepeats(C)
  BY DEF Work
<1>4. ToSet(C) = {Coordinate(p.hit) : p \in ToSet(P)}
  <2> HIDE DEF P
  <2> QED BY DEF ToSet
<1> HIDE DEF C
<1> QED BY <1>1, <1>2, <1>3, <1>4, DropRepeatsIs

\* What is observed are the confirmed pointers, and all of them.
LEMMA ObservedIs ==
    ASSUME NEW r \in Responses, NEW read
    PROVE  /\ IsSequence(Observed(r, read))
           /\ ToSet(Observed(r, read)) =
                  {p \in ToSet(Pointers(r)) : Confirms(read[Coordinate(p.hit)], p)}
<1> DEFINE P == Pointers(r)
           W == Work(r)
           O == Observed(r, read)
           Is(x) == Coordinate(P[x[2]].hit) = W[x[1]] /\ Confirms(read[W[x[1]]], P[x[2]])
           S == {x \in (DOMAIN W) \X (DOMAIN P) : Is(x)}
           at == Lexical(S)
<1>1. /\ IsSequence(P) /\ IsSequence(W)
      /\ ToSet(W) = {Coordinate(p.hit) : p \in ToSet(P)}
  BY PointersAre
<1>2. O = [n \in DOMAIN at |-> P[at[n][2]]]
  BY DEF Observed
<1> HIDE DEF P, W, O
<1>3. /\ DOMAIN P \subseteq Nat /\ DOMAIN W \subseteq Nat
      /\ IsFiniteSet(DOMAIN P) /\ IsFiniteSet(DOMAIN W)
  BY <1>1, SequenceShape
<1>4. IsFiniteSet(S) /\ S \subseteq Nat \X Nat
  <2> HIDE DEF Is
  <2>1. IsFiniteSet((DOMAIN W) \X (DOMAIN P)) /\ S \in SUBSET ((DOMAIN W) \X (DOMAIN P))
    BY <1>3, FS_Product
  <2> QED BY <1>3, <2>1, FS_Subset
<1>5. \A x \in S : x[1] \in DOMAIN W /\ x[2] \in DOMAIN P /\ Is(x)
  <2> HIDE DEF Is
  <2> QED OBVIOUS
<1>6. \A i \in DOMAIN W : \A n \in DOMAIN P : Is(<<i, n>>) => <<i, n>> \in S
  <2> HIDE DEF Is
  <2> QED OBVIOUS
<1> HIDE DEF S
<1>7. /\ Cardinality(S) \in Nat /\ DOMAIN at = 1..Cardinality(S)
      /\ \A n \in DOMAIN at : at[n] \in S
      /\ \A x \in S : \E n \in DOMAIN at : at[n] = x
  BY <1>4, LexicalIs
<1> HIDE DEF at
<1>8. IsSequence(O)
  <2>1. O = [n \in 1..Cardinality(S) |-> O[n]]
    BY <1>2, <1>7
  <2> QED BY <1>7, <2>1, FunctionIsSequence
<1>9. \A n \in DOMAIN O : O[n] \in ToSet(P) /\ Confirms(read[Coordinate(O[n].hit)], O[n])
  <2> SUFFICES ASSUME NEW n \in DOMAIN O
               PROVE  O[n] \in ToSet(P) /\ Confirms(read[Coordinate(O[n].hit)], O[n])
    OBVIOUS
  <2>1. O[n] = P[at[n][2]] /\ at[n] \in S
    BY <1>2, <1>7
  <2>2. at[n][2] \in DOMAIN P /\ Is(at[n])
    BY <1>5, <2>1
  <2> QED BY <2>1, <2>2 DEF ToSet
<1>10. \A m \in DOMAIN P : Confirms(read[Coordinate(P[m].hit)], P[m]) => \E n \in DOMAIN O : O[n] = P[m]
  <2> SUFFICES ASSUME NEW m \in DOMAIN P, Confirms(read[Coordinate(P[m].hit)], P[m])
               PROVE  \E n \in DOMAIN O : O[n] = P[m]
    OBVIOUS
  <2>1. Coordinate(P[m].hit) \in ToSet(W)
    BY <1>1 DEF ToSet
  <2>2. PICK i \in DOMAIN W : W[i] = Coordinate(P[m].hit)
    BY <2>1 DEF ToSet
  <2>3. Is(<<i, m>>)
    BY <2>2
  <2>4. PICK n \in DOMAIN at : at[n] = <<i, m>>
    BY <1>6, <1>7, <2>3
  <2> QED BY <1>2, <2>4
<1>11. ToSet(O) = {p \in ToSet(P) : Confirms(read[Coordinate(p.hit)], p)}
  BY <1>9, <1>10 DEF ToSet
<1> QED BY <1>8, <1>11 DEF O, P

----------------------------------------------------------------------------
(* What a call returns is proved.                                          *)

KeysOf(candidates) ==
    UNION {{Evidence(k.query, c.session, k.seq) : k \in c.contributions} : c \in ToSet(candidates)}

\* What is retained is verified, and the evidence is that of what is retained, each once.
LEMMA ResultIs ==
    ASSUME NEW r \in Responses, NEW read
    PROVE  /\ \A i \in DOMAIN Result(r, read).candidates :
                  \A k \in Result(r, read).candidates[i].contributions :
                      Verified(Observed(r, read), Result(r, read).candidates[i].session, k)
           /\ IsInjective(Result(r, read).evidence)
           /\ ToSet(Result(r, read).evidence) = KeysOf(Result(r, read).candidates)
<1> DEFINE O == Observed(r, read)
           E == [i \in DOMAIN O |-> EvidenceOf(O[i])]
           U == DropRepeats(E)
           R == Retained(r, O)
           K == KeysOf(R)
           I == {i \in DOMAIN U : U[i] \in K}
           V == Picked(U, I)
<1>1. Result(r, read).candidates = R /\ Result(r, read).evidence = V
  BY DEF Result, KeysOf
<1>2. IsSequence(O)
  BY ObservedIs
<1>3. IsSequence(E)
  <2>1. Len(O) \in Nat /\ DOMAIN O = 1..Len(O)
    BY <1>2, SequenceShape
  <2> HIDE DEF O
  <2>2. E = [i \in 1..Len(O) |-> E[i]]
    BY <2>1
  <2> HIDE DEF E
  <2> QED BY <2>1, <2>2, FunctionIsSequence
<1>4. ToSet(E) = {EvidenceOf(p) : p \in ToSet(O)}
  <2> HIDE DEF O
  <2> QED BY DEF ToSet
<1> HIDE DEF E
<1>5. IsSequence(U) /\ IsInjective(U) /\ ToSet(U) = ToSet(E)
  BY <1>3, DropRepeatsIs
<1>6. \A i \in DOMAIN R : \A k \in R[i].contributions : Verified(O, R[i].session, k)
  <2> DEFINE J == {i \in DOMAIN r.fused :
                      \A k \in r.fused[i].contributions : Verified(O, r.fused[i].session, k)}
  <2>1. IsSequence(r.fused) /\ J \subseteq DOMAIN r.fused
    BY ExactReadAssumption DEF ExactReadAssumption, IsSequence
  <2>2. R = Picked(r.fused, J)
    BY DEF Retained
  <2> HIDE DEF R, O
  <2>3. \A i \in J : \A k \in r.fused[i].contributions : Verified(O, r.fused[i].session, k)
    OBVIOUS
  <2> HIDE DEF J
  <2>4. \A n \in DOMAIN R : \E i \in J : R[n] = r.fused[i]
    BY <2>1, <2>2, PickedIs
  <2> QED BY <2>3, <2>4
<1>7. K \subseteq ToSet(U)
  <2> SUFFICES ASSUME NEW c \in ToSet(R), NEW k \in c.contributions
               PROVE  Evidence(k.query, c.session, k.seq) \in ToSet(U)
    BY DEF KeysOf
  <2>1. Verified(O, c.session, k)
    BY <1>6 DEF ToSet
  <2>2. PICK p \in ToSet(O) :
            ContributionOf(p) = [query |-> k.query, rank |-> k.rank, session |-> c.session, seq |-> k.seq]
    BY <2>1 DEF Verified
  <2>3. p.query = k.query /\ p.hit.session = c.session /\ p.hit.seq = k.seq
    BY <2>2 DEF ContributionOf
  <2>4. EvidenceOf(p) = Evidence(k.query, c.session, k.seq)
    BY <2>3 DEF EvidenceOf
  <2> HIDE DEF O, U
  <2> QED BY <1>4, <1>5, <2>4
<1> HIDE DEF U, R, K, O
<1>8. \A i, j \in I : U[i] = U[j] => i = j
  BY <1>5 DEF IsInjective
<1>9. /\ IsInjective(V)
      /\ \A i \in I : \E n \in DOMAIN V : V[n] = U[i]
      /\ \A n \in DOMAIN V : \E i \in I : V[n] = U[i]
  <2> HIDE DEF I
  <2>1. I \subseteq DOMAIN U
    BY DEF I
  <2> QED BY <1>5, <1>8, <2>1, PickedIs
<1> HIDE DEF V
<1>10. ToSet(V) = K
  <2>1. \A x \in ToSet(V) : x \in K
    BY <1>9 DEF ToSet
  <2>2. \A x \in K : x \in ToSet(V)
    <3> TAKE x \in K
    <3>1. PICK i \in DOMAIN U : U[i] = x
      BY <1>7 DEF ToSet
    <3>2. i \in I
      BY <3>1
    <3> QED BY <1>9, <3>1, <3>2 DEF ToSet
  <2> QED BY <2>1, <2>2
<1> QED BY <1>1, <1>6, <1>9, <1>10 DEF O, K

\* A verified contribution stands: the host confirmed the event at its rank.
LEMMA VerifiedStands ==
    ASSUME response \in Responses, ReadShape,
           \A x \in DOMAIN event : x[1] \in rejected => event[x] = None,
           NEW c, NEW k, Verified(Observed(response, event), c.session, k)
    PROVE  Stands(c, k)
<1>1. PICK p \in ToSet(Observed(response, event)) :
          ContributionOf(p) = [query |-> k.query, rank |-> k.rank, session |-> c.session, seq |-> k.seq]
  BY DEF Verified
<1>2. p.query = k.query /\ p.rank = k.rank /\ p.hit.session = c.session /\ p.hit.seq = k.seq
  BY <1>1 DEF ContributionOf
<1>3. p \in ToSet(Pointers(response)) /\ Confirms(event[Coordinate(p.hit)], p)
  BY ObservedIs
<1>a. PICK query \in DOMAIN response.ranked :
          \E rank \in DOMAIN response.ranked[query] : p = Pointer(response, query, rank)
  BY <1>3, PointersAre, ReferencedPointersIs
<1>4. PICK rank \in DOMAIN response.ranked[query] : p = Pointer(response, query, rank)
  BY <1>a
<1>5. query = k.query /\ rank = k.rank /\ p.hit = response.ranked[k.query][k.rank]
  BY <1>2, <1>4 DEF Pointer
<1>6. Coordinate(p.hit) \in DOMAIN event
  BY <1>3, PointersAre DEF ReadShape
<1>7. p.hit.session \notin rejected
  <2>1. event[Coordinate(p.hit)] # None
    BY <1>3 DEF Confirms
  <2>2. Coordinate(p.hit)[1] = p.hit.session
    BY DEF Coordinate
  <2> QED BY <1>6, <2>1, <2>2
<1> QED BY <1>2, <1>3, <1>4, <1>5, <1>6, <1>7 DEF Stands, Confirms

\* What is returned is computed from what was read, so it is proved.
LEMMA ReturnedIsProved ==
    ASSUME response \in Responses, Returned => ReadShape /\ ResultShape
    PROVE  RetainedIsProved
<1> SUFFICES ASSUME Returned
             PROVE  /\ \A i \in DOMAIN result.candidates : Proved(result.candidates[i])
                    /\ IsInjective(result.evidence)
                    /\ ToSet(result.evidence) = KeysOf(result.candidates)
  BY DEF RetainedIsProved, KeysOf
<1>1. /\ ReadShape /\ result = Result(response, event)
      /\ \A x \in DOMAIN event : x[1] \in rejected => event[x] = None
  BY DEF ResultShape
<1>2. \A i \in DOMAIN result.candidates : Proved(result.candidates[i])
  <2> SUFFICES ASSUME NEW i \in DOMAIN result.candidates, NEW k \in result.candidates[i].contributions
               PROVE  Stands(result.candidates[i], k)
    BY DEF Proved
  <2> DEFINE c == result.candidates[i]
  <2>1. Verified(Observed(response, event), c.session, k)
    BY <1>1, ResultIs
  <2> HIDE DEF c
  <2>2. Stands(c, k)
    BY <1>1, <2>1, VerifiedStands
  <2> QED BY <2>2 DEF c
<1> QED BY <1>1, <1>2, ResultIs

\* The response is one of a search.
OfASearch == response \in Responses

\* A call keeps its response.
LEMMA ResponseStays == OfASearch /\ [Next]_vars => OfASearch'
BY DEF OfASearch, Next, Abort, CallAborted, CallGrouped, CallLegacy, GroupedRejects, GroupedFails,
       GroupedSettles, LegacyAnswers, LegacyRetries, LegacyCancelled, LegacySettled, Verify, Done, vars

\* "Verification fails closed": for any response and any answers of the host, a candidate is
\* returned only when each of its contributions is confirmed at the rank it names, in a
\* session refused in no batch, and the evidence is that of those candidates, each once.
THEOREM OnlyProvedIsReturned == Spec => []RetainedIsProved
<1>1. Init => OfASearch
  BY DEF Init, OfASearch
<1>2. OfASearch /\ (Returned => ReadShape /\ ResultShape) => RetainedIsProved
  BY ReturnedIsProved DEF OfASearch
<1> QED BY <1>1, <1>2, ResponseStays, ResultIsOfWhatWasRead, PTL DEF Spec

----------------------------------------------------------------------------
(* And all that is proved is returned.                                     *)

\* If no pointer was cut off, a contribution that stands is verified.
LEMMA StandsIsVerified ==
    ASSUME response \in Responses, Len(ReferencedPointers(response)) <= MaxCandidates,
           NEW c \in ToSet(response.fused), NEW k \in c.contributions, Stands(c, k)
    PROVE  Verified(Observed(response, event), c.session, k)
<1> DEFINE hit == response.ranked[k.query][k.rank]
           p == Pointer(response, k.query, k.rank)
<1>1. /\ k.query \in DOMAIN response.ranked /\ k.rank \in DOMAIN response.ranked[k.query]
      /\ hit.session = c.session /\ hit.seq = k.seq
      /\ event[Coordinate(hit)].kind \in AllowedKinds /\ event[Coordinate(hit)].kind = hit.kind
      /\ event[Coordinate(hit)].time = hit.time /\ k.query \in event[Coordinate(hit)].has
  BY DEF Stands
<1>2. Referenced(response, k.query, k.rank)
  BY <1>1 DEF Referenced
<1>3. p \in ToSet(Pointers(response))
  BY <1>1, <1>2, ReferencedPointersIs, PointersAre
<1>4. p.query = k.query /\ p.rank = k.rank /\ p.hit = hit
  BY DEF Pointer
<1> HIDE DEF hit, p
<1>5. event[Coordinate(hit)] # None
  BY <1>1 DEF None
<1>6. Confirms(event[Coordinate(p.hit)], p)
  BY <1>1, <1>4, <1>5 DEF Confirms
<1>7. p \in ToSet(Observed(response, event))
  BY <1>3, <1>6, ObservedIs
<1>8. ContributionOf(p) = [query |-> k.query, rank |-> k.rank, session |-> c.session, seq |-> k.seq]
  BY <1>1, <1>4 DEF ContributionOf
<1> QED BY <1>7, <1>8 DEF Verified

\* Then the result is all that was proved, in the order of the search.
LEMMA NothingProvedIsDropped ==
    ASSUME response \in Responses, ReadShape, ResultShape,
           Len(ReferencedPointers(response)) <= MaxCandidates
    PROVE  result.candidates =
               Picked(response.fused, {i \in DOMAIN response.fused : Proved(response.fused[i])})
<1> DEFINE O == Observed(response, event)
           I == {i \in DOMAIN response.fused :
                    \A k \in response.fused[i].contributions : Verified(O, response.fused[i].session, k)}
           J == {i \in DOMAIN response.fused : Proved(response.fused[i])}
<1>1. result.candidates = Picked(response.fused, I)
  BY DEF ResultShape, Result, Retained
<1>2. \A i \in DOMAIN response.fused : \A k \in response.fused[i].contributions :
          Verified(O, response.fused[i].session, k) <=> Stands(response.fused[i], k)
  <2> TAKE i \in DOMAIN response.fused
  <2> DEFINE c == response.fused[i]
  <2>1. c \in ToSet(response.fused)
    BY DEF ToSet
  <2> HIDE DEF c
  <2>2. \A k \in c.contributions : Verified(O, c.session, k) <=> Stands(c, k)
    BY <2>1, StandsIsVerified, VerifiedStands DEF ResultShape
  <2> QED BY <2>2 DEF c
<1> HIDE DEF O
<1>3. I = J
  BY <1>2 DEF Proved
<1> QED BY <1>1, <1>3

----------------------------------------------------------------------------
(* Sequences joined, and parts of them.                                    *)

\* u is s with t after it.
Joined(u, s, t) ==
    /\ IsSequence(u) /\ Len(u) = Len(s) + Len(t)
    /\ \A i \in DOMAIN s : i \in DOMAIN u /\ u[i] = s[i]
    /\ \A i \in DOMAIN t : Len(s) + i \in DOMAIN u /\ u[Len(s) + i] = t[i]
    /\ \A i \in DOMAIN u : i \in DOMAIN s \/ (i - Len(s) \in DOMAIN t /\ i > Len(s))

\* One sequence after the other.
LEMMA ConcatIs ==
    ASSUME NEW s, IsSequence(s), NEW t, IsSequence(t)
    PROVE  Joined(s \o t, s, t)
<1> DEFINE S == ToSet(s) \cup ToSet(t)
           m == Len(s)
           n == Len(t)
           u == s \o t
<1>1. s \in Seq(S) /\ t \in Seq(S)
  BY SeqMonotonic DEF IsSequence
<1>2. m \in Nat /\ n \in Nat /\ DOMAIN s = 1..m /\ DOMAIN t = 1..n
  BY SequenceShape
<1> HIDE DEF S
<1>3. /\ u \in Seq(S) /\ Len(u) = m + n
      /\ \A i \in 1..m + n : u[i] = IF i <= m THEN s[i] ELSE t[i - m]
  BY <1>1, ConcatProperties
<1> HIDE DEF u, m, n
<1>4. u \in [1..m + n -> S] /\ m + n \in Nat
  BY <1>2, <1>3, LenProperties
<1>5. IsSequence(u)
  <2>1. u = [i \in 1..m + n |-> u[i]]
    BY <1>4
  <2> QED BY <1>4, <2>1, FunctionIsSequence
<1>6. \A i \in 1..m : i \in 1..m + n /\ u[i] = s[i]
  BY <1>2, <1>3
<1>7. \A i \in 1..n : m + i \in 1..m + n /\ u[m + i] = t[i]
  BY <1>2, <1>3
<1>8. \A i \in 1..m + n : i \in 1..m \/ (i - m \in 1..n /\ i > m)
  BY <1>2
<1>9. DOMAIN u = 1..m + n
  BY <1>4
<1> QED BY <1>2, <1>3, <1>5, <1>6, <1>7, <1>8, <1>9 DEF u, m, n, Joined

\* u is the part of s from m to n.
Part(u, s, m, n) ==
    /\ IsSequence(u) /\ Len(u) = IF m <= n THEN n - m + 1 ELSE 0
    /\ \A i \in DOMAIN u : m + i - 1 \in m..n /\ m + i - 1 \in DOMAIN s /\ u[i] = s[m + i - 1]
    /\ \A j \in m..n : \E i \in DOMAIN u : m + i - 1 = j

\* A part of a sequence.
LEMMA PartIs ==
    ASSUME NEW s, IsSequence(s), NEW m \in Nat, NEW n \in Nat, 1 <= m, n <= Len(s)
    PROVE  Part(SubSeq(s, m, n), s, m, n)
<1> DEFINE T == ToSet(s)
           u == SubSeq(s, m, n)
           len == Len(s)
           l == IF m <= n THEN n - m + 1 ELSE 0
<1>1. len \in Nat /\ DOMAIN s = 1..len /\ \A i \in DOMAIN s : s[i] \in T /\ n <= len
  BY SequenceShape DEF ToSet
<1> HIDE DEF len, T
<1>2. \A i \in m..n : s[i] \in T /\ i \in DOMAIN s
  BY <1>1
<1>3. /\ u \in Seq(T) /\ Len(u) = l
      /\ \A i \in 1..n - m + 1 : u[i] = s[m + i - 1]
  BY <1>2, SubSeqProperties
<1> HIDE DEF u
<1>4. l \in Nat
  OBVIOUS
<1>5. u \in [1..l -> T] /\ DOMAIN u = 1..l
  BY <1>3, LenProperties
<1>6. IsSequence(u)
  <2>1. u = [i \in 1..l |-> u[i]]
    BY <1>5
  <2> HIDE DEF l
  <2> QED BY <1>4, <2>1, FunctionIsSequence
<1>7. \A i \in 1..l : m + i - 1 \in m..n /\ u[i] = s[m + i - 1]
  BY <1>3
<1>8. \A j \in m..n : j - m + 1 \in 1..l /\ m + (j - m + 1) - 1 = j
  OBVIOUS
<1>9. \A i \in 1..l : m + i - 1 \in m..n /\ m + i - 1 \in DOMAIN s /\ u[i] = s[m + i - 1]
  BY <1>2, <1>7
<1>10. \A j \in m..n : \E i \in 1..l : m + i - 1 = j
  BY <1>8
<1> HIDE DEF l
<1> QED BY <1>3, <1>5, <1>6, <1>9, <1>10 DEF u, l, Part

----------------------------------------------------------------------------
(* What the readers of the older modes ask for.                            *)

\* The read of one coordinate.
One(c) == <<Group(c[1], <<c[2]>>)>>

\* The read of a coordinate tells which one it is.
LEMMA OneIsInjective ==
    ASSUME NEW a, NEW b, NEW c, NEW d, One(<<a, b>>) = One(<<c, d>>)
    PROVE  a = c /\ b = d
<1>1. One(<<a, b>>)[1] = One(<<c, d>>)[1]
  OBVIOUS
<1>2. Group(a, <<b>>) = Group(c, <<d>>)
  BY <1>1 DEF One
<1>3. a = c /\ <<b>> = <<d>>
  BY <1>2 DEF Group
<1> QED BY <1>3

\* A sequence of distinct coordinates.
Coordinates(work) ==
    /\ IsSequence(work) /\ IsInjective(work)
    /\ \A i \in DOMAIN work : work[i] = <<work[i][1], work[i][2]>>

\* The eligible coordinates are those that can be read.
LEMMA EligibleIs ==
    ASSUME NEW work, Coordinates(work)
    PROVE  Coordinates(Eligible(work)) /\ ToSet(Eligible(work)) = {c \in ToSet(work) : Readable(c)}
<1> DEFINE I == {i \in DOMAIN work : work[i][2] <= MaxSafe}
           E == Eligible(work)
<1>1. E = Picked(work, I) /\ I \subseteq DOMAIN work /\ \A i \in DOMAIN work : i \in I <=> Readable(work[i])
  BY DEF Eligible, Readable
<1> HIDE DEF I, E
<1>2. \A i, j \in I : work[i] = work[j] => i = j
  BY <1>1 DEF Coordinates, IsInjective
<1>3. /\ IsSequence(E) /\ IsInjective(E)
      /\ \A i \in I : \E n \in DOMAIN E : E[n] = work[i]
      /\ \A n \in DOMAIN E : \E i \in I : E[n] = work[i]
  BY <1>1, <1>2, PickedIs DEF Coordinates
<1>4. Coordinates(E)
  BY <1>1, <1>3 DEF Coordinates
<1>5. \A c \in ToSet(E) : c \in ToSet(work) /\ Readable(c)
  BY <1>1, <1>3 DEF ToSet
<1>6. \A c \in ToSet(work) : Readable(c) => c \in ToSet(E)
  BY <1>1, <1>3 DEF ToSet
<1> QED BY <1>4, <1>5, <1>6 DEF E

\* The readers ask for each coordinate that can be read, one at a time.
LEMMA AskedIs ==
    ASSUME NEW work, Coordinates(work)
    PROVE  /\ IsSequence(Asked(work)) /\ IsInjective(Asked(work))
           /\ \A x : x \in ToSet(Asked(work)) <=> \E c \in ToSet(work) : Readable(c) /\ x = One(c)
<1> DEFINE E == Eligible(work)
           A == Asked(work)
<1>1. A = [i \in DOMAIN E |-> One(E[i])]
  BY DEF Asked, One
<1>2. Coordinates(E) /\ ToSet(E) = {c \in ToSet(work) : Readable(c)}
  BY EligibleIs
<1> HIDE DEF A, E
<1>3. Len(E) \in Nat /\ DOMAIN E = 1..Len(E)
  BY <1>2, SequenceShape DEF Coordinates
<1>4. IsSequence(A)
  <2>1. A = [i \in 1..Len(E) |-> A[i]]
    BY <1>1, <1>3
  <2> QED BY <1>3, <2>1, FunctionIsSequence
<1>5. IsInjective(A)
  <2> SUFFICES ASSUME NEW i \in DOMAIN E, NEW j \in DOMAIN E, One(E[i]) = One(E[j]) PROVE i = j
    BY <1>1 DEF IsInjective
  <2>1. E[i] = <<E[i][1], E[i][2]>> /\ E[j] = <<E[j][1], E[j][2]>>
    BY <1>2 DEF Coordinates
  <2>2. One(<<E[i][1], E[i][2]>>) = One(<<E[j][1], E[j][2]>>)
    BY <2>1
  <2>3. E[i] = E[j]
    BY <2>1, <2>2, OneIsInjective
  <2> QED BY <1>2, <2>3 DEF Coordinates, IsInjective
<1>6. ToSet(A) = {One(c) : c \in ToSet(E)}
  BY <1>1 DEF ToSet
<1>7. \A x : x \in ToSet(A) <=> \E c \in ToSet(work) : Readable(c) /\ x = One(c)
  BY <1>2, <1>6
<1> QED BY <1>4, <1>5, <1>7 DEF A

\* The reads are those of the first n coordinates of the work, each once.
ReadUpTo(rs, work, n) ==
    /\ IsSequence(rs) /\ IsInjective(rs)
    /\ \A x : x \in ToSet(rs) <=> \E i \in 1..n : Readable(work[i]) /\ x = One(work[i])

\* Asking for the coordinates that follow.
LEMMA ReadsGrow ==
    ASSUME NEW work, Coordinates(work), NEW m \in Nat, NEW n \in Nat, m <= n, n <= Len(work),
           NEW rs, ReadUpTo(rs, work, m)
    PROVE  ReadUpTo(rs \o Asked(SubSeq(work, m + 1, n)), work, n)
<1> DEFINE part == SubSeq(work, m + 1, n)
           A == Asked(part)
           all == rs \o A
<1>0. Len(work) \in Nat /\ DOMAIN work = 1..Len(work)
  BY SequenceShape DEF Coordinates
<1>1. /\ IsSequence(part)
      /\ \A i \in DOMAIN part : m + i \in m + 1..n /\ m + i \in DOMAIN work /\ part[i] = work[m + i]
      /\ \A j \in m + 1..n : \E i \in DOMAIN part : m + i = j
  <2> DEFINE k == m + 1
  <2>1. IsSequence(work) /\ k \in Nat /\ 1 <= k /\ \A i \in Nat : k + i - 1 = m + i
    BY DEF Coordinates
  <2>2. part = SubSeq(work, k, n)
    OBVIOUS
  <2> HIDE DEF part, k
  <2>3. /\ IsSequence(part)
        /\ \A i \in DOMAIN part :
               k + i - 1 \in k..n /\ k + i - 1 \in DOMAIN work /\ part[i] = work[k + i - 1]
        /\ \A j \in k..n : \E i \in DOMAIN part : k + i - 1 = j
    <3>1. Part(part, work, k, n)
      BY <2>1, <2>2, PartIs
    <3> QED BY <3>1 DEF Part
  <2>4. DOMAIN part \subseteq Nat
    BY <2>3, SequenceShape
  <2>5. \A i \in DOMAIN part : m + i \in k..n /\ m + i \in DOMAIN work /\ part[i] = work[m + i]
    BY <2>1, <2>3, <2>4
  <2>6. \A j \in k..n : \E i \in DOMAIN part : m + i = j
    BY <2>1, <2>3, <2>4
  <2> QED BY <2>3, <2>5, <2>6 DEF k
<1> HIDE DEF part
<1>2. Coordinates(part)
  <2>1. DOMAIN part \subseteq Nat
    BY <1>1, SequenceShape
  <2>2. \A i, j \in DOMAIN part : part[i] = part[j] => i = j
    <3> SUFFICES ASSUME NEW i \in DOMAIN part, NEW j \in DOMAIN part, part[i] = part[j] PROVE i = j
      OBVIOUS
    <3>1. m + i = m + j
      BY <1>1 DEF Coordinates, IsInjective
    <3> QED BY <2>1, <3>1
  <2> QED BY <1>1, <2>2 DEF Coordinates, IsInjective
<1>3. /\ IsSequence(A) /\ IsInjective(A)
      /\ \A x : x \in ToSet(A) <=> \E c \in ToSet(part) : Readable(c) /\ x = One(c)
  BY <1>2, AskedIs
<1>4. \A x : x \in ToSet(A) <=> \E i \in m + 1..n : Readable(work[i]) /\ x = One(work[i])
  <2>1. \A c : c \in ToSet(part) <=> \E i \in m + 1..n : c = work[i]
    BY <1>1 DEF ToSet
  <2> HIDE DEF A
  <2> QED BY <1>3, <2>1
<1>5. \A x \in ToSet(rs) : x \notin ToSet(A)
  <2> SUFFICES ASSUME NEW x \in ToSet(rs), x \in ToSet(A) PROVE FALSE
    OBVIOUS
  <2> HIDE DEF A
  <2>1. PICK i \in 1..m : x = One(work[i])
    BY DEF ReadUpTo
  <2>2. PICK j \in m + 1..n : x = One(work[j])
    BY <1>4
  <2>3. i \in DOMAIN work /\ j \in DOMAIN work /\ i # j
    BY <1>0
  <2>4. work[i] = <<work[i][1], work[i][2]>> /\ work[j] = <<work[j][1], work[j][2]>>
    BY <2>3 DEF Coordinates
  <2>5. One(<<work[i][1], work[i][2]>>) = One(<<work[j][1], work[j][2]>>)
    BY <2>1, <2>2, <2>4
  <2>6. work[i] = work[j]
    BY <2>4, <2>5, OneIsInjective
  <2> QED BY <2>3, <2>6 DEF Coordinates, IsInjective
<1> HIDE DEF A, all
<1>a. IsSequence(rs)
  BY DEF ReadUpTo
<1>6. /\ IsSequence(all)
      /\ \A i \in DOMAIN rs : i \in DOMAIN all /\ all[i] = rs[i]
      /\ \A i \in DOMAIN A : Len(rs) + i \in DOMAIN all /\ all[Len(rs) + i] = A[i]
      /\ \A i \in DOMAIN all : i \in DOMAIN rs \/ (i - Len(rs) \in DOMAIN A /\ i > Len(rs))
  <2>1. Joined(all, rs, A)
    BY <1>3, <1>a, ConcatIs DEF all
  <2> QED BY <2>1 DEF Joined
<1>7. Len(rs) \in Nat /\ DOMAIN rs = 1..Len(rs) /\ DOMAIN A \subseteq Nat /\ DOMAIN all \subseteq Nat
  BY <1>3, <1>6, SequenceShape DEF ReadUpTo
<1>8. \A i \in DOMAIN all \ DOMAIN rs : i - Len(rs) \in DOMAIN A /\ all[i] = A[i - Len(rs)]
  <2> TAKE i \in DOMAIN all \ DOMAIN rs
  <2>1. i - Len(rs) \in DOMAIN A
    BY <1>6
  <2>2. Len(rs) + (i - Len(rs)) = i
    BY <1>7
  <2> QED BY <1>6, <2>1, <2>2
<1>9. \A i \in DOMAIN rs : all[i] = rs[i] /\ i \in DOMAIN all
  BY <1>6
<1>10. ToSet(all) = ToSet(rs) \cup ToSet(A)
  <2>1. \A x \in ToSet(all) : x \in ToSet(rs) \cup ToSet(A)
    BY <1>8, <1>9 DEF ToSet
  <2>2. \A x \in ToSet(rs) \cup ToSet(A) : x \in ToSet(all)
    BY <1>6 DEF ToSet
  <2> QED BY <2>1, <2>2
<1>11. IsInjective(all)
  <2> SUFFICES ASSUME NEW i \in DOMAIN all, NEW j \in DOMAIN all, all[i] = all[j] PROVE i = j
    BY DEF IsInjective
  <2>1. CASE i \in DOMAIN rs /\ j \in DOMAIN rs
    BY <1>9, <2>1 DEF ReadUpTo, IsInjective
  <2>2. CASE i \notin DOMAIN rs /\ j \notin DOMAIN rs
    <3>1. i - Len(rs) = j - Len(rs)
      BY <1>3, <1>8, <2>2 DEF IsInjective
    <3> QED BY <1>7, <3>1
  <2>3. CASE ~ (i \in DOMAIN rs <=> j \in DOMAIN rs)
    BY <1>5, <1>8, <1>9, <2>3 DEF ToSet
  <2> QED BY <2>1, <2>2, <2>3
<1>12. 1..n = 1..m \cup (m + 1..n)
  OBVIOUS
<1>13. \A x : x \in ToSet(all) <=> \E i \in 1..n : Readable(work[i]) /\ x = One(work[i])
  BY <1>4, <1>10, <1>12 DEF ReadUpTo
<1> QED BY <1>6, <1>11, <1>13 DEF ReadUpTo, all, A, part

\* A finite union of finite sets.
LEMMA UnionIsFinite ==
    ASSUME NEW D, IsFiniteSet(D), NEW f, f = [i \in D |-> f[i]], \A i \in D : IsFiniteSet(f[i])
    PROVE  IsFiniteSet(UNION {f[i] : i \in D})
<1> DEFINE All == {f[i] : i \in D}
<1>1. f \in [D -> All] /\ \A x \in All : \E i \in D : f[i] = x
  OBVIOUS
<1>2. f \in Surjection(D, All)
  BY <1>1 DEF Surjection
<1>3. IsFiniteSet(All)
  BY <1>2, FS_Surjection
<1>4. \A x \in All : IsFiniteSet(x)
  OBVIOUS
<1> QED BY <1>3, <1>4, FS_UNION

\* One element more.
LEMMA AppendIs ==
    ASSUME NEW s, IsSequence(s), NEW e
    PROVE  Joined(Append(s, e), s, <<e>>)
<1> DEFINE S == ToSet(s) \cup {e}
           u == Append(s, e)
           m == Len(s)
<1>1. s \in Seq(S) /\ e \in S
  BY SeqMonotonic DEF IsSequence
<1>2. m \in Nat /\ DOMAIN s = 1..m
  BY SequenceShape
<1>3. /\ u \in Seq(S) /\ Len(u) = m + 1
      /\ \A i \in 1..m : u[i] = s[i]
      /\ u[m + 1] = e
  BY <1>1, <1>2, AppendProperties
<1> HIDE DEF u, m, S
<1>4. u \in [1..m + 1 -> S] /\ DOMAIN u = 1..m + 1
  BY <1>2, <1>3, LenProperties
<1>5. IsSequence(u)
  <2>1. u = [i \in 1..m + 1 |-> u[i]] /\ m + 1 \in Nat
    BY <1>2, <1>4
  <2> QED BY <2>1, FunctionIsSequence
<1> DEFINE t == <<e>>
<1>6. Len(t) = 1 /\ DOMAIN t = 1..1 /\ t[1] = e
  OBVIOUS
<1> HIDE DEF t
<1>7. \A i \in DOMAIN s : i \in DOMAIN u /\ u[i] = s[i]
  BY <1>2, <1>3, <1>4
<1>8. \A i \in DOMAIN t : m + i \in DOMAIN u /\ u[m + i] = t[i]
  BY <1>2, <1>3, <1>4, <1>6
<1>9. \A i \in DOMAIN u : i \in DOMAIN s \/ (i - m \in DOMAIN t /\ i > m)
  BY <1>2, <1>4, <1>6
<1> QED BY <1>3, <1>5, <1>6, <1>7, <1>8, <1>9 DEF Joined, u, m, t

\* A sequence of one element.
LEMMA OneElement ==
    ASSUME NEW e
    PROVE  /\ IsSequence(<<e>>) /\ Len(<<e>>) = 1 /\ DOMAIN <<e>> = {1} /\ <<e>>[1] = e
           /\ ToSet(<<e>>) = {e}
<1> DEFINE t == <<e>>
<1>1. Len(t) = 1 /\ DOMAIN t = 1..1 /\ t[1] = e /\ t = [i \in 1..1 |-> t[i]]
  OBVIOUS
<1>2. 1..1 = {1}
  OBVIOUS
<1> HIDE DEF t
<1>3. IsSequence(t)
  BY <1>1, FunctionIsSequence
<1>4. ToSet(t) = {e}
  BY <1>1, <1>2 DEF ToSet
<1> QED BY <1>1, <1>2, <1>3, <1>4 DEF t

\* No position of the first part is one of the second.
LEMMA JoinedIs ==
    ASSUME NEW s, IsSequence(s), NEW t, IsSequence(t), NEW u, Joined(u, s, t)
    PROVE  /\ ToSet(u) = ToSet(s) \cup ToSet(t)
           /\ \A i \in DOMAIN u : \/ i \in DOMAIN s /\ u[i] = s[i]
                                  \/ i \notin DOMAIN s /\ i - Len(s) \in DOMAIN t /\ u[i] = t[i - Len(s)]
           /\ \A i, j \in DOMAIN u : i - Len(s) = j - Len(s) => i = j
<1>1. Len(s) \in Nat /\ DOMAIN s = 1..Len(s) /\ DOMAIN t \subseteq Nat /\ DOMAIN u \subseteq Nat
  BY SequenceShape DEF Joined
<1>2. \A i \in DOMAIN u : \/ i \in DOMAIN s /\ u[i] = s[i]
                          \/ i \notin DOMAIN s /\ i - Len(s) \in DOMAIN t /\ u[i] = t[i - Len(s)]
  <2> TAKE i \in DOMAIN u
  <2>1. CASE i \in DOMAIN s
    BY <2>1 DEF Joined
  <2>2. CASE i - Len(s) \in DOMAIN t /\ i > Len(s)
    <3>1. Len(s) + (i - Len(s)) = i /\ i \notin DOMAIN s
      BY <1>1, <2>2
    <3>2. u[Len(s) + (i - Len(s))] = t[i - Len(s)]
      BY <2>2 DEF Joined
    <3> QED BY <2>2, <3>1, <3>2
  <2> QED BY <2>1, <2>2 DEF Joined
<1>3. \A i, j \in DOMAIN u : i - Len(s) = j - Len(s) => i = j
  BY <1>1
<1>4. \A x \in ToSet(s) \cup ToSet(t) : x \in ToSet(u)
  BY DEF Joined, ToSet
<1>5. \A x \in ToSet(u) : x \in ToSet(s) \cup ToSet(t)
  BY <1>2 DEF ToSet
<1> QED BY <1>2, <1>3, <1>4, <1>5

----------------------------------------------------------------------------
(* The size of a batch and the coordinates it asks for.                    *)

\* A batch: of each of its sessions it has a sequence of numbers.
Batch(x) == IsSequence(x) /\ \A g \in ToSet(x) : IsSequence(g.seqs)

Positions(x) == UNION {{i} \X (DOMAIN x[i].seqs) : i \in DOMAIN x}

\* The size of a batch is a number.
LEMMA PositionsAreFinite ==
    ASSUME NEW x, Batch(x)
    PROVE  IsFiniteSet(Positions(x)) /\ Size(x) = Cardinality(Positions(x)) /\ Size(x) \in Nat
<1> DEFINE D == DOMAIN x
           f == [i \in D |-> {i} \X (DOMAIN x[i].seqs)]
<1>1. IsFiniteSet(D)
  BY SequenceShape DEF Batch
<1>2. \A i \in D : IsFiniteSet({i} \X (DOMAIN x[i].seqs))
  <2> TAKE i \in D
  <2>1. IsSequence(x[i].seqs)
    BY DEF Batch, ToSet
  <2>2. IsFiniteSet(DOMAIN x[i].seqs) /\ IsFiniteSet({i})
    BY <2>1, SequenceShape, FS_Singleton
  <2> QED BY <2>2, FS_Product
<1>3. \A i \in D : IsFiniteSet(f[i])
  BY <1>2
<1>4. Positions(x) = UNION {f[i] : i \in D}
  BY DEF Positions
<1>5. f = [i \in D |-> f[i]]
  OBVIOUS
<1> HIDE DEF f, D
<1>6. IsFiniteSet(Positions(x))
  BY <1>1, <1>3, <1>4, <1>5, UnionIsFinite
<1>7. Size(x) = Cardinality(Positions(x))
  BY DEF Size, Positions
<1> QED BY <1>6, <1>7, FS_CardinalityType

\* A group adds its numbers to the size, and its coordinates.
LEMMA SizeGrows ==
    ASSUME NEW x, Batch(x), NEW g, IsSequence(g.seqs)
    PROVE  /\ Batch(Append(x, g))
           /\ Size(Append(x, g)) = Size(x) + Len(g.seqs)
           /\ CoordinatesOf(Append(x, g)) = CoordinatesOf(x) \cup {<<g.session, n>> : n \in ToSet(g.seqs)}
<1> DEFINE u == Append(x, g)
           m == Len(x)
           new == {m + 1} \X (DOMAIN g.seqs)
<1>1. IsSequence(x) /\ \A h \in ToSet(x) : IsSequence(h.seqs)
  BY DEF Batch
<1>2. Joined(u, x, <<g>>) /\ IsSequence(<<g>>) /\ ToSet(<<g>>) = {g}
  BY <1>1, AppendIs, OneElement
<1>3. m \in Nat /\ DOMAIN x = 1..m
  BY <1>1, SequenceShape
<1> HIDE DEF u
<1>4. IsSequence(u) /\ ToSet(u) = ToSet(x) \cup {g}
  <2>1. ToSet(u) = ToSet(x) \cup ToSet(<<g>>)
    BY <1>1, <1>2, JoinedIs
  <2> QED BY <1>2, <2>1 DEF Joined
<1>5. Batch(u)
  BY <1>1, <1>4 DEF Batch
<1>6. CoordinatesOf(u) = CoordinatesOf(x) \cup {<<g.session, n>> : n \in ToSet(g.seqs)}
  BY <1>4 DEF CoordinatesOf
<1>7. DOMAIN u = (DOMAIN x) \cup {m + 1} /\ u[m + 1] = g /\ \A i \in DOMAIN x : u[i] = x[i]
  <2>1. DOMAIN u = 1..m + 1 /\ \A i \in DOMAIN x : u[i] = x[i]
    BY <1>2, <1>3, <1>4, SequenceShape, OneElement DEF Joined
  <2>2. u[m + 1] = g
    <3>1. 1 \in DOMAIN <<g>> /\ <<g>>[1] = g
      BY OneElement
    <3>2. \A i \in DOMAIN <<g>> : u[m + i] = <<g>>[i]
      BY <1>2 DEF Joined
    <3> QED BY <3>1, <3>2
  <2>3. 1..m + 1 = 1..m \cup {m + 1}
    BY <1>3
  <2> QED BY <1>3, <2>1, <2>2, <2>3
<1>8. Positions(u) = Positions(x) \cup new
  BY <1>7 DEF Positions
<1>9. Positions(x) \cap new = {}
  <2>1. m + 1 \notin DOMAIN x
    BY <1>3
  <2> QED BY <2>1 DEF Positions
<1>10. Len(g.seqs) \in Nat /\ IsFiniteSet(DOMAIN g.seqs) /\ Cardinality(DOMAIN g.seqs) = Len(g.seqs)
  <2>1. Len(g.seqs) \in Nat /\ DOMAIN g.seqs = 1..Len(g.seqs)
    BY SequenceShape
  <2> QED BY <2>1, FS_Interval
<1>11. IsFiniteSet(new) /\ Cardinality(new) = Len(g.seqs)
  <2>1. IsFiniteSet({m + 1}) /\ Cardinality({m + 1}) = 1
    BY FS_Singleton
  <2>2. IsFiniteSet(new) /\ Cardinality(new) = 1 * Cardinality(DOMAIN g.seqs)
    BY <1>10, <2>1, FS_Product
  <2> QED BY <1>10, <2>2
<1> HIDE DEF new
<1>12. Size(u) = Size(x) + Len(g.seqs)
  <2>1. IsFiniteSet(Positions(x)) /\ Size(x) = Cardinality(Positions(x)) /\ Size(x) \in Nat
    BY PositionsAreFinite
  <2>2. Size(u) = Cardinality(Positions(x) \cup new)
    BY <1>5, <1>8, PositionsAreFinite
  <2>3. Cardinality(Positions(x) \cap new) = 0
    BY <1>9, FS_EmptySet
  <2>4. Cardinality(Positions(x) \cup new) = Cardinality(Positions(x)) + Cardinality(new) - Cardinality(Positions(x) \cap new)
    BY <1>11, <2>1, FS_Union
  <2> QED BY <1>10, <1>11, <2>1, <2>2, <2>3, <2>4
<1> QED BY <1>5, <1>6, <1>12 DEF u

\* A group has as many coordinates as numbers.
LEMMA GroupIs ==
    ASSUME NEW s, NEW seqs, IsSequence(seqs), IsInjective(seqs)
    PROVE  LET C == {<<s, n>> : n \in ToSet(seqs)} IN IsFiniteSet(C) /\ Cardinality(C) = Len(seqs)
<1> DEFINE C == {<<s, n>> : n \in ToSet(seqs)}
           l == Len(seqs)
           f == [i \in 1..l |-> <<s, seqs[i]>>]
<1>1. l \in Nat /\ DOMAIN seqs = 1..l
  BY SequenceShape
<1> HIDE DEF l
<1>2. \A i \in 1..l : f[i] = <<s, seqs[i]>> /\ f[i] \in C
  BY <1>1 DEF ToSet
<1>3. \A c \in C : \E i \in 1..l : f[i] = c
  BY <1>1 DEF ToSet
<1>4. \A i, j \in 1..l : f[i] = f[j] => i = j
  BY <1>1, <1>2 DEF IsInjective
<1>5. f = [i \in 1..l |-> f[i]]
  OBVIOUS
<1> HIDE DEF f, C
<1>6. f \in Bijection(1..l, C)
  <2>1. f \in [1..l -> C]
    BY <1>2, <1>5
  <2>2. IsInjective(f)
    BY <1>4, <2>1 DEF IsInjective
  <2> QED BY <1>3, <2>1, <2>2 DEF Bijection, Injection, Surjection
<1>7. IsFiniteSet(1..l) /\ Cardinality(1..l) = l
  BY <1>1, FS_Interval
<1>8. ExistsBijection(1..l, C)
  BY <1>6 DEF ExistsBijection
<1> QED BY <1>7, <1>8, FS_Bijection DEF C, l

----------------------------------------------------------------------------
(* Batches that keep the bounds.                                           *)

\* A batch keeps the bounds, and no two of its numbers are the same event.
Fits(x) ==
    /\ Batch(x)
    /\ Len(x) <= MaxGroups /\ Size(x) <= MaxCoordinates
    /\ IsFiniteSet(CoordinatesOf(x)) /\ Cardinality(CoordinatesOf(x)) = Size(x)

\* The empty sequence, and the empty batch.
LEMMA NothingIs ==
    /\ IsSequence(<<>>) /\ Len(<<>>) = 0 /\ DOMAIN <<>> = {} /\ ToSet(<<>>) = {}
    /\ Batch(<<>>) /\ Size(<<>>) = 0 /\ CoordinatesOf(<<>>) = {} /\ Fits(<<>>)
<1> DEFINE e == <<>>
<1>1. DOMAIN e = {} /\ Len(e) = 0
  OBVIOUS
<1>2. IsSequence(e)
  <2>1. e = [i \in 1..0 |-> e[i]]
    OBVIOUS
  <2> HIDE DEF e
  <2> QED BY <2>1, FunctionIsSequence
<1> HIDE DEF e
<1>3. ToSet(e) = {} /\ Positions(e) = {}
  BY <1>1 DEF ToSet, Positions
<1>4. Batch(e) /\ CoordinatesOf(e) = {}
  BY <1>2, <1>3 DEF Batch, CoordinatesOf
<1>5. Size(e) = 0
  BY <1>3, <1>4, PositionsAreFinite, FS_EmptySet
<1>6. Fits(e)
  <2>1. MaxGroups \in Nat /\ MaxCoordinates \in Nat
    BY ExactReadAssumption DEF ExactReadAssumption
  <2>2. IsFiniteSet(CoordinatesOf(e)) /\ Cardinality(CoordinatesOf(e)) = 0
    BY <1>4, FS_EmptySet
  <2> QED BY <1>1, <1>4, <1>5, <2>1, <2>2 DEF Fits
<1> QED BY <1>1, <1>2, <1>3, <1>4, <1>5, <1>6 DEF e

\* A group of another session for which there is room.
LEMMA FitsGrows ==
    ASSUME NEW x, Fits(x), NEW s, NEW seqs, IsSequence(seqs), IsInjective(seqs),
           \A g \in ToSet(x) : g.session # s,
           Len(x) < MaxGroups, Size(x) + Len(seqs) <= MaxCoordinates
    PROVE  Fits(Append(x, Group(s, seqs)))
<1> DEFINE g == Group(s, seqs)
           u == Append(x, g)
           C == {<<s, n>> : n \in ToSet(seqs)}
<1>1. g.session = s /\ g.seqs = seqs
  BY DEF Group
<1> HIDE DEF g
<1>2. Batch(x) /\ IsSequence(g.seqs)
  BY <1>1 DEF Fits
<1>3. Batch(u) /\ Size(u) = Size(x) + Len(seqs) /\ CoordinatesOf(u) = CoordinatesOf(x) \cup C
  BY <1>1, <1>2, SizeGrows
<1>4. Len(u) <= MaxGroups
  <2>1. Joined(u, x, <<g>>) /\ Len(<<g>>) = 1
    BY <1>2, AppendIs, OneElement DEF Batch
  <2>2. Len(u) = Len(x) + 1
    BY <2>1 DEF Joined
  <2>3. Len(x) \in Nat /\ MaxGroups \in Nat
    BY <1>2, SequenceShape, ExactReadAssumption DEF Batch, ExactReadAssumption
  <2> QED BY <2>2, <2>3
<1>5. IsFiniteSet(C) /\ Cardinality(C) = Len(seqs)
  BY GroupIs
<1>6. CoordinatesOf(x) \cap C = {}
  BY DEF CoordinatesOf
<1> HIDE DEF C, u
<1>7. IsFiniteSet(CoordinatesOf(u)) /\ Cardinality(CoordinatesOf(u)) = Size(u)
  <2>1. IsFiniteSet(CoordinatesOf(x)) /\ Cardinality(CoordinatesOf(x)) = Size(x)
    BY DEF Fits
  <2>2. Cardinality(CoordinatesOf(x) \cap C) = 0
    BY <1>6, FS_EmptySet
  <2>3. /\ IsFiniteSet(CoordinatesOf(x) \cup C)
        /\ Cardinality(CoordinatesOf(x) \cup C) =
               Cardinality(CoordinatesOf(x)) + Cardinality(C) - Cardinality(CoordinatesOf(x) \cap C)
    BY <1>5, <2>1, FS_Union
  <2>4. Size(x) \in Nat /\ Len(seqs) \in Nat
    BY <1>2, PositionsAreFinite, SequenceShape
  <2> QED BY <1>3, <1>5, <2>1, <2>2, <2>3, <2>4
<1> QED BY <1>3, <1>4, <1>7 DEF Fits, u, g

\* A batch of one group.
LEMMA FitsAlone ==
    ASSUME NEW s, NEW seqs, IsSequence(seqs), IsInjective(seqs), Len(seqs) <= MaxCoordinates
    PROVE  /\ Fits(<<Group(s, seqs)>>)
           /\ CoordinatesOf(<<Group(s, seqs)>>) = {<<s, n>> : n \in ToSet(seqs)}
           /\ ToSet(<<Group(s, seqs)>>) = {Group(s, seqs)}
<1> DEFINE x == <<>>
           g == Group(s, seqs)
           u == Append(x, g)
<1>1. u = <<g>>
  OBVIOUS
<1>2. Fits(x) /\ Batch(x) /\ ToSet(x) = {} /\ Len(x) = 0 /\ Size(x) = 0 /\ CoordinatesOf(x) = {}
  BY NothingIs
<1>3. g.session = s /\ g.seqs = seqs
  BY DEF Group
<1>4. Len(seqs) \in Nat /\ 0 < MaxGroups
  BY SequenceShape, ExactReadAssumption DEF ExactReadAssumption
<1> HIDE DEF x
<1>5. Fits(u)
  <2>1. Len(x) < MaxGroups /\ Size(x) + Len(seqs) <= MaxCoordinates
    BY <1>2, <1>4
  <2>2. \A h \in ToSet(x) : h.session # s
    BY <1>2
  <2> QED BY <1>2, <2>1, <2>2, FitsGrows
<1> HIDE DEF g
<1>6. CoordinatesOf(u) = CoordinatesOf(x) \cup {<<g.session, n>> : n \in ToSet(g.seqs)}
  BY <1>2, <1>3, SizeGrows
<1>7. CoordinatesOf(u) = {<<s, n>> : n \in ToSet(seqs)}
  BY <1>2, <1>3, <1>6
<1>8. ToSet(<<g>>) = {g}
  BY OneElement
<1> QED BY <1>1, <1>5, <1>7, <1>8 DEF g

----------------------------------------------------------------------------
(* A sequence of batches.                                                  *)

\* The session has more events than a batch may ask for.
TooLarge(work, s) == Len(SeqsOf(work, s)) > MaxCoordinates

\* Two batches ask for different events, and share only a session that is too large.
Apart(work, x, y) ==
    /\ CoordinatesOf(x) \cap CoordinatesOf(y) = {}
    /\ \A g \in ToSet(x), h \in ToSet(y) : g.session = h.session => TooLarge(work, g.session)

Planned(P, work) ==
    /\ IsSequence(P)
    /\ \A i \in DOMAIN P : Fits(P[i])
    /\ \A i, j \in DOMAIN P : i # j => Apart(work, P[i], P[j])

Covered(P) == UNION {CoordinatesOf(x) : x \in ToSet(P)}
Named(P) == UNION {{g.session : g \in ToSet(x)} : x \in ToSet(P)}

\* Two batches are apart either way.
LEMMA ApartIsSymmetric ==
    ASSUME NEW work, NEW x, NEW y, Apart(work, x, y)
    PROVE  Apart(work, y, x)
<1>1. CoordinatesOf(y) \cap CoordinatesOf(x) = {}
  BY DEF Apart
<1>2. \A h \in ToSet(y), g \in ToSet(x) : h.session = g.session => TooLarge(work, h.session)
  BY DEF Apart
<1> QED BY <1>1, <1>2 DEF Apart

\* Two plans that are apart make one.
LEMMA PlanJoins ==
    ASSUME NEW work, NEW P, Planned(P, work), NEW T, Planned(T, work), NEW U, Joined(U, P, T),
           \A x \in ToSet(P), y \in ToSet(T) : Apart(work, x, y)
    PROVE  /\ Planned(U, work)
           /\ Covered(U) = Covered(P) \cup Covered(T) /\ Named(U) = Named(P) \cup Named(T)
<1>0. IsSequence(P) /\ IsSequence(T) /\ IsSequence(U)
  BY DEF Planned, Joined
<1>1. /\ ToSet(U) = ToSet(P) \cup ToSet(T)
      /\ \A i \in DOMAIN U : \/ i \in DOMAIN P /\ U[i] = P[i]
                             \/ i \notin DOMAIN P /\ i - Len(P) \in DOMAIN T /\ U[i] = T[i - Len(P)]
      /\ \A i, j \in DOMAIN U : i - Len(P) = j - Len(P) => i = j
  BY <1>0, JoinedIs
<1>2. \A i \in DOMAIN U : Fits(U[i])
  BY <1>1 DEF Planned
<1>3. ASSUME NEW i \in DOMAIN U, NEW j \in DOMAIN U, i # j
      PROVE  Apart(work, U[i], U[j])
  <2>1. CASE i \in DOMAIN P /\ j \in DOMAIN P
    BY <1>1, <1>3, <2>1 DEF Planned
  <2>2. CASE i \notin DOMAIN P /\ j \notin DOMAIN P
    <3>1. i - Len(P) # j - Len(P)
      BY <1>1, <1>3
    <3>2. /\ i - Len(P) \in DOMAIN T /\ U[i] = T[i - Len(P)]
          /\ j - Len(P) \in DOMAIN T /\ U[j] = T[j - Len(P)]
      BY <1>1, <2>2
    <3> QED BY <3>1, <3>2 DEF Planned
  <2>3. CASE i \in DOMAIN P /\ j \notin DOMAIN P
    <3>1. U[i] \in ToSet(P) /\ U[j] \in ToSet(T)
      BY <1>1, <2>3 DEF ToSet
    <3> QED BY <3>1
  <2>4. CASE i \notin DOMAIN P /\ j \in DOMAIN P
    <3>1. U[j] \in ToSet(P) /\ U[i] \in ToSet(T)
      BY <1>1, <2>4 DEF ToSet
    <3> QED BY <3>1, ApartIsSymmetric
  <2> QED BY <2>1, <2>2, <2>3, <2>4
<1>4. Covered(U) = Covered(P) \cup Covered(T) /\ Named(U) = Named(P) \cup Named(T)
  BY <1>1 DEF Covered, Named
<1> QED BY <1>0, <1>2, <1>3, <1>4 DEF Planned

\* A plan of one batch.
LEMMA PlanOfOne ==
    ASSUME NEW work, NEW x, Fits(x)
    PROVE  /\ Planned(<<x>>, work) /\ ToSet(<<x>>) = {x}
           /\ Covered(<<x>>) = CoordinatesOf(x) /\ Named(<<x>>) = {g.session : g \in ToSet(x)}
<1> DEFINE P == <<x>>
<1>1. IsSequence(P) /\ DOMAIN P = {1} /\ P[1] = x /\ ToSet(P) = {x}
  BY OneElement
<1> HIDE DEF P
<1>2. Covered(P) = CoordinatesOf(x) /\ Named(P) = {g.session : g \in ToSet(x)}
  BY <1>1 DEF Covered, Named
<1>3. Planned(P, work)
  BY <1>1 DEF Planned
<1> QED BY <1>1, <1>2, <1>3 DEF P

\* The batches before the last one are a plan, which the last one goes with.
LEMMA PlanWithoutLast ==
    ASSUME NEW work, NEW P, IsSequence(P), NEW x, Planned(Append(P, x), work)
    PROVE  /\ Planned(P, work) /\ Fits(x) /\ \A y \in ToSet(P) : Apart(work, y, x)
           /\ Covered(Append(P, x)) = Covered(P) \cup CoordinatesOf(x)
           /\ Named(Append(P, x)) = Named(P) \cup {g.session : g \in ToSet(x)}
<1> DEFINE U == Append(P, x)
           n == Len(P)
           t == <<x>>
<1>1. Joined(U, P, t) /\ IsSequence(t) /\ DOMAIN t = {1} /\ t[1] = x /\ ToSet(t) = {x}
  BY AppendIs, OneElement
<1>2. n \in Nat /\ DOMAIN P = 1..n
  BY SequenceShape
<1> HIDE DEF U, n, t
<1>3. /\ \A i \in DOMAIN P : i \in DOMAIN U /\ U[i] = P[i]
      /\ n + 1 \in DOMAIN U /\ U[n + 1] = x /\ n + 1 \notin DOMAIN P
  <2>1. n + 1 \notin DOMAIN P
    BY <1>2
  <2>2. \A i \in DOMAIN P : i \in DOMAIN U /\ U[i] = P[i]
    BY <1>1 DEF Joined
  <2>3. \A i \in DOMAIN t : n + i \in DOMAIN U /\ U[n + i] = t[i]
    BY <1>1 DEF Joined, n
  <2>4. n + 1 \in DOMAIN U /\ U[n + 1] = t[1]
    BY <1>1, <2>3
  <2> QED BY <1>1, <2>1, <2>2, <2>4
<1>4. /\ \A i \in DOMAIN U : Fits(U[i])
      /\ \A i, j \in DOMAIN U : i # j => Apart(work, U[i], U[j])
  BY DEF Planned, U
<1>5. Planned(P, work) /\ Fits(x)
  BY <1>3, <1>4 DEF Planned
<1>6. \A y \in ToSet(P) : Apart(work, y, x)
  <2> SUFFICES ASSUME NEW i \in DOMAIN P PROVE Apart(work, P[i], x)
    BY DEF ToSet
  <2> QED BY <1>3, <1>4
<1>7. ToSet(U) = ToSet(P) \cup {x}
  BY <1>1, JoinedIs
<1>8. Covered(U) = Covered(P) \cup CoordinatesOf(x) /\ Named(U) = Named(P) \cup {g.session : g \in ToSet(x)}
  BY <1>7 DEF Covered, Named
<1> QED BY <1>5, <1>6, <1>8 DEF U

----------------------------------------------------------------------------
(* The slices of a session that is too large for a batch.                  *)

\* The quotient of two numbers.
LEMMA QuotientIs ==
    ASSUME NEW n \in Nat, NEW m \in Nat \ {0}
    PROVE  n \div m \in Nat /\ (n \div m) * m <= n /\ n < (n \div m) * m + m
OBVIOUS

\* The facts about products that the bounds of the slices need.
LEMMA ProductGrows ==
    ASSUME NEW a \in Int, NEW b \in Int, NEW m \in Nat, a <= b
    PROVE  a * m <= b * m /\ a * m \in Int /\ b * m \in Int
OBVIOUS

\* The next multiple.
LEMMA ProductStep ==
    ASSUME NEW a \in Int, NEW m \in Nat
    PROVE  (a - 1) * m + m = a * m /\ a * m \in Int /\ (a - 1) * m \in Int
OBVIOUS

\* The slices of m numbers that n numbers are cut into: the i-th one is from
\* (i - 1) * m + 1 to i * m, and what is left is not more than one.
LEMMA SliceBounds ==
    ASSUME NEW n \in Nat, NEW m \in Nat \ {0}, n > m, NEW k, k = (n - 1) \div m
    PROVE  /\ k \in Nat /\ k * m \in Nat /\ k * m < n /\ n <= k * m + m
           /\ \A i \in 1..k : /\ (i - 1) * m \in Nat /\ i * m \in Nat /\ i * m = (i - 1) * m + m
                              /\ i * m <= k * m
           /\ \A i, j \in 1..k : i < j => i * m <= (j - 1) * m
           /\ \A p \in 1..k * m : \E i \in 1..k : p \in (i - 1) * m + 1..i * m
<1>1. k \in Nat /\ k * m <= n - 1 /\ n - 1 < k * m + m /\ k * m \in Nat
  <2>1. n - 1 \in Nat
    OBVIOUS
  <2>2. k \in Nat /\ k * m <= n - 1 /\ n - 1 < k * m + m
    BY <2>1, QuotientIs
  <2>3. 0 * m <= k * m /\ k * m \in Int /\ 0 * m = 0
    BY <2>2, ProductGrows
  <2> QED BY <2>2, <2>3
<1>2. ASSUME NEW i \in 1..k
      PROVE  (i - 1) * m \in Nat /\ i * m \in Nat /\ i * m = (i - 1) * m + m /\ i * m <= k * m
  <2>1. (i - 1) * m + m = i * m /\ i * m \in Int /\ (i - 1) * m \in Int
    BY ProductStep
  <2>2. 0 * m <= (i - 1) * m /\ 0 * m = 0
    BY <1>1, ProductGrows
  <2>3. i * m <= k * m
    BY <1>1, ProductGrows
  <2> QED BY <2>1, <2>2, <2>3
<1>3. ASSUME NEW i \in 1..k, NEW j \in 1..k, i < j
      PROVE  i * m <= (j - 1) * m
  <2>1. i \in Int /\ j - 1 \in Int /\ i <= j - 1 /\ m \in Nat
    BY <1>1, <1>3
  <2> QED BY <2>1, ProductGrows
<1>4. ASSUME NEW p \in 1..k * m
      PROVE  \E i \in 1..k : p \in (i - 1) * m + 1..i * m
  <2> DEFINE d == (p - 1) \div m
  <2>1. p \in Nat /\ p - 1 \in Nat /\ p <= k * m
    BY <1>1
  <2>2. d \in Nat /\ d * m <= p - 1 /\ p - 1 < d * m + m
    BY <2>1, QuotientIs
  <2> HIDE DEF d
  <2>3. (d + 1) * m = d * m + m /\ (d + 1) - 1 = d /\ d * m \in Int
    BY <2>2
  <2>4. d < k
    <3> SUFFICES ASSUME k <= d PROVE FALSE
      BY <1>1, <2>2
    <3>1. k * m <= d * m
      BY <1>1, <2>2, ProductGrows
    <3> QED BY <1>1, <2>1, <2>2, <2>3, <3>1
  <2>5. d + 1 \in 1..k
    BY <1>1, <2>2, <2>4
  <2>6. p \in d * m + 1..(d + 1) * m
    BY <2>1, <2>2, <2>3
  <2>7. p \in ((d + 1) - 1) * m + 1..(d + 1) * m
    BY <2>3, <2>6
  <2> QED BY <2>5, <2>7
<1>5. k * m < n /\ n <= k * m + m
  BY <1>1
<1> QED BY <1>1, <1>2, <1>3, <1>4, <1>5

\* The elements of a part, each once.
LEMMA PartElements ==
    ASSUME NEW s, IsSequence(s), IsInjective(s), NEW m \in Nat, NEW n \in Nat, 1 <= m, n <= Len(s),
           m <= n
    PROVE  /\ IsSequence(SubSeq(s, m, n)) /\ IsInjective(SubSeq(s, m, n))
           /\ Len(SubSeq(s, m, n)) = n - m + 1
           /\ ToSet(SubSeq(s, m, n)) = {s[p] : p \in m..n}
<1> DEFINE u == SubSeq(s, m, n)
<1>1. Part(u, s, m, n)
  BY PartIs
<1> HIDE DEF u
<1>2. IsSequence(u) /\ Len(u) = n - m + 1
  BY <1>1 DEF Part
<1>3. DOMAIN u \subseteq Nat
  BY <1>2, SequenceShape
<1>4. \A i \in DOMAIN u : m + i - 1 \in m..n /\ m + i - 1 \in DOMAIN s /\ u[i] = s[m + i - 1]
  BY <1>1 DEF Part
<1>5. \A j \in m..n : \E i \in DOMAIN u : m + i - 1 = j
  BY <1>1 DEF Part
<1>6. IsInjective(u)
  <2> SUFFICES ASSUME NEW i \in DOMAIN u, NEW j \in DOMAIN u, u[i] = u[j] PROVE i = j
    BY DEF IsInjective
  <2>1. m + i - 1 = m + j - 1
    BY <1>4 DEF IsInjective
  <2> QED BY <1>3, <2>1
<1>7. ToSet(u) = {s[p] : p \in m..n}
  BY <1>4, <1>5 DEF ToSet
<1> QED BY <1>2, <1>6, <1>7 DEF u

\* n numbers are cut into slices of m, the i-th from lo[i] to hi[i], and the rest from st on.
Cut(n, m, k, lo, hi, st) ==
    /\ k \in Nat /\ lo \in [1..k -> Nat] /\ hi \in [1..k -> Nat] /\ st \in Nat
    /\ 1 <= st /\ st <= n /\ n - st + 1 <= m
    /\ \A i \in 1..k : 1 <= lo[i] /\ lo[i] <= hi[i] /\ hi[i] < st /\ hi[i] - lo[i] + 1 = m
    /\ \A i, j \in 1..k : i < j => hi[i] < lo[j]
    /\ \A p \in 1..n : p < st => \E i \in 1..k : lo[i] <= p /\ p <= hi[i]

\* The slices cut the sequence where they should.
LEMMA SlicesCut ==
    ASSUME NEW n \in Nat, NEW m \in Nat \ {0}, n > m, NEW k, k = (n - 1) \div m
    PROVE  Cut(n, m, k, [i \in 1..k |-> (i - 1) * m + 1], [i \in 1..k |-> i * m], k * m + 1)
<1> DEFINE lo == [i \in 1..k |-> (i - 1) * m + 1]
           hi == [i \in 1..k |-> i * m]
           before(i) == (i - 1) * m
           upto(i) == i * m
           km == k * m
<1>1. /\ k \in Nat /\ km \in Nat /\ km < n /\ n <= km + m
      /\ \A i \in 1..k : before(i) \in Nat /\ upto(i) \in Nat /\ upto(i) = before(i) + m /\ upto(i) <= km
      /\ \A i, j \in 1..k : i < j => upto(i) <= before(j)
      /\ \A p \in 1..km : \E i \in 1..k : p \in before(i) + 1..upto(i)
  BY SliceBounds
<1>2. lo = [i \in 1..k |-> before(i) + 1] /\ hi = [i \in 1..k |-> upto(i)]
  OBVIOUS
<1> SUFFICES Cut(n, m, k, lo, hi, km + 1)
  OBVIOUS
<1> HIDE DEF lo, hi, before, upto, km
<1>3. \A i \in 1..k : lo[i] = before(i) + 1 /\ hi[i] = upto(i)
  BY <1>2
<1>4. lo \in [1..k -> Nat] /\ hi \in [1..k -> Nat]
  <2>1. ASSUME NEW i \in 1..k PROVE before(i) + 1 \in Nat /\ upto(i) \in Nat
    <3>1. before(i) \in Nat /\ upto(i) \in Nat
      BY <1>1
    <3> QED BY <3>1
  <2> QED BY <1>2, <2>1
<1>5. km + 1 \in Nat /\ 1 <= km + 1 /\ km + 1 <= n /\ n - (km + 1) + 1 <= m
  BY <1>1
<1>6. \A i \in 1..k : 1 <= lo[i] /\ lo[i] <= hi[i] /\ hi[i] < km + 1 /\ hi[i] - lo[i] + 1 = m
  <2> TAKE i \in 1..k
  <2>1. before(i) \in Nat /\ upto(i) \in Nat /\ upto(i) = before(i) + m /\ upto(i) <= km
    BY <1>1
  <2> QED BY <1>1, <1>3, <2>1
<1>7. \A i, j \in 1..k : i < j => hi[i] < lo[j]
  <2> SUFFICES ASSUME NEW i \in 1..k, NEW j \in 1..k, i < j PROVE hi[i] < lo[j]
    OBVIOUS
  <2>1. upto(i) \in Nat /\ before(j) \in Nat /\ upto(i) <= before(j)
    BY <1>1
  <2> QED BY <1>3, <2>1
<1>8. \A p \in 1..n : p < km + 1 => \E i \in 1..k : lo[i] <= p /\ p <= hi[i]
  <2> SUFFICES ASSUME NEW p \in 1..n, p < km + 1 PROVE \E i \in 1..k : lo[i] <= p /\ p <= hi[i]
    OBVIOUS
  <2>1. p \in 1..km
    BY <1>1
  <2>2. PICK i \in 1..k : p \in before(i) + 1..upto(i)
    BY <1>1, <2>1
  <2>3. before(i) \in Nat /\ upto(i) \in Nat
    BY <1>1
  <2> QED BY <1>3, <2>2, <2>3
<1> QED BY <1>1, <1>4, <1>5, <1>6, <1>7, <1>8 DEF Cut

\* The batches that a session too large for one is cut into, the last of which stays open.
LEMMA SlicesArePlanned ==
    ASSUME NEW work, NEW s, NEW seqs, IsSequence(seqs), IsInjective(seqs), TooLarge(work, s),
           NEW k, NEW lo, NEW hi, NEW st, Cut(Len(seqs), MaxCoordinates, k, lo, hi, st),
           NEW T, T = [i \in 1..k |-> <<Group(s, SubSeq(seqs, lo[i], hi[i]))>>],
           NEW rest, rest = <<Group(s, SubSeq(seqs, st, Len(seqs)))>>
    PROVE  /\ Planned(T, work) /\ Fits(rest)
           /\ \A x \in ToSet(T) : Apart(work, x, rest)
           /\ Covered(T) \cup CoordinatesOf(rest) = {<<s, n>> : n \in ToSet(seqs)}
           /\ \A x \in ToSet(T) \cup {rest} : \A g \in ToSet(x) : g.session = s
<1> DEFINE M == MaxCoordinates
           n == Len(seqs)
           q(i) == SubSeq(seqs, lo[i], hi[i])
           qr == SubSeq(seqs, st, n)
           slot(i) == lo[i]..hi[i]
           left == st..n
<1>1. n \in Nat /\ DOMAIN seqs = 1..n /\ M \in Nat \ {0} /\ Cut(n, M, k, lo, hi, st)
  BY SequenceShape, ExactReadAssumption DEF ExactReadAssumption
<1>2. /\ k \in Nat /\ lo \in [1..k -> Nat] /\ hi \in [1..k -> Nat] /\ st \in Nat
      /\ 1 <= st /\ st <= n /\ n - st + 1 <= M
      /\ \A i \in 1..k : 1 <= lo[i] /\ lo[i] <= hi[i] /\ hi[i] < st /\ hi[i] - lo[i] + 1 = M
      /\ \A i, j \in 1..k : i < j => hi[i] < lo[j]
      /\ \A p \in 1..n : p < st => \E i \in 1..k : lo[i] <= p /\ p <= hi[i]
  BY <1>1 DEF Cut
<1>4. T = [i \in 1..k |-> <<Group(s, q(i))>>] /\ rest = <<Group(s, qr)>>
  OBVIOUS
<1>3. n <= Len(seqs)
  BY <1>1
<1> HIDE DEF n, M
<1>c. \A i \in 1..k : slot(i) \subseteq 1..n /\ slot(i) \cap left = {}
  <2> TAKE i \in 1..k
  <2> DEFINE l == lo[i]
             h == hi[i]
  <2>1. l \in Nat /\ h \in Nat /\ 1 <= l /\ h < st /\ st \in Nat /\ st <= n /\ n \in Nat
    BY <1>1, <1>2
  <2>2. slot(i) = l..h
    OBVIOUS
  <2> HIDE DEF l, h, slot
  <2>3. \A p \in l..h : p \in 1..n /\ p \notin left
    BY <2>1
  <2> QED BY <2>2, <2>3
<1>d. \A i, j \in 1..k : i < j => slot(i) \cap slot(j) = {}
  BY <1>1, <1>2
<1>e. \A p \in 1..n : p \in left \/ \E i \in 1..k : p \in slot(i)
  <2> TAKE p \in 1..n
  <2>1. p \in Int /\ p <= n
    BY <1>1
  <2>2. CASE p < st
    <3>1. PICK i \in 1..k : lo[i] <= p /\ p <= hi[i]
      BY <1>2, <2>2
    <3>2. lo[i] \in Nat /\ hi[i] \in Nat
      BY <1>2
    <3> QED BY <2>1, <3>1, <3>2
  <2>3. CASE ~ (p < st)
    BY <1>1, <1>2, <2>1, <2>3
  <2> QED BY <2>2, <2>3
<1>f. left \subseteq 1..n
  BY <1>1, <1>2
<1>5. \A i \in 1..k : /\ IsSequence(q(i)) /\ IsInjective(q(i)) /\ Len(q(i)) = M
                      /\ ToSet(q(i)) = {seqs[p] : p \in slot(i)}
  <2> TAKE i \in 1..k
  <2> DEFINE l == lo[i]
             h == hi[i]
  <2>1. l \in Nat /\ h \in Nat /\ 1 <= l /\ l <= h /\ h <= n /\ h - l + 1 = M
    BY <1>1, <1>2
  <2>2. q(i) = SubSeq(seqs, l, h) /\ slot(i) = l..h
    OBVIOUS
  <2> HIDE DEF l, h, q, slot
  <2>3. /\ IsSequence(q(i)) /\ IsInjective(q(i)) /\ Len(q(i)) = h - l + 1
        /\ ToSet(q(i)) = {seqs[p] : p \in l..h}
    BY <2>1, <2>2, PartElements DEF n
  <2> QED BY <2>1, <2>2, <2>3
<1>6. IsSequence(qr) /\ IsInjective(qr) /\ Len(qr) <= M /\ ToSet(qr) = {seqs[p] : p \in left}
  <2>1. st \in Nat /\ n \in Nat /\ 1 <= st /\ st <= n /\ n - st + 1 <= M
    BY <1>1, <1>2
  <2>2. IsSequence(qr) /\ IsInjective(qr) /\ Len(qr) = n - st + 1 /\ ToSet(qr) = {seqs[p] : p \in st..n}
    BY <1>3, <2>1, PartElements
  <2> QED BY <2>1, <2>2
<1> HIDE DEF q, qr, slot, left
<1>7. /\ Fits(rest) /\ CoordinatesOf(rest) = {<<s, x>> : x \in ToSet(qr)} /\ ToSet(rest) = {Group(s, qr)}
  BY <1>4, <1>6, FitsAlone DEF M
<1>8. \A i \in 1..k : /\ T[i] = <<Group(s, q(i))>>
                      /\ Fits(T[i]) /\ CoordinatesOf(T[i]) = {<<s, x>> : x \in ToSet(q(i))}
                      /\ ToSet(T[i]) = {Group(s, q(i))}
  <2> TAKE i \in 1..k
  <2>1. T[i] = <<Group(s, q(i))>>
    BY <1>4
  <2>2. Len(q(i)) <= MaxCoordinates
    BY <1>1, <1>5 DEF M
  <2> QED BY <1>5, <2>1, <2>2, FitsAlone
<1>9. IsSequence(T) /\ DOMAIN T = 1..k
  <2>1. T = [i \in 1..k |-> T[i]]
    BY <1>4
  <2> QED BY <1>2, <2>1, FunctionIsSequence
<1>10. \A x \in ToSet(T) \cup {rest} : \A g \in ToSet(x) : g.session = s
  BY <1>7, <1>8, <1>9 DEF ToSet, Group
<1>11. \A p1, p2 \in 1..n : seqs[p1] = seqs[p2] => p1 = p2
  BY <1>1 DEF IsInjective
<1>g. \A i \in 1..k : CoordinatesOf(T[i]) = {<<s, seqs[p]>> : p \in slot(i)}
  BY <1>5, <1>8
<1>h. CoordinatesOf(rest) = {<<s, seqs[p]>> : p \in left}
  BY <1>6, <1>7
<1>12. \A i, j \in 1..k : i < j => CoordinatesOf(T[i]) \cap CoordinatesOf(T[j]) = {}
  BY <1>c, <1>d, <1>g, <1>11
<1>13. \A i \in 1..k : CoordinatesOf(T[i]) \cap CoordinatesOf(rest) = {}
  BY <1>c, <1>f, <1>g, <1>h, <1>11
<1>14. \A x, y \in ToSet(T) \cup {rest} : CoordinatesOf(x) \cap CoordinatesOf(y) = {} => Apart(work, x, y)
  BY <1>10 DEF Apart
<1>15. Planned(T, work)
  <2>1. ASSUME NEW i \in 1..k, NEW j \in 1..k, i # j
        PROVE  Apart(work, T[i], T[j])
    <3>1. i < j \/ j < i
      BY <1>2, <2>1
    <3>2. CoordinatesOf(T[i]) \cap CoordinatesOf(T[j]) = {}
      BY <1>12, <3>1
    <3>3. T[i] \in ToSet(T) /\ T[j] \in ToSet(T)
      BY <1>9 DEF ToSet
    <3> QED BY <1>14, <3>2, <3>3
  <2> QED BY <1>8, <1>9, <2>1 DEF Planned
<1>16. \A x \in ToSet(T) : Apart(work, x, rest)
  <2> SUFFICES ASSUME NEW i \in 1..k PROVE Apart(work, T[i], rest)
    BY <1>9 DEF ToSet
  <2>1. T[i] \in ToSet(T)
    BY <1>9 DEF ToSet
  <2> QED BY <1>13, <1>14, <2>1
<1>17. Covered(T) \cup CoordinatesOf(rest) = {<<s, x>> : x \in ToSet(seqs)}
  <2>1. \A c : c \in Covered(T) <=> \E i \in 1..k : c \in CoordinatesOf(T[i])
    BY <1>9 DEF Covered, ToSet
  <2>2. \A c : c \in Covered(T) \cup CoordinatesOf(rest) <=> \E p \in 1..n : c = <<s, seqs[p]>>
    <3>1. ASSUME NEW c \in Covered(T) \cup CoordinatesOf(rest) PROVE \E p \in 1..n : c = <<s, seqs[p]>>
      <4>1. CASE c \in Covered(T)
        <5>1. PICK i \in 1..k : c \in CoordinatesOf(T[i])
          BY <2>1, <4>1
        <5>2. PICK p \in slot(i) : c = <<s, seqs[p]>>
          BY <1>g, <5>1
        <5>3. p \in 1..n
          BY <1>c
        <5> QED BY <5>2, <5>3
      <4>2. CASE c \in CoordinatesOf(rest)
        BY <1>f, <1>h, <4>2
      <4> QED BY <3>1, <4>1, <4>2
    <3>2. ASSUME NEW p \in 1..n PROVE <<s, seqs[p]>> \in Covered(T) \cup CoordinatesOf(rest)
      <4>1. CASE p \in left
        BY <1>h, <4>1
      <4>2. ASSUME NEW i \in 1..k, p \in slot(i) PROVE <<s, seqs[p]>> \in Covered(T)
        BY <1>g, <2>1, <4>2
      <4> QED BY <1>e, <4>1, <4>2
    <3> QED BY <3>1, <3>2
  <2>3. ToSet(seqs) = {seqs[p] : p \in 1..n}
    BY <1>1 DEF ToSet
  <2>4. \A c : c \in {<<s, x>> : x \in ToSet(seqs)} <=> \E p \in 1..n : c = <<s, seqs[p]>>
    BY <2>3
  <2> QED BY <2>2, <2>4
<1> QED BY <1>7, <1>10, <1>15, <1>16, <1>17

----------------------------------------------------------------------------
(* The batches of the call, session by session.                            *)

\* A batch that is apart from a plan extends it.
LEMMA PlanGrows ==
    ASSUME NEW work, NEW P, Planned(P, work), NEW x, Fits(x), \A y \in ToSet(P) : Apart(work, y, x)
    PROVE  /\ Planned(Append(P, x), work)
           /\ Covered(Append(P, x)) = Covered(P) \cup CoordinatesOf(x)
           /\ Named(Append(P, x)) = Named(P) \cup {g.session : g \in ToSet(x)}
<1> DEFINE t == <<x>>
           U == Append(P, x)
<1>1. /\ Planned(t, work) /\ ToSet(t) = {x}
      /\ Covered(t) = CoordinatesOf(x) /\ Named(t) = {g.session : g \in ToSet(x)}
  BY PlanOfOne
<1>2. Joined(U, P, t)
  BY AppendIs DEF Planned
<1> HIDE DEF t, U
<1>3. \A y \in ToSet(P), z \in ToSet(t) : Apart(work, y, z)
  BY <1>1
<1>4. Planned(U, work) /\ Covered(U) = Covered(P) \cup Covered(t) /\ Named(U) = Named(P) \cup Named(t)
  BY <1>1, <1>2, <1>3, PlanJoins
<1> QED BY <1>1, <1>4 DEF U

\* Batches of different sessions.
LEMMA ApartBySession ==
    ASSUME NEW work, NEW x, NEW y, \A g \in ToSet(x), h \in ToSet(y) : g.session # h.session
    PROVE  Apart(work, x, y)
<1>1. CoordinatesOf(x) \cap CoordinatesOf(y) = {}
  BY DEF CoordinatesOf
<1> QED BY <1>1 DEF Apart

\* The numbers of a session are those of its coordinates.
LEMMA SeqsOfIs ==
    ASSUME NEW work, Coordinates(work), NEW s
    PROVE  /\ IsSequence(SeqsOf(work, s)) /\ IsInjective(SeqsOf(work, s))
           /\ {<<s, n>> : n \in ToSet(SeqsOf(work, s))} = {c \in ToSet(work) : c[1] = s}
<1> DEFINE I == {i \in DOMAIN work : work[i][1] = s}
           own == Picked(work, I)
           q == SeqsOf(work, s)
<1>1. q = [i \in DOMAIN own |-> own[i][2]]
  BY DEF SeqsOf
<1>2. /\ \A i, j \in I : work[i] = work[j] => i = j
      /\ I \subseteq DOMAIN work /\ IsSequence(work)
      /\ \A i \in I : work[i] = <<s, work[i][2]>> /\ work[i] \in ToSet(work)
      /\ \A c \in ToSet(work) : c[1] = s => \E i \in I : c = work[i]
  BY DEF Coordinates, IsInjective, ToSet
<1> HIDE DEF I
<1>3. /\ IsSequence(own) /\ IsInjective(own)
      /\ \A i \in I : \E n \in DOMAIN own : own[n] = work[i]
      /\ \A n \in DOMAIN own : \E i \in I : own[n] = work[i]
  BY <1>2, PickedIs
<1> HIDE DEF own, q
<1>4. \A n \in DOMAIN own : own[n] = <<s, own[n][2]>>
  BY <1>2, <1>3
<1>5. Len(own) \in Nat /\ DOMAIN own = 1..Len(own)
  BY <1>3, SequenceShape
<1>6. IsSequence(q) /\ DOMAIN q = DOMAIN own /\ \A n \in DOMAIN own : q[n] = own[n][2]
  <2>1. q = [i \in 1..Len(own) |-> q[i]]
    BY <1>1, <1>5
  <2>2. IsSequence(q)
    BY <1>5, <2>1, FunctionIsSequence
  <2> QED BY <1>1, <2>2
<1>7. IsInjective(q)
  <2> SUFFICES ASSUME NEW i \in DOMAIN own, NEW j \in DOMAIN own, own[i][2] = own[j][2] PROVE i = j
    BY <1>6 DEF IsInjective
  <2>1. own[i] = own[j]
    BY <1>4
  <2> QED BY <1>3, <2>1 DEF IsInjective
<1>8. \A x \in {<<s, n>> : n \in ToSet(q)} : x \in ToSet(work) /\ x[1] = s
  <2> SUFFICES ASSUME NEW n \in DOMAIN own PROVE <<s, own[n][2]>> \in ToSet(work)
    BY <1>6 DEF ToSet
  <2> QED BY <1>2, <1>3, <1>4
<1>9. \A c \in ToSet(work) : c[1] = s => c \in {<<s, n>> : n \in ToSet(q)}
  <2> SUFFICES ASSUME NEW c \in ToSet(work), c[1] = s PROVE c \in {<<s, n>> : n \in ToSet(q)}
    OBVIOUS
  <2>1. PICK n \in DOMAIN own : c = own[n]
    BY <1>2, <1>3
  <2>2. c = <<s, q[n]>> /\ q[n] \in ToSet(q)
    BY <1>4, <1>6, <2>1 DEF ToSet
  <2> QED BY <2>2
<1> QED BY <1>6, <1>7, <1>8, <1>9 DEF q

----------------------------------------------------------------------------
(* The loop over the sessions.                                             *)

\* The batches flushed and the open one ask for the events of the sessions S.
Accumulates(b, work, S) ==
    /\ b = [chunks |-> b.chunks, current |-> b.current]
    /\ IsSequence(b.chunks)
    /\ Planned(Append(b.chunks, b.current), work)
    /\ Covered(Append(b.chunks, b.current)) = {c \in ToSet(work) : c[1] \in S}
    /\ Named(Append(b.chunks, b.current)) \subseteq S

\* Closing the open batch keeps what was accumulated.
LEMMA FlushIs ==
    ASSUME NEW work, NEW S, NEW b, Accumulates(b, work, S)
    PROVE  /\ Planned(Flush(b).chunks, work) /\ Flush(b).current = <<>>
           /\ Covered(Flush(b).chunks) = {c \in ToSet(work) : c[1] \in S}
           /\ Named(Flush(b).chunks) \subseteq S
<1>1. CASE b.current = <<>>
  <2>1. Flush(b) = b
    BY <1>1 DEF Flush
  <2> DEFINE P == b.chunks
             x == b.current
  <2>2. /\ IsSequence(P) /\ Planned(Append(P, x), work)
        /\ Covered(Append(P, x)) = {c \in ToSet(work) : c[1] \in S} /\ Named(Append(P, x)) \subseteq S
    BY DEF Accumulates
  <2>3. CoordinatesOf(x) = {} /\ ToSet(x) = {}
    BY <1>1, NothingIs
  <2> HIDE DEF P, x
  <2>4. Planned(P, work) /\ Covered(P) = Covered(Append(P, x)) /\ Named(P) = Named(Append(P, x))
    <3>1. /\ Planned(P, work)
          /\ Covered(Append(P, x)) = Covered(P) \cup CoordinatesOf(x)
          /\ Named(Append(P, x)) = Named(P) \cup {g.session : g \in ToSet(x)}
      BY <2>2, PlanWithoutLast
    <3> QED BY <2>3, <3>1
  <2> QED BY <1>1, <2>1, <2>2, <2>4 DEF P
<1>2. CASE b.current # <<>>
  <2>1. Flush(b).chunks = Append(b.chunks, b.current) /\ Flush(b).current = <<>>
    BY <1>2 DEF Flush
  <2> QED BY <2>1 DEF Accumulates
<1> QED BY <1>1, <1>2

\* A session that has room in the open batch, or opens one.
LEMMA AddSmallSession ==
    ASSUME NEW work, Coordinates(work), NEW S, NEW b, Accumulates(b, work, S), NEW s, s \notin S,
           Len(SeqsOf(work, s)) <= MaxCoordinates,
           NEW open, open = IF Full(b, Len(SeqsOf(work, s))) THEN Flush(b) ELSE b
    PROVE  Accumulates([open EXCEPT !.current = Append(@, Group(s, SeqsOf(work, s)))], work, S \cup {s})
<1> DEFINE q == SeqsOf(work, s)
           g == Group(s, q)
           P == open.chunks
           x == open.current
           y == Append(x, g)
           own == {c \in ToSet(work) : c[1] = s}
<1>1. /\ IsSequence(q) /\ IsInjective(q) /\ {<<s, n>> : n \in ToSet(q)} = own
      /\ Len(q) \in Nat /\ Len(q) <= MaxCoordinates
  BY SeqsOfIs, SequenceShape
<1>2. g.session = s /\ g.seqs = q
  BY DEF Group
<1>3. /\ open = [chunks |-> P, current |-> x]
      /\ Planned(P, work) /\ Fits(x) /\ \A z \in ToSet(P) : Apart(work, z, x)
      /\ Covered(P) \cup CoordinatesOf(x) = {c \in ToSet(work) : c[1] \in S}
      /\ Named(P) \cup {h.session : h \in ToSet(x)} \subseteq S
      /\ Len(x) < MaxGroups /\ Size(x) + Len(q) <= MaxCoordinates
  <2>1. CASE Full(b, Len(q))
    <3>1. open = Flush(b)
      BY <2>1
    <3>2. open = [chunks |-> P, current |-> x]
      BY <3>1 DEF Flush, Accumulates
    <3>3. /\ Planned(P, work) /\ x = <<>> /\ Named(P) \subseteq S
          /\ Covered(P) = {c \in ToSet(work) : c[1] \in S}
      BY <3>1, FlushIs
    <3>4. Fits(x) /\ ToSet(x) = {} /\ CoordinatesOf(x) = {} /\ Len(x) = 0 /\ Size(x) = 0
      BY <3>3, NothingIs
    <3>5. 0 < MaxGroups
      BY ExactReadAssumption DEF ExactReadAssumption
    <3> HIDE DEF P, x, q
    <3>6. \A z \in ToSet(P) : Apart(work, z, x)
      BY <3>4, ApartBySession
    <3> QED BY <1>1, <3>2, <3>3, <3>4, <3>5, <3>6
  <2>2. CASE ~ Full(b, Len(q))
    <3>1. open = b
      BY <2>2
    <3>2. /\ open = [chunks |-> P, current |-> x] /\ IsSequence(P)
          /\ Planned(Append(P, x), work)
          /\ Covered(Append(P, x)) = {c \in ToSet(work) : c[1] \in S}
          /\ Named(Append(P, x)) \subseteq S
      BY <3>1 DEF Accumulates
    <3>3. ~ (Len(x) >= MaxGroups) /\ ~ (Size(x) + Len(q) > MaxCoordinates)
      BY <2>2, <3>1 DEF Full
    <3> HIDE DEF P, x, q
    <3>4. /\ Planned(P, work) /\ Fits(x) /\ \A z \in ToSet(P) : Apart(work, z, x)
          /\ Covered(Append(P, x)) = Covered(P) \cup CoordinatesOf(x)
          /\ Named(Append(P, x)) = Named(P) \cup {h.session : h \in ToSet(x)}
      BY <3>2, PlanWithoutLast
    <3>5. Len(x) \in Nat /\ Size(x) \in Nat /\ MaxGroups \in Nat /\ MaxCoordinates \in Nat
      BY <3>4, SequenceShape, PositionsAreFinite, ExactReadAssumption DEF ExactReadAssumption, Fits, Batch
    <3>6. Len(x) < MaxGroups /\ Size(x) + Len(q) <= MaxCoordinates
      BY <1>1, <3>3, <3>5
    <3> QED BY <3>2, <3>4, <3>6
  <2> QED BY <2>1, <2>2
<1>4. [open EXCEPT !.current = Append(@, g)] = [chunks |-> P, current |-> y]
  BY <1>3
<1> HIDE DEF P, x, q, g
<1>5. \A h \in ToSet(x) : h.session # s
  BY <1>3
<1>6. Fits(y)
  BY <1>1, <1>3, <1>5, FitsGrows DEF g
<1>7. CoordinatesOf(y) = CoordinatesOf(x) \cup own
  <2>1. Batch(x) /\ IsSequence(g.seqs)
    BY <1>1, <1>2, <1>3 DEF Fits
  <2> QED BY <1>1, <1>2, <2>1, SizeGrows
<1>8. ToSet(y) = ToSet(x) \cup {g}
  <2>1. IsSequence(x)
    BY <1>3 DEF Fits, Batch
  <2>2. Joined(y, x, <<g>>) /\ IsSequence(<<g>>) /\ ToSet(<<g>>) = {g}
    BY <2>1, AppendIs, OneElement
  <2>3. ToSet(y) = ToSet(x) \cup ToSet(<<g>>)
    BY <2>1, <2>2, JoinedIs
  <2> QED BY <2>2, <2>3
<1> HIDE DEF y
<1>9. \A z \in ToSet(P) : Apart(work, z, y)
  <2> TAKE z \in ToSet(P)
  <2>1. \A h \in ToSet(z) : h.session \in S
    BY <1>3 DEF Named
  <2>2. CoordinatesOf(z) \cap own = {}
    BY <2>1 DEF CoordinatesOf
  <2>3. Apart(work, z, x)
    BY <1>3
  <2>4. \A h \in ToSet(z) : h.session # g.session
    BY <1>2, <2>1
  <2> QED BY <1>7, <1>8, <2>2, <2>3, <2>4 DEF Apart
<1>10. /\ Planned(Append(P, y), work)
       /\ Covered(Append(P, y)) = Covered(P) \cup CoordinatesOf(y)
       /\ Named(Append(P, y)) = Named(P) \cup {h.session : h \in ToSet(y)}
  BY <1>3, <1>6, <1>9, PlanGrows
<1>11. Covered(Append(P, y)) = {c \in ToSet(work) : c[1] \in S \cup {s}}
  <2>1. Covered(Append(P, y)) = {c \in ToSet(work) : c[1] \in S} \cup own
    BY <1>3, <1>7, <1>10
  <2> QED BY <2>1
<1>12. Named(Append(P, y)) \subseteq S \cup {s}
  BY <1>2, <1>3, <1>8, <1>10
<1>13. IsSequence(P)
  BY <1>3 DEF Planned
<1> DEFINE r == [chunks |-> P, current |-> y]
<1>14. r.chunks = P /\ r.current = y /\ r = [chunks |-> r.chunks, current |-> r.current]
  OBVIOUS
<1> HIDE DEF r
<1>15. Accumulates(r, work, S \cup {s})
  BY <1>10, <1>11, <1>12, <1>13, <1>14 DEF Accumulates
<1> QED BY <1>4, <1>15 DEF r, g, q

\* Batches of one session only, and of all its events.
Sliced(work, s, T, rest) ==
    /\ Planned(T, work) /\ Fits(rest)
    /\ \A x \in ToSet(T) : Apart(work, x, rest)
    /\ Covered(T) \cup CoordinatesOf(rest) = {c \in ToSet(work) : c[1] = s}
    /\ \A x \in ToSet(T) \cup {rest} : \A g \in ToSet(x) : g.session = s

\* A session too large for a batch, cut into slices.
LEMMA AddLargeSession ==
    ASSUME NEW work, Coordinates(work), NEW S, NEW b, Accumulates(b, work, S), NEW s, s \notin S,
           NEW T, NEW rest, Sliced(work, s, T, rest)
    PROVE  Accumulates([chunks |-> Flush(b).chunks \o T, current |-> rest], work, S \cup {s})
<1> DEFINE F == Flush(b).chunks
           own == {c \in ToSet(work) : c[1] = s}
           U == F \o T
<1>2. /\ Planned(F, work) /\ Named(F) \subseteq S
      /\ Covered(F) = {c \in ToSet(work) : c[1] \in S}
  BY FlushIs
<1>3. /\ Planned(T, work) /\ Fits(rest)
      /\ \A x \in ToSet(T) : Apart(work, x, rest)
      /\ Covered(T) \cup CoordinatesOf(rest) = own
      /\ \A x \in ToSet(T) \cup {rest} : \A g \in ToSet(x) : g.session = s
  BY DEF Sliced
<1> HIDE DEF F, own
<1>4. \A x \in ToSet(F) : \A g \in ToSet(x) : g.session \in S
  BY <1>2 DEF Named
<1>5. \A x \in ToSet(F), y \in ToSet(T) \cup {rest} : Apart(work, x, y)
  <2> TAKE x \in ToSet(F), y \in ToSet(T) \cup {rest}
  <2>1. \A g \in ToSet(x), h \in ToSet(y) : g.session # h.session
    BY <1>3, <1>4
  <2> QED BY <2>1, ApartBySession
<1>6. Joined(U, F, T)
  BY <1>2, <1>3, ConcatIs DEF Planned
<1> HIDE DEF U
<1>7. /\ Planned(U, work) /\ ToSet(U) = ToSet(F) \cup ToSet(T)
      /\ Covered(U) = Covered(F) \cup Covered(T) /\ Named(U) = Named(F) \cup Named(T)
  <2>1. IsSequence(F) /\ IsSequence(T)
    BY <1>2, <1>3 DEF Planned
  <2>2. ToSet(U) = ToSet(F) \cup ToSet(T)
    BY <1>6, <2>1, JoinedIs
  <2>3. \A x \in ToSet(F), y \in ToSet(T) : Apart(work, x, y)
    BY <1>5
  <2>4. Planned(U, work) /\ Covered(U) = Covered(F) \cup Covered(T) /\ Named(U) = Named(F) \cup Named(T)
    BY <1>2, <1>3, <1>6, <2>3, PlanJoins
  <2> QED BY <2>2, <2>4
<1>8. \A x \in ToSet(U) : Apart(work, x, rest)
  BY <1>3, <1>5, <1>7
<1>9. /\ Planned(Append(U, rest), work)
      /\ Covered(Append(U, rest)) = Covered(U) \cup CoordinatesOf(rest)
      /\ Named(Append(U, rest)) = Named(U) \cup {g.session : g \in ToSet(rest)}
  BY <1>3, <1>7, <1>8, PlanGrows
<1>10. Covered(Append(U, rest)) = {c \in ToSet(work) : c[1] \in S \cup {s}}
  <2>1. Covered(Append(U, rest)) = {c \in ToSet(work) : c[1] \in S} \cup own
    BY <1>2, <1>3, <1>7, <1>9
  <2> QED BY <2>1 DEF own
<1>11. Named(Append(U, rest)) \subseteq S \cup {s}
  <2>1. Named(T) \subseteq {s} /\ {g.session : g \in ToSet(rest)} \subseteq {s}
    BY <1>3 DEF Named
  <2> QED BY <1>2, <1>7, <1>9, <2>1
<1>12. IsSequence(U)
  BY <1>7 DEF Planned
<1> DEFINE r == [chunks |-> U, current |-> rest]
<1>13. r.chunks = U /\ r.current = rest /\ r = [chunks |-> r.chunks, current |-> r.current]
  OBVIOUS
<1> HIDE DEF r
<1>14. Accumulates(r, work, S \cup {s})
  BY <1>9, <1>10, <1>11, <1>12, <1>13 DEF Accumulates
<1> QED BY <1>14 DEF r, U, F

\* Adding a session.
LEMMA AddSessionAccumulates ==
    ASSUME NEW work, Coordinates(work), NEW S, NEW b, Accumulates(b, work, S), NEW s, s \notin S,
           NEW c \in ToSet(work), c[1] = s
    PROVE  Accumulates(AddSession(b, s, SeqsOf(work, s)), work, S \cup {s})
<1> DEFINE q == SeqsOf(work, s)
           M == MaxCoordinates
           n == Len(q)
           k == (n - 1) \div M
<1>1. M \in Nat \ {0} /\ IsSequence(q) /\ n \in Nat /\ n >= 1 /\ SubSeq(q, 1, n) = q
  <2>1. IsSequence(q) /\ \E x \in ToSet(q) : TRUE
    BY SeqsOfIs
  <2>2. n \in Nat /\ DOMAIN q = 1..n
    BY <2>1, SequenceShape
  <2>3. SubSeq(q, 1, n) = q
    BY <2>1, SubSeqFull DEF IsSequence
  <2> HIDE DEF q, n
  <2>4. \E i \in 1..n : TRUE
    BY <2>1, <2>2 DEF ToSet
  <2>5. n >= 1
    BY <2>2, <2>4
  <2> QED BY <2>1, <2>2, <2>3, <2>5, ExactReadAssumption DEF ExactReadAssumption
<1>2. CASE n > M
  <2> DEFINE T == [i \in 1..k |-> <<Group(s, SubSeq(q, (i - 1) * M + 1, i * M))>>]
             rest == <<Group(s, SubSeq(q, k * M + 1, n))>>
             lo == [i \in 1..k |-> (i - 1) * M + 1]
             hi == [i \in 1..k |-> i * M]
             st == k * M + 1
  <2>1. AddSession(b, s, q) = [chunks |-> Flush(b).chunks \o T, current |-> rest]
    BY <1>2 DEF AddSession
  <2>2. Cut(n, M, k, lo, hi, st)
    <3> HIDE DEF n, M
    <3> QED BY <1>1, <1>2, SlicesCut
  <2>3. T = [i \in 1..k |-> <<Group(s, SubSeq(q, lo[i], hi[i]))>>] /\ rest = <<Group(s, SubSeq(q, st, n))>>
    <3> HIDE DEF n, M, q, k
    <3> QED OBVIOUS
  <2>4. TooLarge(work, s)
    BY <1>2 DEF TooLarge
  <2> HIDE DEF T, rest, lo, hi, st, k
  <2>a. Sliced(work, s, T, rest)
    <3> DEFINE own == {x \in ToSet(work) : x[1] = s}
    <3>1. /\ IsSequence(q) /\ IsInjective(q) /\ {<<s, x>> : x \in ToSet(q)} = own
          /\ Cut(Len(q), MaxCoordinates, k, lo, hi, st)
      BY <2>2, SeqsOfIs
    <3> HIDE DEF own, q, M, n
    <3>2. T = [i \in 1..k |-> <<Group(s, SubSeq(q, lo[i], hi[i]))>>] /\ rest = <<Group(s, SubSeq(q, st, Len(q)))>>
      BY <2>3 DEF n
    <3>3. /\ Planned(T, work) /\ Fits(rest)
          /\ \A x \in ToSet(T) : Apart(work, x, rest)
          /\ Covered(T) \cup CoordinatesOf(rest) = {<<s, x>> : x \in ToSet(q)}
          /\ \A x \in ToSet(T) \cup {rest} : \A g \in ToSet(x) : g.session = s
      BY <2>4, <3>1, <3>2, SlicesArePlanned
    <3> QED BY <3>1, <3>3 DEF Sliced, own
  <2>5. Accumulates([chunks |-> Flush(b).chunks \o T, current |-> rest], work, S \cup {s})
    BY <2>a, AddLargeSession
  <2> QED BY <2>1, <2>5
<1>3. CASE ~ (n > M)
  <2> DEFINE open == IF Full(b, n) THEN Flush(b) ELSE b
  <2>1. k = 0
    <3> HIDE DEF n, M
    <3>1. n - 1 \in Nat /\ n - 1 < M
      BY <1>1, <1>3
    <3> DEFINE d == (n - 1) \div M
    <3>2. d \in Nat /\ d * M <= n - 1
      BY <1>1, <3>1, QuotientIs
    <3> HIDE DEF d
    <3>3. d < 1
      <4> SUFFICES ASSUME 1 <= d PROVE FALSE
        BY <3>2
      <4>1. 1 * M <= d * M /\ d * M \in Int /\ 1 * M = M
        BY <1>1, <3>2, ProductGrows
      <4> QED BY <1>1, <3>1, <3>2, <4>1
    <3> QED BY <3>2, <3>3 DEF d
  <2>2. SubSeq(q, k * M + 1, n) = q
    <3>1. k * M + 1 = 1
      <4> HIDE DEF k, M
      <4> QED BY <1>1, <2>1
    <3> QED BY <1>1, <3>1
  <2>3. AddSession(b, s, q) = [open EXCEPT !.current = Append(@, Group(s, q))]
    BY <1>3, <2>2 DEF AddSession
  <2>4. n <= MaxCoordinates
    <3>1. n <= M
      <4> HIDE DEF n, M
      <4> QED BY <1>1, <1>3
    <3> QED BY <3>1
  <2> HIDE DEF open
  <2>5. open = IF Full(b, n) THEN Flush(b) ELSE b
    BY DEF open
  <2>6. Accumulates([open EXCEPT !.current = Append(@, Group(s, q))], work, S \cup {s})
    BY <2>4, <2>5, AddSmallSession
  <2> QED BY <2>3, <2>6
<1> QED BY <1>2, <1>3

\* The first k sessions are added one after the other.
Adds(work, k, f) ==
    f = [n \in 0..k |-> IF n = 0 THEN [chunks |-> <<>>, current |-> <<>>]
                        ELSE AddSession(f[n - 1], Sessions(work)[n], SeqsOf(work, Sessions(work)[n]))]

\* The loop over the sessions, one step further.
LEMMA AddsOneMore ==
    ASSUME NEW work, NEW k \in Nat, k > 0, NEW f, Adds(work, k - 1, f)
    PROVE  \E g : Adds(work, k, g)
<1> DEFINE zero == [chunks |-> <<>>, current |-> <<>>]
           add(x, n) == AddSession(x, Sessions(work)[n], SeqsOf(work, Sessions(work)[n]))
           g == [n \in 0..k |-> IF n = k THEN add(f[k - 1], k) ELSE f[n]]
<1>1. f = [n \in 0..k - 1 |-> IF n = 0 THEN zero ELSE add(f[n - 1], n)]
  BY DEF Adds
<1> HIDE DEF zero, add
<1>2. ASSUME NEW n \in 0..k PROVE g[n] = IF n = 0 THEN zero ELSE add(g[n - 1], n)
  <2>1. CASE n = k
    <3>1. g[n] = add(f[k - 1], k) /\ n # 0 /\ k - 1 \in 0..k /\ k - 1 # k
      BY <2>1
    <3>2. g[k - 1] = f[k - 1]
      BY <3>1
    <3> QED BY <2>1, <3>1, <3>2
  <2>2. CASE n # k /\ n = 0
    BY <1>1, <2>2
  <2>3. CASE n # k /\ n # 0
    <3>1. n \in 0..k - 1 /\ n - 1 \in 0..k /\ n - 1 # k
      BY <2>3
    <3>2. g[n] = f[n] /\ g[n - 1] = f[n - 1]
      BY <2>3, <3>1
    <3>3. f[n] = add(f[n - 1], n)
      BY <1>1, <2>3, <3>1
    <3> QED BY <2>3, <3>2, <3>3
  <2> QED BY <2>1, <2>2, <2>3
<1>3. g = [n \in 0..k |-> g[n]]
  OBVIOUS
<1> HIDE DEF g
<1>4. g = [n \in 0..k |-> IF n = 0 THEN zero ELSE add(g[n - 1], n)]
  BY <1>2, <1>3
<1>5. Adds(work, k, g)
  BY <1>4 DEF Adds, zero, add
<1> QED BY <1>5

\* There is a function that does the first n steps of the loop: what a recursive
\* function means.
LEMMA AddsExist ==
    ASSUME NEW work, NEW n \in Nat
    PROVE  \E f : Adds(work, n, f)
<1> DEFINE T == {k \in Nat : ~ \E f : Adds(work, k, f)}
<1> SUFFICES ASSUME T # {} PROVE FALSE
  OBVIOUS
<1>1. PICK k \in T : \A j \in T : k <= j
  BY LeastPosition
<1>2. k # 0
  <2> DEFINE zero == [chunks |-> <<>>, current |-> <<>>]
             f == [i \in 0..0 |-> zero]
  <2>1. 0..0 = {0}
    OBVIOUS
  <2> HIDE DEF zero
  <2>2. f = [i \in 0..0 |-> IF i = 0 THEN zero ELSE AddSession(f[i - 1], Sessions(work)[i], SeqsOf(work, Sessions(work)[i]))]
    BY <2>1
  <2>3. Adds(work, 0, f)
    BY <2>2 DEF Adds, zero
  <2> QED BY <2>3
<1>3. k - 1 \in Nat /\ k > 0 /\ k \in Nat
  BY <1>2
<1>4. \E f : Adds(work, k - 1, f)
  <2>1. k - 1 \notin T
    BY <1>1, <1>3
  <2> QED BY <1>3, <2>1
<1>5. \E g : Adds(work, k, g)
  BY <1>3, <1>4, AddsOneMore
<1> QED BY <1>5

\* The sessions of the work, each once.
LEMMA SessionsAre ==
    ASSUME NEW work, Coordinates(work)
    PROVE  /\ IsSequence(Sessions(work)) /\ IsInjective(Sessions(work))
           /\ ToSet(Sessions(work)) = {c[1] : c \in ToSet(work)}
<1> DEFINE f == [i \in DOMAIN work |-> work[i][1]]
<1>1. Len(work) \in Nat /\ DOMAIN work = 1..Len(work)
  BY SequenceShape DEF Coordinates
<1>2. IsSequence(f)
  <2>1. f = [i \in 1..Len(work) |-> f[i]]
    BY <1>1
  <2> HIDE DEF f
  <2> QED BY <1>1, <2>1, FunctionIsSequence
<1>3. ToSet(f) = {c[1] : c \in ToSet(work)}
  BY DEF ToSet
<1>4. Sessions(work) = DropRepeats(f)
  BY DEF Sessions
<1> HIDE DEF f
<1> QED BY <1>2, <1>3, <1>4, DropRepeatsIs

\* The recursive function is one that does all steps.
LEMMA GroupedIs ==
    ASSUME NEW work, Coordinates(work)
    PROVE  Adds(work, Len(Sessions(work)), Grouped(work))
<1> DEFINE k == Len(Sessions(work))
<1>1. k \in Nat
  BY SessionsAre, SequenceShape
<1>2. \E f : Adds(work, k, f)
  BY <1>1, AddsExist
<1>3. Grouped(work) = CHOOSE f : Adds(work, k, f)
  BY DEF Grouped, Adds
<1> QED BY <1>2, <1>3

\* After n sessions their coordinates are planned, and no others.
LEMMA GroupedAccumulates ==
    ASSUME NEW work, Coordinates(work)
    PROVE  \A n \in 0..Len(Sessions(work)) :
               Accumulates(Grouped(work)[n], work, {Sessions(work)[i] : i \in 1..n})
<1> DEFINE ss == Sessions(work)
           k == Len(ss)
           b == Grouped(work)
           S(n) == {ss[i] : i \in 1..n}
           T == {n \in 0..k : ~ Accumulates(b[n], work, S(n))}
<1>1. k \in Nat /\ DOMAIN ss = 1..k /\ IsInjective(ss) /\ ToSet(ss) = {c[1] : c \in ToSet(work)}
  BY SessionsAre, SequenceShape
<1>2. b = [n \in 0..k |-> IF n = 0 THEN [chunks |-> <<>>, current |-> <<>>]
                          ELSE AddSession(b[n - 1], ss[n], SeqsOf(work, ss[n]))]
  BY GroupedIs DEF Adds
<1> HIDE DEF ss, k, b
<1>3. ASSUME NEW n \in 1..k PROVE b[n] = AddSession(b[n - 1], ss[n], SeqsOf(work, ss[n]))
  <2>1. n \in 0..k /\ n # 0
    BY <1>1
  <2> QED BY <1>2, <2>1
<1>4. SUFFICES ASSUME T # {} PROVE FALSE
  BY DEF ss, k, b
<1>5. T \subseteq Nat
  BY <1>1
<1>6. PICK n \in T : \A j \in T : n <= j
  BY <1>4, <1>5, LeastPosition
<1>7. n \in 0..k /\ n \in Nat
  BY <1>5
<1>8. CASE n = 0
  <2>1. S(0) = {}
    <3>1. 1..0 = {}
      OBVIOUS
    <3> QED BY <3>1
  <2> DEFINE zero == [chunks |-> <<>>, current |-> <<>>]
  <2>2. b[0] = zero
    BY <1>1, <1>2
  <2>3. Fits(<<>>) /\ IsSequence(<<>>) /\ ToSet(<<>>) = {} /\ CoordinatesOf(<<>>) = {}
    BY NothingIs
  <2>4. Append(<<>>, <<>>) = <<<<>>>>
    OBVIOUS
  <2>5. Planned(<<<<>>>>, work) /\ Covered(<<<<>>>>) = {} /\ Named(<<<<>>>>) = {}
    BY <2>3, PlanOfOne
  <2>6. zero.chunks = <<>> /\ zero.current = <<>> /\ zero = [chunks |-> zero.chunks, current |-> zero.current]
    OBVIOUS
  <2> HIDE DEF zero
  <2>7. Accumulates(zero, work, {})
    BY <2>3, <2>4, <2>5, <2>6 DEF Accumulates
  <2> QED BY <1>6, <1>8, <2>1, <2>2, <2>7
<1>9. CASE n # 0
  <2>0. n - 1 \in 0..k /\ n \in 1..k
    BY <1>1, <1>7, <1>9
  <2>a. n - 1 \notin T
    <3> HIDE DEF T
    <3>1. n - 1 < n
      BY <1>7
    <3>2. ~ n <= n - 1
      BY <1>7, <3>1
    <3> QED BY <1>6, <3>2
  <2>1. n - 1 \in 0..k /\ n \in 1..k /\ n - 1 \notin T
    BY <2>0, <2>a
  <2>2. Accumulates(b[n - 1], work, S(n - 1))
    BY <2>1
  <2>3. S(n) = S(n - 1) \cup {ss[n]}
    <3>1. 1..n = 1..n - 1 \cup {n}
      BY <2>1
    <3> QED BY <3>1
  <2>4. ss[n] \notin S(n - 1)
    <3> SUFFICES ASSUME NEW i \in 1..n - 1, ss[i] = ss[n] PROVE FALSE
      OBVIOUS
    <3>1. i \in DOMAIN ss /\ n \in DOMAIN ss /\ i # n
      BY <1>1, <1>7, <2>1
    <3> QED BY <1>1, <3>1 DEF IsInjective
  <2>5. PICK c \in ToSet(work) : c[1] = ss[n]
    BY <1>1, <2>1 DEF ToSet
  <2> HIDE DEF S
  <2>6. Accumulates(AddSession(b[n - 1], ss[n], SeqsOf(work, ss[n])), work, S(n - 1) \cup {ss[n]})
    BY <2>2, <2>4, <2>5, AddSessionAccumulates
  <2>7. Accumulates(b[n], work, S(n))
    BY <1>3, <2>1, <2>3, <2>6
  <2> QED BY <1>6, <2>7
<1> QED BY <1>8, <1>9

\* The plan: every event once, within the bounds, a session in two batches only if it is too large.
LEMMA PlanIs ==
    ASSUME NEW work, Coordinates(work)
    PROVE  Planned(GroupedChunks(work), work) /\ Covered(GroupedChunks(work)) = ToSet(work)
<1> DEFINE ss == Sessions(work)
           k == Len(ss)
           S == {ss[i] : i \in 1..k}
           b == Grouped(work)[k]
<1>1. k \in Nat /\ DOMAIN ss = 1..k /\ ToSet(ss) = {c[1] : c \in ToSet(work)}
  BY SessionsAre, SequenceShape
<1>2. S = {c[1] : c \in ToSet(work)}
  <2> HIDE DEF ss, k
  <2> QED BY <1>1 DEF ToSet
<1>3. k \in 0..k
  <2> HIDE DEF k
  <2> QED BY <1>1
<1>4. Accumulates(b, work, S)
  BY <1>3, GroupedAccumulates
<1>5. GroupedChunks(work) = Flush(b).chunks
  BY DEF GroupedChunks
<1> HIDE DEF S, b
<1>6. Planned(Flush(b).chunks, work) /\ Covered(Flush(b).chunks) = {c \in ToSet(work) : c[1] \in S}
  BY <1>4, FlushIs
<1> QED BY <1>2, <1>5, <1>6

\* The work of a response is a sequence of distinct coordinates.
LEMMA WorkIs == ASSUME NEW r \in Responses PROVE Coordinates(Work(r))
<1>1. /\ IsSequence(Work(r)) /\ IsInjective(Work(r))
      /\ ToSet(Work(r)) = {Coordinate(p.hit) : p \in ToSet(Pointers(r))}
  BY PointersAre
<1> DEFINE W == Work(r)
<1> HIDE DEF W
<1>2. \A c \in ToSet(W) : c = <<c[1], c[2]>>
  BY <1>1 DEF Coordinate, W
<1>3. \A i \in DOMAIN W : W[i] = <<W[i][1], W[i][2]>>
  <2> TAKE i \in DOMAIN W
  <2>1. W[i] \in ToSet(W)
    BY DEF ToSet
  <2> QED BY <1>2, <2>1
<1> QED BY <1>1, <1>3 DEF Coordinates, W

----------------------------------------------------------------------------
(* The batches asked for are those of the plan, one after the other.       *)

\* The batches asked for, and those not yet answered, of which the first is the n-th.
Begins(rs, P) ==
    /\ IsSequence(rs) /\ Len(rs) <= Len(P)
    /\ \A i \in DOMAIN rs : i \in DOMAIN P /\ rs[i] = P[i]
Remain(cs, P, n) ==
    /\ IsSequence(cs) /\ Len(cs) = Len(P) - n + 1
    /\ \A i \in DOMAIN cs : n + i - 1 \in DOMAIN P /\ cs[i] = P[n + i - 1]

\* The first batch goes out.
LEMMA FirstBatch ==
    ASSUME NEW P, IsSequence(P), P # <<>>
    PROVE  /\ Begins(<<Head(P)>>, P) /\ Len(<<Head(P)>>) = 1
           /\ Remain(P, P, 1)
<1>1. Len(P) \in Nat /\ DOMAIN P = 1..Len(P)
  BY SequenceShape
<1>2. Len(P) >= 1 /\ Head(P) = P[1]
  BY <1>1, EmptySeq, HeadTailProperties DEF IsSequence
<1>3. /\ IsSequence(<<Head(P)>>) /\ Len(<<Head(P)>>) = 1 /\ DOMAIN <<Head(P)>> = {1}
      /\ <<Head(P)>>[1] = Head(P)
  BY OneElement
<1>4. Begins(<<Head(P)>>, P)
  BY <1>1, <1>2, <1>3 DEF Begins
<1>5. Remain(P, P, 1)
  BY <1>1 DEF Remain
<1> QED BY <1>3, <1>4, <1>5

\* An answer, and the next batch goes out.
LEMMA NextBatch ==
    ASSUME NEW P, IsSequence(P), NEW rs, Begins(rs, P), Len(rs) >= 1,
           NEW cs, Remain(cs, P, Len(rs)), Tail(cs) # <<>>
    PROVE  LET u == Append(rs, Head(Tail(cs)))
           IN Begins(u, P) /\ Len(u) >= 1 /\ Remain(Tail(cs), P, Len(u))
<1> DEFINE x == Head(Tail(cs))
           u == Append(rs, x)
           t == Tail(cs)
           n == Len(rs)
           m == Len(P)
<1>1. n \in Nat /\ m \in Nat /\ n <= m /\ n >= 1 /\ DOMAIN P = 1..m /\ DOMAIN rs = 1..n
  BY SequenceShape DEF Begins
<1>2. Len(cs) = m - n + 1 /\ DOMAIN cs = 1..Len(cs) /\ IsSequence(cs)
  BY SequenceShape DEF Remain
<1>a. Len(cs) >= 1
  BY <1>1, <1>2
<1>b. cs # <<>>
  BY <1>a, EmptySeq
<1>3. t \in Seq(ToSet(cs)) /\ Len(t) = m - n /\ \A i \in 1..m - n : t[i] = cs[i + 1]
  BY <1>1, <1>2, <1>b, HeadTailProperties DEF IsSequence
<1>4. IsSequence(t)
  <2>1. t \in [1..m - n -> ToSet(cs)] /\ m - n \in Nat
    BY <1>1, <1>3, LenProperties
  <2> HIDE DEF t, m, n
  <2>2. t = [i \in 1..m - n |-> t[i]]
    BY <2>1
  <2> QED BY <2>1, <2>2, FunctionIsSequence
<1>5. DOMAIN t = 1..m - n
  BY <1>3, <1>4, SequenceShape
<1>6. t # <<>> /\ m - n >= 1 /\ x = t[1]
  <2>1. t # <<>>
    OBVIOUS
  <2>2. m - n # 0
    BY <1>3, <2>1, EmptySeq
  <2>3. x = t[1]
    BY <1>3, <2>1, HeadTailProperties
  <2> HIDE DEF t, m, n, x
  <2> QED BY <1>1, <2>1, <2>2, <2>3
<1>7. \A i \in DOMAIN cs : n + i - 1 \in DOMAIN P /\ cs[i] = P[n + i - 1]
  BY DEF Remain
<1>8. \A i \in 1..n : rs[i] = P[i]
  BY <1>1 DEF Begins
<1>9. Joined(u, rs, <<x>>) /\ Len(<<x>>) = 1 /\ IsSequence(rs) /\ IsSequence(<<x>>) /\ DOMAIN <<x>> = {1}
      /\ <<x>>[1] = x
  BY AppendIs, OneElement DEF Begins
<1> HIDE DEF t, x, u, m, n
<1>10. IsSequence(u) /\ Len(u) = n + 1 /\ u[n + 1] = x /\ \A i \in 1..n : u[i] = rs[i]
  BY <1>1, <1>9 DEF Joined, n
<1>11. \A i \in 1..m - n : i + 1 \in DOMAIN cs /\ t[i] = P[n + i]
  <2> TAKE i \in 1..m - n
  <2>1. i + 1 \in DOMAIN cs /\ n + (i + 1) - 1 = n + i
    BY <1>1, <1>2
  <2> QED BY <1>3, <1>7, <2>1
<1>12. x = P[n + 1] /\ n + 1 \in 1..m
  <2>1. 1 \in 1..m - n /\ n + 1 \in 1..m
    BY <1>1, <1>6
  <2> QED BY <1>6, <1>11, <2>1
<1>13. DOMAIN u = 1..n + 1
  BY <1>10, SequenceShape
<1>14. \A i \in 1..n + 1 : i \in 1..m /\ u[i] = P[i]
  <2> TAKE i \in 1..n + 1
  <2>1. CASE i \in 1..n
    BY <1>1, <1>8, <1>10, <2>1
  <2>2. CASE i = n + 1
    BY <1>10, <1>12, <2>2
  <2> QED BY <1>1, <2>1, <2>2
<1>15. n + 1 <= m /\ n + 1 >= 1
  BY <1>1, <1>6
<1>16. Begins(u, P)
  BY <1>1, <1>10, <1>13, <1>14, <1>15 DEF Begins, m
<1>17. \A i \in 1..m - n : (n + 1) + i - 1 = n + i /\ n + i \in 1..m
  BY <1>1
<1>18. Len(t) = m - (n + 1) + 1
  BY <1>1, <1>3
<1>19. Remain(t, P, Len(u))
  <2>1. \A i \in DOMAIN t : Len(u) + i - 1 \in DOMAIN P /\ t[i] = P[Len(u) + i - 1]
    BY <1>1, <1>5, <1>10, <1>11, <1>17
  <2> QED BY <1>4, <1>10, <1>18, <2>1 DEF Remain, m
<1> QED BY <1>10, <1>15, <1>16, <1>19 DEF u, t, x

\* An answer, and no batch is left.
LEMMA LastBatch ==
    ASSUME NEW P, IsSequence(P), NEW rs, Begins(rs, P), Len(rs) >= 1,
           NEW cs, Remain(cs, P, Len(rs)), Tail(cs) = <<>>
    PROVE  Len(rs) = Len(P)
<1> DEFINE n == Len(rs)
           m == Len(P)
<1>1. n \in Nat /\ m \in Nat /\ n <= m /\ IsSequence(cs)
  BY SequenceShape DEF Begins, Remain
<1>2. Len(cs) = m - n + 1
  BY DEF Remain
<1>3. cs # <<>>
  <2> HIDE DEF m, n
  <2> QED BY <1>1, <1>2, EmptySeq
<1>4. Len(Tail(cs)) = Len(cs) - 1
  BY <1>1, <1>3, HeadTailProperties DEF IsSequence
<1>5. Len(Tail(cs)) = 0
  BY EmptySeq
<1> HIDE DEF m, n
<1>6. n = m
  BY <1>1, <1>2, <1>4, <1>5
<1> QED BY <1>6 DEF m, n

----------------------------------------------------------------------------
(* What has been asked for, up to the batch or the coordinates in flight.  *)

\* groupedSnapshotChunks: the batches of the call.
Plan == GroupedChunks(Eligible(Work(response)))

\* The plan of the call covers what can be read.
LEMMA PlanOfTheCall ==
    ASSUME OfASearch
    PROVE  /\ Planned(Plan, Eligible(Work(response)))
           /\ Covered(Plan) = ToSet(Eligible(Work(response)))
           /\ IsSequence(Plan)
<1>1. Coordinates(Work(response))
  BY WorkIs DEF OfASearch
<1>2. Coordinates(Eligible(Work(response)))
  BY <1>1, EligibleIs
<1>3. Planned(Plan, Eligible(Work(response))) /\ Covered(Plan) = ToSet(Eligible(Work(response)))
  BY <1>2, PlanIs DEF Plan
<1> QED BY <1>3 DEF Planned

\* The batches are those of the plan, up to the one in flight.
BatchesInOrder ==
    /\ Begins(reads, Plan)
    /\ step = "call" => reads = <<>>
    /\ step = "reading" => Len(reads) >= 1 /\ Remain(chunks, Plan, Len(reads))
    /\ step = "verify" \/ Returned => Len(reads) = Len(Plan)

\* The readers have asked for the work up to their cursor; a reader that is done left none.
ReadersInOrder ==
    /\ cursor \in Nat /\ cursor <= Len(Work(response))
    /\ ReadUpTo(reads, Work(response), cursor)
    /\ step \in {"reading", "verify"} =>
           \A w \in Reader : worker[w].at = "done" => cursor = Len(Work(response))
    /\ Returned => cursor = Len(Work(response))

AskedInv ==
    /\ OfASearch
    /\ mode = "grouped" => BatchesInOrder
    /\ mode # "grouped" => ReadersInOrder
    /\ reads # <<>> => DOMAIN event = ToSet(Work(response))

\* Before the first read.
LEMMA NothingReadYet ==
    ASSUME NEW work
    PROVE  ReadUpTo(<<>>, work, 0) /\ \A P : IsSequence(P) => Begins(<<>>, P)
<1> DEFINE e == <<>>
<1>1. IsSequence(e) /\ Len(e) = 0 /\ DOMAIN e = {} /\ ToSet(e) = {}
  BY NothingIs
<1> HIDE DEF e
<1>2. IsInjective(e)
  BY <1>1 DEF IsInjective
<1>3. 1..0 = {}
  OBVIOUS
<1>4. ReadUpTo(e, work, 0)
  BY <1>1, <1>2, <1>3 DEF ReadUpTo
<1>5. ASSUME NEW P, IsSequence(P) PROVE Begins(e, P)
  <2>1. Len(P) \in Nat
    BY <1>5, SequenceShape
  <2> QED BY <1>1, <2>1 DEF Begins
<1> QED BY <1>4, <1>5 DEF e

\* A call begins with nothing asked for.
LEMMA AskedInit == Init => AskedInv
<1> SUFFICES ASSUME Init PROVE AskedInv
  OBVIOUS
<1>1. OfASearch /\ reads = <<>> /\ step = "call" /\ cursor = 0 /\ ~ Returned
  BY DEF Init, OfASearch, Returned
<1>2. BatchesInOrder
  BY <1>1, PlanOfTheCall, NothingReadYet DEF BatchesInOrder
<1>3. ReadersInOrder
  <2>1. Len(Work(response)) \in Nat
    BY <1>1, WorkIs, SequenceShape DEF OfASearch, Coordinates
  <2>2. ReadUpTo(<<>>, Work(response), 0)
    BY NothingReadYet
  <2> QED BY <1>1, <2>1, <2>2 DEF ReadersInOrder
<1> QED BY <1>1, <1>2, <1>3 DEF AskedInv

\* A step that asks for nothing.
LEMMA NothingAsked ==
    ASSUME AskedInv, UNCHANGED <<response, mode, reads, cursor>>, DOMAIN event' = DOMAIN event,
           mode # "grouped" \/ chunks' = chunks,
           mode = "grouped" \/
               \A w \in Reader : worker'[w].at = "done" => worker[w].at = "done",
           step' = step \/ step' = "ended" \/ (mode # "grouped" /\ step = "reading" /\ step' = "verify"),
           outcome' = "returned" => Returned \/ (mode = "grouped" /\ step = "verify")
                                             \/ (mode # "grouped" /\ cursor = Len(Work(response)))
    PROVE  AskedInv'
<1>1. Work(response)' = Work(response) /\ Plan' = Plan
  BY DEF Plan
<1>2. OfASearch' /\ (reads # <<>> => DOMAIN event = ToSet(Work(response)))'
  BY <1>1 DEF AskedInv, OfASearch
<1>3. CASE mode = "grouped"
  BY <1>1, <1>2, <1>3 DEF AskedInv, BatchesInOrder, Returned
<1>4. CASE mode # "grouped"
  <2>1. ReadersInOrder
    BY <1>4 DEF AskedInv
  <2>a. /\ cursor' \in Nat /\ cursor' <= Len(Work(response)')
        /\ ReadUpTo(reads', Work(response)', cursor')
    BY <1>1, <2>1 DEF ReadersInOrder
  <2>b. step' \in {"reading", "verify"} => step \in {"reading", "verify"}
    OBVIOUS
  <2>c. \A w \in Reader : worker'[w].at = "done" => worker[w].at = "done"
    BY <1>4
  <2>d. step' \in {"reading", "verify"} =>
            \A w \in Reader : worker'[w].at = "done" => cursor' = Len(Work(response)')
    BY <1>1, <2>1, <2>b, <2>c DEF ReadersInOrder
  <2>e. Returned' => cursor' = Len(Work(response)')
    BY <1>1, <1>4, <2>1 DEF ReadersInOrder, Returned
  <2>2. ReadersInOrder'
    BY <2>a, <2>d, <2>e DEF ReadersInOrder
  <2> QED BY <1>2, <1>4, <2>2 DEF AskedInv
<1> QED BY <1>3, <1>4

\* The beginning of a sequence of coordinates.
LEMMA BeginningIs ==
    ASSUME NEW work, Coordinates(work), NEW n \in Nat, n <= Len(work)
    PROVE  Coordinates(SubSeq(work, 1, n))
<1> DEFINE u == SubSeq(work, 1, n)
<1>1. Part(u, work, 1, n)
  <2>1. 1 \in Nat /\ 1 <= 1
    OBVIOUS
  <2> QED BY <2>1, PartIs DEF Coordinates
<1> HIDE DEF u
<1>2. IsSequence(u) /\ \A i \in DOMAIN u : 1 + i - 1 \in DOMAIN work /\ u[i] = work[1 + i - 1]
  BY <1>1 DEF Part
<1>3. \A i \in DOMAIN u : 1 + i - 1 = i
  BY <1>2, SequenceShape
<1>4. \A i \in DOMAIN u : i \in DOMAIN work /\ u[i] = work[i]
  BY <1>2, <1>3
<1> QED BY <1>2, <1>4 DEF Coordinates, IsInjective, u

\* The call sends its first batch, or starts its readers.
LEMMA CallAsks ==
    ASSUME AskedInv, ~ Returned, CallGrouped \/ CallLegacy
    PROVE  AskedInv'
<1> DEFINE work == Work(response)
<1>1. /\ response' = response /\ mode' = mode /\ outcome' = outcome
      /\ event' = [c \in ToSet(work) |-> None]
  BY DEF CallGrouped, CallLegacy
<1>2. work' = work /\ Plan' = Plan
  BY <1>1 DEF Plan
<1>3. OfASearch' /\ OfASearch /\ DOMAIN event' = ToSet(work') /\ ~ Returned'
  BY <1>1, <1>2 DEF AskedInv, OfASearch, Returned
<1> HIDE DEF work
<1>4. CASE CallGrouped
  <2>1. /\ mode = "grouped" /\ step = "call"
        /\ chunks' = Plan
        /\ step' = IF Plan = <<>> THEN "verify" ELSE "reading"
        /\ reads' = IF Plan = <<>> THEN reads ELSE <<Head(Plan)>>
    BY <1>4 DEF CallGrouped, Plan
  <2>2. IsSequence(Plan) /\ reads = <<>>
    BY <1>3, <2>1, PlanOfTheCall DEF AskedInv, BatchesInOrder
  <2>3. CASE Plan = <<>>
    <3>1. Begins(<<>>, Plan)
      BY <2>2, NothingReadYet
    <3>2. BatchesInOrder'
      BY <1>2, <1>3, <2>1, <2>2, <2>3, <3>1 DEF BatchesInOrder
    <3> QED BY <1>1, <1>3, <2>1, <3>2 DEF AskedInv, work
  <2>4. CASE Plan # <<>>
    <3>1. Begins(<<Head(Plan)>>, Plan) /\ Len(<<Head(Plan)>>) = 1 /\ Remain(Plan, Plan, 1)
      BY <2>2, <2>4, FirstBatch
    <3>2. BatchesInOrder'
      BY <1>2, <1>3, <2>1, <2>4, <3>1 DEF BatchesInOrder
    <3> QED BY <1>1, <1>3, <2>1, <3>2 DEF AskedInv, work
  <2> QED BY <2>3, <2>4
<1>5. CASE CallLegacy
  <2> DEFINE started == IF Len(work) < MaxConcurrency THEN Len(work) ELSE MaxConcurrency
  <2>1. /\ mode # "grouped" /\ cursor' = started
        /\ worker' = [w \in Reader |-> IF w <= started THEN [at |-> "reading", index |-> w] ELSE Idle]
        /\ reads' = Asked(SubSeq(work, 1, started))
    BY <1>5 DEF CallLegacy, work
  <2>2. Len(work) \in Nat /\ Coordinates(work)
    BY <1>3, WorkIs, SequenceShape DEF OfASearch, Coordinates, work
  <2>3. started \in Nat /\ started <= Len(work) /\ MaxConcurrency \in Nat
    BY <2>2, ExactReadAssumption DEF ExactReadAssumption
  <2>4. \A w \in Reader : worker'[w].at = "done" => started = Len(work)
    <3> TAKE w \in Reader
    <3>1. CASE w <= started
      BY <2>1, <3>1
    <3>2. CASE ~ w <= started
      <4>1. w \in Nat /\ w <= MaxConcurrency
        BY <2>3 DEF Reader
      <4> QED BY <2>2, <2>3, <3>2, <4>1
    <3> QED BY <3>1, <3>2
  <2> HIDE DEF started
  <2>5. ReadUpTo(reads', work, started)
    <3> DEFINE A == Asked(SubSeq(work, 1, started))
    <3>1. ReadUpTo(<<>>, work, 0)
      BY NothingReadYet
    <3>2. 0 + 1 = 1 /\ 0 \in Nat /\ 0 <= started
      BY <2>3
    <3>3. ReadUpTo(<<>> \o Asked(SubSeq(work, 0 + 1, started)), work, started)
      BY <2>2, <2>3, <3>1, <3>2, ReadsGrow
    <3>4. IsSequence(A)
      <4>1. Coordinates(SubSeq(work, 1, started))
        BY <2>2, <2>3, BeginningIs
      <4> QED BY <4>1, AskedIs
    <3> HIDE DEF A
    <3>5. <<>> \o A = A
      BY <3>4, ConcatEmptySeq DEF IsSequence
    <3> QED BY <2>1, <3>2, <3>3, <3>5 DEF A
  <2>6. ReadersInOrder'
    BY <1>2, <1>3, <2>1, <2>3, <2>4, <2>5 DEF ReadersInOrder, work
  <2> QED BY <1>1, <1>3, <2>1, <2>6 DEF AskedInv, work
<1> QED BY <1>4, <1>5

\* The answer to a batch sends the next one.
LEMMA BatchAsks ==
    ASSUME AskedInv, ReadInv, GroupedFails \/ GroupedSettles
    PROVE  AskedInv'
<1>1. /\ mode = "grouped" /\ step = "reading" /\ NextChunk
      /\ UNCHANGED <<response, mode, cursor, outcome>> /\ DOMAIN event' = DOMAIN event
  BY DEF GroupedFails, GroupedSettles, InFlight
<1>2. Work(response)' = Work(response) /\ Plan' = Plan
  BY <1>1 DEF Plan
<1>3. OfASearch' /\ ~ Returned' /\ (DOMAIN event = ToSet(Work(response)))'
  BY <1>1, <1>2 DEF AskedInv, OfASearch, ReadInv, ReadShape, Returned
<1>4. Begins(reads, Plan) /\ Len(reads) >= 1 /\ Remain(chunks, Plan, Len(reads))
  BY <1>1 DEF AskedInv, BatchesInOrder
<1>5. IsSequence(Plan)
  BY PlanOfTheCall DEF AskedInv
<1>6. CASE Tail(chunks) = <<>>
  <2>1. step' = "verify" /\ reads' = reads
    BY <1>1, <1>6 DEF NextChunk
  <2>2. Len(reads) = Len(Plan)
    BY <1>4, <1>5, <1>6, LastBatch
  <2>3. BatchesInOrder'
    BY <1>2, <1>3, <1>4, <2>1, <2>2 DEF BatchesInOrder
  <2> QED BY <1>1, <1>3, <2>3 DEF AskedInv
<1>7. CASE Tail(chunks) # <<>>
  <2>1. step' = step /\ reads' = Append(reads, Head(Tail(chunks))) /\ chunks' = Tail(chunks)
    BY <1>1, <1>7 DEF NextChunk
  <2> DEFINE u == Append(reads, Head(Tail(chunks)))
  <2>2. Begins(u, Plan) /\ Len(u) >= 1 /\ Remain(Tail(chunks), Plan, Len(u))
    BY <1>4, <1>5, <1>7, NextBatch
  <2> HIDE DEF u
  <2>3. BatchesInOrder'
    BY <1>1, <1>2, <1>3, <2>1, <2>2 DEF BatchesInOrder, u
  <2> QED BY <1>1, <1>3, <2>3 DEF AskedInv
<1> QED BY <1>6, <1>7

\* A reader that has its answer ends, or asks for the next coordinate.
LEMMA ReaderAsks ==
    ASSUME AskedInv, ReadInv, CancelInv, NEW w \in Reader, LegacyAnswers(w)
    PROVE  AskedInv'
<1> DEFINE work == Work(response)
<1>1. /\ mode # "grouped" /\ step = "reading" /\ NextRead(w)
      /\ UNCHANGED <<response, mode, outcome, step>> /\ DOMAIN event' = DOMAIN event
  BY DEF LegacyAnswers, Reading
<1>2. work' = work
  BY <1>1
<1>3. OfASearch' /\ ~ Returned' /\ (DOMAIN event = ToSet(work))' /\ OfASearch
  BY <1>1, <1>2 DEF AskedInv, OfASearch, ReadInv, ReadShape, Returned
<1>4. /\ cursor \in Nat /\ cursor <= Len(work) /\ ReadUpTo(reads, work, cursor)
      /\ \A v \in Reader : worker[v].at = "done" => cursor = Len(work)
  BY <1>1 DEF AskedInv, ReadersInOrder
<1>5. worker = [v \in Reader |-> worker[v]]
  BY DEF CancelInv, ReaderShape
<1>6. Len(work) \in Nat /\ Coordinates(work)
  BY <1>3, WorkIs, SequenceShape DEF OfASearch, Coordinates
<1>7. SUFFICES /\ cursor' \in Nat /\ cursor' <= Len(work) /\ ReadUpTo(reads', work, cursor')
               /\ \A v \in Reader : worker'[v].at = "done" => cursor' = Len(work)
  BY <1>1, <1>2, <1>3 DEF AskedInv, ReadersInOrder
<1>8. CASE cursor = Len(work)
  <2>1. cursor' = cursor /\ reads' = reads
    BY <1>1, <1>8 DEF NextRead
  <2> QED BY <1>4, <1>8, <2>1
<1>9. CASE cursor # Len(work) /\ cancellation
  <2>1. cursor' = cursor /\ reads' = reads /\ worker' = [worker EXCEPT ![w] = Thrown]
    BY <1>1, <1>9 DEF NextRead
  <2>2. \A v \in Reader : worker'[v].at # "done"
    BY <1>4, <1>5, <1>9, <2>1 DEF Thrown
  <2> QED BY <1>4, <2>1, <2>2
<1>10. CASE cursor # Len(work) /\ ~ cancellation
  <2>1. /\ worker' = [worker EXCEPT ![w] = [at |-> "reading", index |-> cursor + 1]]
        /\ cursor' = cursor + 1
        /\ reads' = reads \o Asked(SubSeq(work, cursor + 1, cursor + 1))
    BY <1>1, <1>10 DEF NextRead
  <2>2. \A v \in Reader : worker'[v].at # "done"
    BY <1>4, <1>5, <1>10, <2>1
  <2> HIDE DEF work
  <2>3. cursor + 1 \in Nat /\ cursor <= cursor + 1 /\ cursor + 1 <= Len(work)
    BY <1>4, <1>6, <1>10
  <2>4. ReadUpTo(reads', work, cursor + 1)
    BY <1>4, <1>6, <2>1, <2>3, ReadsGrow
  <2> QED BY <2>1, <2>2, <2>3, <2>4
<1> QED BY <1>8, <1>9, <1>10

\* Every step keeps what was asked for within the plan.
LEMMA AskedNext == AskedInv /\ ReadInv /\ CancelInv /\ [Next]_vars => AskedInv'
<1> SUFFICES ASSUME AskedInv, ReadInv, CancelInv, [Next]_vars PROVE AskedInv'
  OBVIOUS
<1>0. step # "ended" => ~ Returned
  BY DEF ReadInv
<1>1. CASE Abort \/ CallAborted \/ GroupedRejects
  <2>1. /\ UNCHANGED <<response, mode, reads, cursor, event, chunks, worker>>
        /\ step' = step \/ step' = "ended"
        /\ outcome' = outcome \/ outcome' = "error"
    BY <1>1 DEF Abort, CallAborted, GroupedRejects, Reject
  <2> QED BY <2>1, NothingAsked DEF Returned
<1>2. CASE CallGrouped \/ CallLegacy
  <2>1. ~ Returned
    BY <1>0, <1>2 DEF CallGrouped, CallLegacy
  <2> QED BY <1>2, <2>1, CallAsks
<1>3. CASE GroupedFails \/ GroupedSettles
  BY <1>3, BatchAsks
<1>4. ASSUME NEW w \in Reader, LegacyAnswers(w) PROVE AskedInv'
  BY <1>4, ReaderAsks
<1>5. ASSUME NEW w \in Reader, LegacyRetries(w) \/ LegacyCancelled(w) PROVE AskedInv'
  <2>1. /\ UNCHANGED <<response, mode, reads, cursor, event, chunks, step, outcome>>
        /\ mode # "grouped"
    BY <1>5 DEF LegacyRetries, LegacyCancelled, Reading
  <2>2. worker = [v \in Reader |-> worker[v]] /\ "at" \in DOMAIN worker[w]
    BY DEF CancelInv, ReaderShape
  <2>3. worker'[w].at # "done" /\ \A v \in Reader \ {w} : worker'[v] = worker[v]
    <3>1. CASE LegacyRetries(w)
      BY <2>2, <3>1 DEF LegacyRetries
    <3>2. CASE LegacyCancelled(w)
      BY <2>2, <3>2 DEF LegacyCancelled, Thrown
    <3> QED BY <1>5, <3>1, <3>2
  <2>4. \A v \in Reader : worker'[v].at = "done" => worker[v].at = "done"
    BY <2>3
  <2> QED BY <2>1, <2>4, NothingAsked DEF Returned
<1>6. CASE LegacySettled
  <2>1. /\ UNCHANGED <<response, mode, reads, cursor, event, chunks, worker, outcome>>
        /\ mode # "grouped" /\ step = "reading" /\ step' = "verify"
    BY <1>6 DEF LegacySettled
  <2> QED BY <2>1, NothingAsked DEF Returned
<1>7. CASE Verify
  <2>1. /\ UNCHANGED <<response, mode, reads, cursor, chunks, worker>>
        /\ step = "verify" /\ step' = "ended"
    BY <1>7 DEF Verify, Reject
  <2>2. DOMAIN event' = DOMAIN event
    BY <1>7 DEF Verify, Settled
  <2>3. outcome' = "returned" => ~ Fails
    BY <1>7 DEF Verify, Reject
  <2>4. mode # "grouped" /\ ~ Fails => cursor = Len(Work(response))
    <3> SUFFICES ASSUME mode # "grouped", ~ Fails PROVE cursor = Len(Work(response))
      OBVIOUS
    <3>1. 1 \in Reader
      BY ExactReadAssumption DEF ExactReadAssumption, Reader
    <3>2. worker[1].at = "done"
      BY <2>1, <3>1 DEF Fails, CancelInv, ReadersAreAwaited, Settling
    <3> QED BY <2>1, <3>1, <3>2 DEF AskedInv, ReadersInOrder
  <2> QED BY <2>1, <2>2, <2>3, <2>4, NothingAsked
<1>8. CASE UNCHANGED vars \/ Done
  <2>1. UNCHANGED vars
    BY <1>8 DEF Done
  <2> QED BY <2>1, NothingAsked DEF vars, Returned
<1> QED BY <1>1, <1>2, <1>3, <1>4, <1>5, <1>6, <1>7, <1>8 DEF Next

\* At every moment the reads are the first batches of the plan, or the work up to the
\* readers' cursor, and a call that returned has come to the end of it: a reader is done
\* only when nothing is left to take, and NextChunk drops no batch.
THEOREM AskedInvariant == Spec => [](AskedInv /\ ReadInv)
<1>1. Init => ReadInv
  BY DEF Init, ReadInv, Returned
<1> QED BY <1>1, AskedInit, AskedNext, ReadNext, CancelInit, CancelNext, PTL DEF Spec

----------------------------------------------------------------------------
(* The reads keep their bounds, and nothing found is lost.                 *)

\* A batch of one coordinate.
LEMMA OneIs ==
    ASSUME NEW c, c = <<c[1], c[2]>>
    PROVE  Fits(One(c)) /\ CoordinatesOf(One(c)) = {c}
<1> DEFINE q == <<c[2]>>
<1>1. IsSequence(q) /\ Len(q) = 1 /\ DOMAIN q = {1} /\ ToSet(q) = {c[2]}
  BY OneElement
<1>2. One(c) = <<Group(c[1], q)>>
  BY DEF One
<1> HIDE DEF q
<1>3. IsInjective(q) /\ Len(q) <= MaxCoordinates
  BY <1>1, ExactReadAssumption DEF IsInjective, ExactReadAssumption
<1>4. Fits(One(c)) /\ CoordinatesOf(One(c)) = {<<c[1], n>> : n \in ToSet(q)}
  BY <1>1, <1>2, <1>3, FitsAlone
<1> QED BY <1>1, <1>4

\* Every batch asked for fits, no two ask for the same event, and all is of the work.
LEMMA AskedFits ==
    ASSUME AskedInv
    PROVE  /\ \A i \in DOMAIN reads : Fits(reads[i]) /\ AskedFor(i) \subseteq ToSet(Work(response))
           /\ \A i, j \in DOMAIN reads : i # j => AskedFor(i) \cap AskedFor(j) = {}
<1> DEFINE work == Work(response)
           E == Eligible(work)
<1>1. Coordinates(work) /\ ToSet(E) \subseteq ToSet(work)
  BY WorkIs, EligibleIs DEF AskedInv, OfASearch
<1>2. CASE mode = "grouped"
  <2>1. Planned(Plan, E) /\ Covered(Plan) = ToSet(E)
    BY PlanOfTheCall DEF AskedInv
  <2>2. \A i \in DOMAIN reads : i \in DOMAIN Plan /\ reads[i] = Plan[i]
    BY <1>2 DEF AskedInv, BatchesInOrder, Begins
  <2> HIDE DEF work, E
  <2>3. ASSUME NEW i \in DOMAIN reads PROVE Fits(reads[i]) /\ AskedFor(i) \subseteq ToSet(work)
    <3>1. Fits(Plan[i]) /\ Plan[i] \in ToSet(Plan)
      BY <2>1, <2>2 DEF Planned, ToSet
    <3>2. CoordinatesOf(Plan[i]) \subseteq Covered(Plan)
      BY <3>1 DEF Covered
    <3> QED BY <1>1, <2>1, <2>2, <3>1, <3>2 DEF AskedFor
  <2>4. ASSUME NEW i \in DOMAIN reads, NEW j \in DOMAIN reads, i # j PROVE AskedFor(i) \cap AskedFor(j) = {}
    <3>1. Apart(E, Plan[i], Plan[j])
      BY <2>1, <2>2, <2>4 DEF Planned
    <3> QED BY <2>2, <3>1 DEF Apart, AskedFor
  <2> QED BY <2>3, <2>4 DEF work
<1>3. CASE mode # "grouped"
  <2>1. ReadUpTo(reads, work, cursor) /\ cursor \in Nat /\ cursor <= Len(work)
    BY <1>3 DEF AskedInv, ReadersInOrder
  <2> HIDE DEF work
  <2>2. \A n \in 1..cursor : n \in DOMAIN work
    BY <1>1, <2>1, SequenceShape DEF Coordinates
  <2>3. \A i \in DOMAIN reads : \E n \in DOMAIN work : reads[i] = One(work[n])
    <3> TAKE i \in DOMAIN reads
    <3>1. reads[i] \in ToSet(reads)
      BY DEF ToSet
    <3>2. \E n \in 1..cursor : reads[i] = One(work[n])
      BY <2>1, <3>1 DEF ReadUpTo
    <3> QED BY <2>2, <3>2
  <2>4. \A n \in DOMAIN work : Fits(One(work[n])) /\ CoordinatesOf(One(work[n])) = {work[n]}
    BY <1>1, OneIs DEF Coordinates
  <2>5. \A i \in DOMAIN reads : Fits(reads[i]) /\ AskedFor(i) \subseteq ToSet(work)
    BY <2>3, <2>4 DEF AskedFor, ToSet
  <2>6. ASSUME NEW i \in DOMAIN reads, NEW j \in DOMAIN reads, i # j PROVE AskedFor(i) \cap AskedFor(j) = {}
    <3>1. PICK m \in DOMAIN work : reads[i] = One(work[m])
      BY <2>3
    <3>2. PICK n \in DOMAIN work : reads[j] = One(work[n])
      BY <2>3
    <3>3. reads[i] # reads[j]
      BY <2>1, <2>6 DEF ReadUpTo, IsInjective
    <3>4. work[m] # work[n]
      BY <3>1, <3>2, <3>3
    <3>5. AskedFor(i) = {work[m]} /\ AskedFor(j) = {work[n]}
      BY <2>4, <3>1, <3>2 DEF AskedFor
    <3> QED BY <3>4, <3>5
  <2> QED BY <2>5, <2>6 DEF work
<1> QED BY <1>2, <1>3

\* An event of the work is named by a contribution of a candidate.
LEMMA WorkIsNamed ==
    ASSUME NEW r \in Responses, NEW c \in ToSet(Work(r))
    PROVE  \E f \in ToSet(r.fused) : f.session = c[1] /\ \E k \in f.contributions : k.seq = c[2]
<1>1. PICK p \in ToSet(ReferencedPointers(r)) : c = Coordinate(p.hit)
  BY PointersAre
<1>2. PICK query \in DOMAIN r.ranked : \E rank \in DOMAIN r.ranked[query] :
          Referenced(r, query, rank) /\ p = Pointer(r, query, rank)
  BY <1>1, ReferencedPointersIs
<1>3. PICK rank \in DOMAIN r.ranked[query] : Referenced(r, query, rank) /\ p = Pointer(r, query, rank)
  BY <1>2
<1>4. p.hit = r.ranked[query][rank] /\ c[1] = p.hit.session /\ c[2] = p.hit.seq
  BY <1>1, <1>3 DEF Pointer, Coordinate
<1> QED BY <1>3, <1>4 DEF Referenced

\* A session that is too large for a batch has more events in the work than one holds.
LEMMA TooLargeIs ==
    ASSUME NEW work, Coordinates(work), NEW s, TooLarge(Eligible(work), s)
    PROVE  Cardinality({c \in ToSet(work) : c[1] = s}) > MaxCoordinates
<1> DEFINE E == Eligible(work)
           q == SeqsOf(E, s)
           C == {<<s, n>> : n \in ToSet(q)}
           D == {c \in ToSet(work) : c[1] = s}
<1>1. Coordinates(E) /\ ToSet(E) \subseteq ToSet(work)
  BY EligibleIs
<1>2. IsSequence(q) /\ IsInjective(q) /\ C = {c \in ToSet(E) : c[1] = s}
  BY <1>1, SeqsOfIs
<1>3. IsFiniteSet(C) /\ Cardinality(C) = Len(q)
  BY <1>2, GroupIs
<1>4. C \subseteq D
  BY <1>1, <1>2
<1>5. IsFiniteSet(D)
  <2>1. IsFiniteSet(DOMAIN work) /\ work \in [DOMAIN work -> ToSet(work)]
    <3>1. Len(work) \in Nat /\ DOMAIN work = 1..Len(work) /\ work = [i \in 1..Len(work) |-> work[i]]
      BY SequenceShape DEF Coordinates
    <3>2. IsFiniteSet(DOMAIN work)
      BY SequenceShape DEF Coordinates
    <3> QED BY <3>1, <3>2 DEF ToSet
  <2>2. work \in Surjection(DOMAIN work, ToSet(work))
    BY <2>1 DEF Surjection, ToSet
  <2>3. IsFiniteSet(ToSet(work))
    BY <2>1, <2>2, FS_Surjection
  <2> QED BY <2>3, FS_Subset
<1>6. Len(q) > MaxCoordinates /\ Len(q) \in Nat
  BY <1>2, SequenceShape DEF TooLarge
<1> HIDE DEF C, D, q, E
<1>7. Cardinality(C) <= Cardinality(D) /\ Cardinality(D) \in Nat
  BY <1>4, <1>5, FS_Subset, FS_CardinalityType
<1>8. MaxCoordinates \in Nat
  BY ExactReadAssumption DEF ExactReadAssumption
<1> QED BY <1>3, <1>6, <1>7, <1>8 DEF D

\* "each (sessionId, seq) coordinate is read once", for any work and any bounds: whatever
\* the sessions and their sizes, groupedSnapshotChunks makes batches that keep both bounds
\* and share a session only when it is too large for one; and nothing is asked for that no
\* fused contribution names.
THEOREM EachIsReadOnceWithinBounds == Spec => []ReadsFit
<1>1. ASSUME AskedInv PROVE ReadsFit
  <2>1. \A i, j \in DOMAIN reads : i # j => AskedFor(i) \cap AskedFor(j) = {}
    BY <1>1, AskedFits
  <2>2. ASSUME NEW i \in DOMAIN reads
        PROVE  /\ Len(reads[i]) <= MaxGroups /\ Size(reads[i]) <= MaxCoordinates
               /\ Cardinality(AskedFor(i)) = Size(reads[i])
               /\ \A c \in AskedFor(i) : \E f \in ToSet(response.fused) :
                      f.session = c[1] /\ \E k \in f.contributions : k.seq = c[2]
    <3>1. Fits(reads[i]) /\ AskedFor(i) \subseteq ToSet(Work(response))
      BY <1>1, AskedFits
    <3>2. response \in Responses
      BY <1>1 DEF AskedInv, OfASearch
    <3> QED BY <3>1, <3>2, WorkIsNamed DEF Fits, AskedFor
  <2>3. ASSUME mode = "grouped", NEW i \in DOMAIN reads, NEW j \in DOMAIN reads,
               NEW g \in ToSet(reads[i]), NEW h \in ToSet(reads[j]), i # j, g.session = h.session
        PROVE  Cardinality({c \in DOMAIN event : c[1] = g.session}) > MaxCoordinates
    <3>1. Planned(Plan, Eligible(Work(response))) /\ Begins(reads, Plan)
      BY <1>1, <2>3, PlanOfTheCall DEF AskedInv, BatchesInOrder
    <3>2. i \in DOMAIN Plan /\ j \in DOMAIN Plan /\ reads[i] = Plan[i] /\ reads[j] = Plan[j]
      BY <3>1 DEF Begins
    <3>3. Apart(Eligible(Work(response)), Plan[i], Plan[j])
      BY <2>3, <3>1, <3>2 DEF Planned
    <3>4. TooLarge(Eligible(Work(response)), g.session)
      BY <2>3, <3>2, <3>3 DEF Apart
    <3>5. Coordinates(Work(response))
      BY <1>1, WorkIs DEF AskedInv, OfASearch
    <3>6. reads # <<>>
      <4>1. DOMAIN <<>> = {}
        OBVIOUS
      <4> QED BY <4>1
    <3>7. DOMAIN event = ToSet(Work(response))
      BY <1>1, <3>6 DEF AskedInv
    <3> QED BY <3>4, <3>5, <3>7, TooLargeIs
  <2> QED BY <2>1, <2>2, <2>3 DEF ReadsFit
<1> QED BY <1>1, AskedInvariant, PTL

\* No event of a fused contribution is left out by the batches or by the readers that share
\* a cursor, whichever of them ends first, and a call that returns drops nothing it proved.
THEOREM NothingFoundIsLost == Spec => []NothingLost
<1>1. ASSUME AskedInv, ReadInv PROVE NothingLost
  <2> SUFFICES ASSUME Returned, Len(ReferencedPointers(response)) <= MaxCandidates
               PROVE  /\ \A p \in ToSet(ReferencedPointers(response)) :
                             p.hit.seq <= MaxSafe =>
                                 \E i \in DOMAIN reads : Coordinate(p.hit) \in AskedFor(i)
                      /\ result.candidates =
                             Picked(response.fused,
                                    {i \in DOMAIN response.fused : Proved(response.fused[i])})
    BY DEF NothingLost
  <2> DEFINE work == Work(response)
  <2>1. response \in Responses /\ ReadShape /\ ResultShape
    BY <1>1 DEF AskedInv, OfASearch, ReadInv
  <2>2. result.candidates = Picked(response.fused, {i \in DOMAIN response.fused : Proved(response.fused[i])})
    BY <2>1, NothingProvedIsDropped
  <2>3. ASSUME NEW p \in ToSet(ReferencedPointers(response)), p.hit.seq <= MaxSafe
        PROVE  \E i \in DOMAIN reads : Coordinate(p.hit) \in AskedFor(i)
    <3> DEFINE c == Coordinate(p.hit)
    <3>1. c \in ToSet(work) /\ Readable(c)
      BY <2>1, <2>3, PointersAre DEF Coordinate, Readable
    <3>2. Coordinates(work)
      BY <2>1, WorkIs
    <3> HIDE DEF c
    <3>3. CASE mode = "grouped"
      <4>1. c \in ToSet(Eligible(work))
        BY <3>1, <3>2, EligibleIs
      <4>2. Begins(reads, Plan) /\ Len(reads) = Len(Plan)
        BY <1>1, <3>3 DEF AskedInv, BatchesInOrder
      <4>3. Covered(Plan) = ToSet(Eligible(work)) /\ IsSequence(Plan)
        BY <1>1, PlanOfTheCall DEF AskedInv
      <4>4. PICK n \in DOMAIN Plan : c \in CoordinatesOf(Plan[n])
        BY <4>1, <4>3 DEF Covered, ToSet
      <4>5. n \in DOMAIN reads
        BY <4>2, <4>3, SequenceShape DEF Begins
      <4> QED BY <4>2, <4>4, <4>5 DEF Begins, AskedFor, c
    <3>4. CASE mode # "grouped"
      <4>1. ReadUpTo(reads, work, cursor) /\ cursor = Len(work)
        BY <1>1, <3>4 DEF AskedInv, ReadersInOrder
      <4>2. PICK n \in DOMAIN work : work[n] = c
        BY <3>1 DEF ToSet
      <4>3. n \in 1..cursor
        BY <3>2, <4>1, SequenceShape DEF Coordinates
      <4>4. One(c) \in ToSet(reads)
        BY <3>1, <4>1, <4>2, <4>3 DEF ReadUpTo
      <4>5. PICK i \in DOMAIN reads : reads[i] = One(c)
        BY <4>4 DEF ToSet
      <4>6. CoordinatesOf(One(c)) = {c}
        BY <3>2, <4>2, OneIs DEF Coordinates
      <4> QED BY <4>5, <4>6 DEF AskedFor, c
    <3> QED BY <3>3, <3>4
  <2> QED BY <2>2, <2>3
<1> QED BY <1>1, AskedInvariant, PTL

=============================================================================
