---------------------------- MODULE Alpha4Proofs -----------------------------
(***************************************************************************)
(* Proofs about Alpha4Source: for any sessions, listings and changes, a    *)
(* live source that has nothing left to do has the view caught up, a view  *)
(* is activated complete, and close() marks no view failed.                *)
(*                                                                         *)
(* The argument follows one session from the subscription on.  It is known *)
(* when its partition has its present version or a change of it is still   *)
(* to be taken up; while the listing is compared it may also be among the  *)
(* records to come, or the one in hand.  What makes that inductive is that *)
(* every version read earlier (the listing, the partition states, the      *)
(* observation) is either still right or a change was announced since.     *)
(*                                                                         *)
(* At the end the source is shown to implement ViewMirror.                 *)
(***************************************************************************)
EXTENDS Alpha4Source, SequenceTheorems, FiniteSetTheorems, TLAPS

Working == {"observe", "commit", "delete_state", "delete"}
Versions == [Session -> 0..MaxVersion]

Typed ==
    /\ Alpha4TypeOK
    /\ live_tail \in BOOLEAN /\ listed \in Versions /\ states \in Versions
    /\ at \in Working => doing \in Session
    /\ closing # "no" => disposed
    /\ at \in {"off", "subscribe", "list"} => next = 1 /\ upto = 0
    /\ phase = "idle" => at = "off"

\* Where the thread is in each phase of a source that is not closed.
PhaseShape ==
    ~disposed =>
        \/ phase = "idle" /\ at = "off" /\ ~subscribed /\ ~live_tail /\ records = <<>>
                         /\ pending = <<>>
        \/ phase = "subscribing" /\ at = "subscribe" /\ ~subscribed /\ ~live_tail
                                /\ records = <<>> /\ pending = <<>>
        \/ /\ phase = "backfill" /\ subscribed /\ ~live_tail /\ pending = <<>>
           /\ \/ at = "list" /\ records = <<>>
              \/ at \in {"batch", "states", "record"}
              \/ at \in {"observe", "commit"} /\ records # <<>>
        \/ /\ phase = "catching-up" /\ subscribed /\ ~live_tail /\ records = <<>>
           /\ at \in Working \cup {"drain", "change", "ready"}
           /\ at \in {"drain", "ready"} => pending = <<>>
        \/ /\ phase = "live" /\ subscribed /\ live_tail /\ records = <<>>
           /\ at \in Working \cup {"change"}
        \/ phase = "failed" /\ at \in {"mark", "end"}

\* A session disposed of does not come back; its deletion is announced once it
\* has happened.
GoneShape ==
    /\ \A s \in gone : version[s] = 0
    /\ \A s \in Session : notices[s] = "delete" => s \in gone
    /\ \A s \in Session : buffered[s] = "delete" => s \in gone
    /\ \A i \in 1..Len(pending) : pending[i].change = "delete" => pending[i].session \in gone
    /\ at \in {"delete_state", "delete"} => doing \in gone

Pends(s) == \E i \in 1..Len(pending) : pending[i].session = s
Noted(s) == notices[s] # "none" \/ buffered[s] # "none" \/ Pends(s)
Known(s) == durable[s] = version[s] \/ Noted(s)

\* The session in hand: its version will be written, or its partition deleted.
InHand(s) ==
    /\ doing = s
    /\ \/ at = "observe"
       \/ at = "commit" /\ seen = version[s]
       \/ at \in {"delete_state", "delete"}

ToCome(s) == \E i \in next..Len(records) : records[i] = s

\* Until the listing is read: what is gone since the subscription is announced.
BeforeListing ==
    (~disposed /\ (phase \in {"idle", "subscribing"} \/ at = "list")) =>
        /\ \A s \in Session \ gone : durable[s] <= version[s]
        /\ \A s \in gone \ missed : at = "list" /\ Noted(s)

\* While the listing is compared.
Comparing ==
    (~disposed /\ phase = "backfill" /\ at # "list") =>
        /\ \A s \in Session : listed[s] = version[s] \/ Noted(s)
        /\ at \in {"record", "observe", "commit"} =>
              \A s \in Session : states[s] = durable[s] \/ Known(s)
        /\ \A s \in Session \ missed : Known(s) \/ InHand(s) \/ ToCome(s)

\* From the drain on.
CatchingUp ==
    (~disposed /\ phase \in {"catching-up", "live"}) =>
        \A s \in Session \ missed : Known(s) \/ InHand(s)

\* What was observed is still right, or a change was announced since.
SeenShape ==
    (~disposed /\ at = "commit") => seen = version[doing] \/ Noted(doing)

Alpha4Inv ==
    /\ Typed /\ PhaseShape /\ GoneShape
    /\ BeforeListing /\ Comparing /\ CatchingUp /\ SeenShape

----------------------------------------------------------------------------
(* The buffered changes become pending                                     *)

ChangeRecord == [session : Session, change : Changes]
Buffer == [Session -> Changes \cup {"none"}]

\* Every buffered change is in the sequence, and nothing else.
LEMMA OrderedCovers ==
    ASSUME NEW b \in Buffer, NEW q \in Ordered(b)
    PROVE  /\ q \in Seq(ChangeRecord)
           /\ \A s \in Session : b[s] # "none" => \E i \in 1..Len(q) : q[i].session = s
           /\ \A i \in 1..Len(q) : q[i].change = b[q[i].session]
<1> DEFINE U == {t \in Session : b[t] # "none"}
           T == {[session |-> s, change |-> b[s]] : s \in U}
           n == Cardinality(T)
<1>1. T \subseteq ChangeRecord
  BY DEF ChangeRecord, Buffer
<1>2. IsFiniteSet(T)
  <2> DEFINE g == [s \in U |-> [session |-> s, change |-> b[s]]]
  <2>1. IsFiniteSet(U)
    BY Alpha4Assumption, FS_Subset
  <2>2. g \in Surjection(U, T)
    BY DEF Surjection
  <2> HIDE DEF g, U, T
  <2> QED BY <2>1, <2>2, FS_Surjection
<1>3. n \in Nat
  <2> HIDE DEF T
  <2> QED BY <1>2, FS_CardinalityType
<1>4. q \in [1..n -> T] /\ \A i, j \in 1..n : i # j => q[i] # q[j]
  <2>1. q \in SetToSeqs(T)
    BY DEF Ordered
  <2> HIDE DEF T
  <2> QED BY <2>1 DEF SetToSeqs
<1>5. q \in Surjection(1..n, T)
  <2>1. q \in Injection(1..n, T)
    BY <1>4 DEF Injection, IsInjective
  <2>2. Cardinality(1..n) = n
    <3> HIDE DEF n
    <3> QED BY <1>3, FS_Interval
  <2> HIDE DEF T
  <2> QED BY <1>2, <2>1, <2>2, FS_Injection
<1>6. q \in Seq(ChangeRecord) /\ Len(q) = n
  <2> HIDE DEF n, T
  <2>1. q \in [1..n -> ChangeRecord]
    BY <1>1, <1>4
  <2>2. q \in Seq(ChangeRecord)
    BY <1>3, <2>1, SeqDef
  <2>3. DOMAIN q = 1..n /\ DOMAIN q = 1..Len(q) /\ Len(q) \in Nat
    BY <2>1, <2>2, LenProperties
  <2> QED BY <1>3, <2>2, <2>3
<1>7. \A s \in Session : b[s] # "none" => \E i \in 1..Len(q) : q[i].session = s
  <2> SUFFICES ASSUME NEW s \in Session, b[s] # "none"
               PROVE  \E i \in 1..Len(q) : q[i].session = s
    OBVIOUS
  <2>1. [session |-> s, change |-> b[s]] \in T
    OBVIOUS
  <2>2. PICK i \in 1..n : q[i] = [session |-> s, change |-> b[s]]
    BY <1>5, <2>1 DEF Surjection
  <2> HIDE DEF n
  <2> QED BY <1>6, <2>2
<1>8. \A i \in 1..Len(q) : q[i].change = b[q[i].session]
  <2> SUFFICES ASSUME NEW i \in 1..Len(q) PROVE q[i].change = b[q[i].session]
    OBVIOUS
  <2>1. q[i] \in T
    <3> HIDE DEF n, T
    <3> QED BY <1>4, <1>6
  <2> QED BY <2>1
<1> QED BY <1>6, <1>7, <1>8

----------------------------------------------------------------------------
(* Types                                                                   *)

LEMMA NextFacts ==
    Typed =>
        /\ version \in Versions /\ durable \in Versions /\ listed \in Versions /\ states \in Versions
        /\ notices \in Buffer /\ buffered \in Buffer
        /\ records \in Seq(Session) /\ Len(records) \in Nat /\ next \in 1..Len(records) + 1
        /\ upto \in 0..Len(records)
        /\ pending \in Seq(ChangeRecord) /\ Len(pending) \in Nat
        /\ seen \in 0..MaxVersion /\ MaxVersion \in Nat
<1> SUFFICES ASSUME Typed
             PROVE  /\ version \in Versions /\ durable \in Versions /\ listed \in Versions
                    /\ states \in Versions
                    /\ notices \in Buffer /\ buffered \in Buffer
                    /\ records \in Seq(Session) /\ Len(records) \in Nat /\ next \in 1..Len(records) + 1
                    /\ upto \in 0..Len(records)
                    /\ pending \in Seq(ChangeRecord) /\ Len(pending) \in Nat
                    /\ seen \in 0..MaxVersion /\ MaxVersion \in Nat
  OBVIOUS
<1>1. /\ version \in Versions /\ durable \in Versions /\ listed \in Versions /\ states \in Versions
      /\ notices \in Buffer /\ buffered \in Buffer /\ seen \in 0..MaxVersion
      /\ next \in 1..Len(records) + 1 /\ upto \in 0..Len(records)
  BY DEF Typed, Alpha4TypeOK, Versions, Buffer
<1>2. records \in Seq(Session) /\ pending \in Seq(ChangeRecord)
  BY DEF Typed, Alpha4TypeOK, ChangeRecord
<1>3. Len(records) \in Nat /\ Len(pending) \in Nat
  BY <1>2, LenProperties
<1>4. MaxVersion \in Nat
  BY Alpha4Assumption
<1> QED BY <1>1, <1>2, <1>3, <1>4

\* Only the host and the announcements write what is DSH's.
LEMMA HostWriters ==
    ASSUME Next
    PROVE  \/ UNCHANGED hostVars
           \/ \E s \in Session : SessionGrows(s) \/ SessionGone(s)
           \/ UNCHANGED <<version, gone, missed>> /\ \E s \in Session : Enqueue(s)
BY DEF Next, SessionGrows, SessionGone, Enqueue, Start, Step, Subscribe, List, Batch,
           BackfillEnds, ReadStates, SkipRecord, ReconcileRecord, BatchDone, Observe,
           ReplacePartition, TakeChange, DeleteReadsState, DeletePartition, ChangesDone, Drain,
           Drained, GoLive, CallFails, Aborted, MarkFailed, MarkLost, Close, CloseEnds, Throws,
           hostVars, viewVars, closeVars, workVars

LEMMA HostTyped ==
    ASSUME Typed, Next
    PROVE  /\ version' \in Versions /\ notices' \in Buffer
           /\ missed' \subseteq gone' /\ gone' \subseteq Session
<1>1. /\ version \in Versions /\ notices \in Buffer /\ missed \subseteq gone /\ gone \subseteq Session
      /\ MaxVersion \in Nat
  BY NextFacts DEF Typed, Alpha4TypeOK
<1>2. CASE UNCHANGED hostVars
  BY <1>1, <1>2 DEF hostVars
<1>3. ASSUME NEW s \in Session, SessionGrows(s)
      PROVE  /\ version' \in Versions /\ notices' \in Buffer
             /\ missed' \subseteq gone' /\ gone' \subseteq Session
  <2>1. version[s] + 1 \in 0..MaxVersion
    BY <1>1, <1>3 DEF SessionGrows, Versions
  <2>2. version' \in Versions
    BY <1>1, <1>3, <2>1 DEF SessionGrows, Versions
  <2>3. notices' \in Buffer
    BY <1>1, <1>3 DEF SessionGrows, Announce, Buffer, Changes
  <2> QED BY <1>1, <1>3, <2>2, <2>3 DEF SessionGrows
<1>4. ASSUME NEW s \in Session, SessionGone(s)
      PROVE  /\ version' \in Versions /\ notices' \in Buffer
             /\ missed' \subseteq gone' /\ gone' \subseteq Session
  <2>1. version' \in Versions
    BY <1>1, <1>4 DEF SessionGone, Versions
  <2>2. notices' \in Buffer
    BY <1>1, <1>4 DEF SessionGone, Announce, Buffer, Changes
  <2> QED BY <1>1, <1>4, <2>1, <2>2 DEF SessionGone
<1>5. ASSUME NEW s \in Session, Enqueue(s)
      PROVE  notices' \in Buffer
  BY <1>1, <1>5 DEF Enqueue, Buffer
<1> QED BY <1>1, <1>2, <1>3, <1>4, <1>5, HostWriters

LEMMA ViewTyped ==
    ASSUME Typed, Next
    PROVE  durable' \in Versions /\ view' \in {"building", "ready", "failed"}
<1>1. /\ durable \in Versions /\ view \in {"building", "ready", "failed"}
      /\ seen \in 0..MaxVersion /\ MaxVersion \in Nat
  BY NextFacts DEF Typed, Alpha4TypeOK
<1>2. /\ \/ UNCHANGED durable
         \/ durable' = [durable EXCEPT ![doing] = seen]
         \/ durable' = [durable EXCEPT ![doing] = 0]
      /\ view' \in {view, "ready", "failed"}
  BY DEF Next, SessionGrows, SessionGone, Enqueue, Start, Step, Subscribe, List, Batch,
             BackfillEnds, ReadStates, SkipRecord, ReconcileRecord, BatchDone, Observe,
             ReplacePartition, TakeChange, DeleteReadsState, DeletePartition, ChangesDone, Drain,
             Drained, GoLive, CallFails, Aborted, LostEffect, MarkFailed, MarkLost, TailRejected,
             Close, CloseEnds, Throws, PassOver, WorkOver, hostVars, viewVars, closeVars, passVars,
             workVars, Resume
<1> QED BY <1>1, <1>2 DEF Versions

\* What becomes of the buffer and of the pending changes.
Requeue(b) ==
    \/ buffered' = b /\ pending' = pending
    \/ buffered' = NoChange /\ \E q \in Ordered(b) : pending' = pending \o q

LEMMA QueueWriters ==
    ASSUME Next
    PROVE  \/ UNCHANGED <<buffered, pending>>
           \/ \E s \in Session : /\ notices[s] # "none"
                                 /\ Requeue([buffered EXCEPT ![s] = notices[s]])
           \/ Requeue(buffered)
           \/ buffered' = NoChange /\ \E q \in Ordered(buffered) : pending' = q
           \/ UNCHANGED buffered /\ pending # <<>> /\ pending' = Tail(pending)
           \/ UNCHANGED buffered /\ pending' = <<>>
           \/ buffered' = NoChange /\ UNCHANGED pending
BY DEF Next, SessionGrows, SessionGone, Enqueue, Start, Step, Subscribe, List, Batch,
           BackfillEnds, ReadStates, SkipRecord, ReconcileRecord, BatchDone, Observe,
           ReplacePartition, TakeChange, DeleteReadsState, DeletePartition, ChangesDone, Drain,
           Drained, GoLive, CallFails, Aborted, MarkFailed, MarkLost, TailRejected, Close,
           CloseEnds, Throws, hostVars, viewVars, closeVars, passVars, workVars, ScheduleBuffered,
           Requeue

LEMMA RequeueTyped ==
    ASSUME NEW b \in Buffer, pending \in Seq(ChangeRecord), Requeue(b)
    PROVE  buffered' \in Buffer /\ pending' \in Seq(ChangeRecord)
<1>1. NoChange \in Buffer
  BY DEF NoChange, Buffer
<1>2. \A q \in Ordered(b) : pending \o q \in Seq(ChangeRecord)
  BY OrderedCovers, ConcatProperties
<1> QED BY <1>1, <1>2 DEF Requeue

LEMMA QueueTyped ==
    ASSUME Typed, Next
    PROVE  buffered' \in Buffer /\ pending' \in Seq(ChangeRecord)
<1>1. buffered \in Buffer /\ pending \in Seq(ChangeRecord) /\ notices \in Buffer
  BY NextFacts
<1>2. NoChange \in Buffer /\ <<>> \in Seq(ChangeRecord)
  BY EmptySeq DEF NoChange, Buffer
<1>3. \A s \in Session : [buffered EXCEPT ![s] = notices[s]] \in Buffer
  BY <1>1 DEF Buffer
<1>4. \A q \in Ordered(buffered) : q \in Seq(ChangeRecord)
  BY <1>1, OrderedCovers
<1>5. pending # <<>> => Tail(pending) \in Seq(ChangeRecord)
  BY <1>1, HeadTailProperties
<1>6. \A b \in Buffer : Requeue(b) => buffered' \in Buffer /\ pending' \in Seq(ChangeRecord)
  BY <1>1, RequeueTyped
<1> QED BY <1>1, <1>2, <1>3, <1>4, <1>5, <1>6, QueueWriters

LEMMA PassWriters ==
    ASSUME Next
    PROVE  UNCHANGED passVars \/ PassOver \/ List \/ Batch \/ ReadStates \/ SkipRecord \/ ReconcileRecord
BY DEF Next, SessionGrows, SessionGone, Enqueue, Start, Step, Subscribe, List, Batch,
           BackfillEnds, ReadStates, SkipRecord, ReconcileRecord, BatchDone, Observe,
           ReplacePartition, TakeChange, DeleteReadsState, DeletePartition, ChangesDone, Drain,
           Drained, GoLive, CallFails, Aborted, MarkFailed, MarkLost, Close, CloseEnds, Throws,
           PassOver, hostVars, viewVars, closeVars, passVars, workVars

LEMMA PassTyped ==
    ASSUME Typed, Next
    PROVE  /\ records' \in Seq(Session) /\ next' \in 1..Len(records') + 1 /\ upto' \in 0..Len(records')
           /\ listed' \in Versions /\ states' \in Versions
<1>1. /\ records \in Seq(Session) /\ Len(records) \in Nat /\ next \in 1..Len(records) + 1
      /\ upto \in 0..Len(records) /\ listed \in Versions /\ states \in Versions
      /\ version \in Versions /\ durable \in Versions /\ MaxVersion \in Nat
  BY NextFacts
<1>2. CASE UNCHANGED passVars
  BY <1>1, <1>2 DEF passVars
<1>3. CASE PassOver
  <2>1. records' = <<>> /\ next' = 1 /\ upto' = 0
    BY <1>3 DEF PassOver
  <2>2. <<>> \in Seq(Session) /\ Len(<<>>) = 0
    BY EmptySeq
  <2>3. NoVersion \in Versions
    BY <1>1 DEF NoVersion, Versions
  <2> QED BY <1>3, <2>1, <2>2, <2>3 DEF PassOver
<1>4. CASE List
  <2>1. PICK r \in Listings(Existing) : records' = r
    BY <1>4 DEF List
  <2>2. Existing \in SUBSET Session
    BY DEF Existing
  <2>3. r \in Seq(Existing)
    BY <2>1, <2>2, ListingAssumption
  <2>4. records' \in Seq(Session) /\ Len(records') \in Nat
    BY <2>1, <2>2, <2>3, SeqMonotonic, LenProperties
  <2>5. at = "list" /\ listed' = version /\ UNCHANGED <<states, next, upto>>
    BY <1>4 DEF List
  <2>6. next' = 1 /\ upto' = 0
    BY <2>5 DEF Typed
  <2> QED BY <1>1, <2>4, <2>5, <2>6
<1>5. CASE Batch /\ ~PassOver
  <2>1. upto' = BatchEnd /\ next <= Len(records) /\ UNCHANGED <<records, listed, states, next>>
    BY <1>5 DEF Batch, Throws
  <2>2. BatchSize \in Nat \ {0}
    BY Alpha4Assumption
  <2>3. BatchEnd \in 0..Len(records)
    BY <1>1, <2>1, <2>2 DEF BatchEnd
  <2> QED BY <1>1, <2>1, <2>3
<1>6. CASE ReadStates
  BY <1>1, <1>6 DEF ReadStates
<1>7. CASE (SkipRecord \/ ReconcileRecord) /\ ~PassOver
  <2>1. next <= upto /\ next' = next + 1 /\ UNCHANGED <<records, listed, states, upto>>
    BY <1>7 DEF SkipRecord, ReconcileRecord, Throws
  <2> QED BY <1>1, <2>1
<1> QED BY <1>2, <1>3, <1>4, <1>5, <1>6, <1>7, PassWriters

LEMMA SeenTyped ==
    ASSUME Typed, Next
    PROVE  seen' \in 0..MaxVersion
<1>1. seen \in 0..MaxVersion /\ version \in Versions /\ durable \in Versions /\ MaxVersion \in Nat
  BY NextFacts
<1>2. at \in {"observe", "delete_state"} => doing \in Session
  BY DEF Typed, Working
<1>3. \/ UNCHANGED seen
      \/ seen' = 0
      \/ at = "observe" /\ seen' = version[doing]
      \/ at = "delete_state" /\ seen' = durable[doing]
  BY DEF Next, SessionGrows, SessionGone, Enqueue, Start, Step, Subscribe, List, Batch,
             BackfillEnds, ReadStates, SkipRecord, ReconcileRecord, BatchDone, Observe,
             ReplacePartition, TakeChange, DeleteReadsState, DeletePartition, ChangesDone, Drain,
             Drained, GoLive, CallFails, Aborted, MarkFailed, MarkLost, Close, CloseEnds, Throws,
             WorkOver, hostVars, viewVars, closeVars, passVars, workVars
<1> QED BY <1>1, <1>2, <1>3 DEF Versions

\* The thread has a session in hand while it works on one.
LEMMA DoingTyped ==
    ASSUME Typed, Next
    PROVE  doing' \in Session \cup {"none"} /\ (at' \in Working => doing' \in Session)
<1>1. doing \in Session \cup {"none"} /\ (at \in Working => doing \in Session)
  BY DEF Typed, Alpha4TypeOK
<1>2. \/ UNCHANGED <<at, doing>>
      \/ UNCHANGED doing /\ at \in Working
      \/ UNCHANGED doing /\ at' \notin Working
      \/ doing' = "none" /\ at' \notin Working
      \/ ReconcileRecord /\ doing' = records[next]
      \/ TakeChange /\ doing' = Head(pending).session
  BY DEF Next, SessionGrows, SessionGone, Enqueue, Start, Step, Subscribe, List, Batch,
             BackfillEnds, ReadStates, SkipRecord, ReconcileRecord, BatchDone, Observe,
             ReplacePartition, TakeChange, DeleteReadsState, DeletePartition, ChangesDone, Drain,
             Drained, GoLive, CallFails, Aborted, MarkFailed, MarkLost, TailRejected, Close,
             CloseEnds, Throws, WorkOver, hostVars, viewVars, closeVars, passVars, workVars, Resume,
             Working
<1>3. ASSUME ReconcileRecord
      PROVE  records[next] \in Session
  <2>1. records \in Seq(Session) /\ Len(records) \in Nat /\ next \in 1..Len(records) + 1
        /\ upto \in 0..Len(records)
    BY NextFacts
  <2>2. next \in 1..Len(records)
    BY <1>3, <2>1 DEF ReconcileRecord
  <2> QED BY <2>1, <2>2, ElementOfSeq
<1>4. ASSUME TakeChange
      PROVE  Head(pending).session \in Session
  <2>1. pending \in Seq(ChangeRecord) /\ pending # <<>>
    BY <1>4, NextFacts DEF TakeChange
  <2>2. Head(pending) \in ChangeRecord
    BY <2>1, HeadTailProperties
  <2> QED BY <2>2 DEF ChangeRecord
<1> QED BY <1>1, <1>2, <1>3, <1>4

LEMMA AtTyped ==
    ASSUME Typed, Next
    PROVE  at' \in Awaiting \cup {"off", "batch", "record", "drain", "change", "mark", "end"}
<1>1. at \in Awaiting \cup {"off", "batch", "record", "drain", "change", "mark", "end"}
  BY DEF Typed, Alpha4TypeOK
<1>2. at' \in {at} \cup {"subscribe", "list", "states", "observe", "commit", "delete_state", "delete",
                         "ready", "batch", "record", "drain", "change", "mark", "end"}
  BY DEF Next, SessionGrows, SessionGone, Enqueue, Start, Step, Subscribe, List, Batch,
             BackfillEnds, ReadStates, SkipRecord, ReconcileRecord, BatchDone, Observe,
             ReplacePartition, TakeChange, DeleteReadsState, DeletePartition, ChangesDone, Drain,
             Drained, GoLive, CallFails, Aborted, MarkFailed, MarkLost, TailRejected, Close,
             CloseEnds, Throws, WorkOver, hostVars, viewVars, closeVars, passVars, workVars, Resume,
             Working
<1> QED BY <1>1, <1>2 DEF Awaiting

LEMMA ControlTyped ==
    ASSUME Typed, Next
    PROVE  /\ phase' \in {"idle", "subscribing", "backfill", "catching-up", "live", "failed",
                          "disposing", "disposed"}
           /\ disposed' \in BOOLEAN /\ subscribed' \in BOOLEAN /\ closing' \in {"no", "wait", "done"}
           /\ live_tail' \in BOOLEAN /\ faults' \in 0..MaxFaults
           /\ closing' # "no" => disposed'
<1>1. /\ phase \in {"idle", "subscribing", "backfill", "catching-up", "live", "failed",
                    "disposing", "disposed"}
      /\ disposed \in BOOLEAN /\ subscribed \in BOOLEAN /\ closing \in {"no", "wait", "done"}
      /\ live_tail \in BOOLEAN /\ faults \in 0..MaxFaults /\ (closing # "no" => disposed)
      /\ MaxFaults \in Nat
  BY Alpha4Assumption DEF Typed, Alpha4TypeOK
<1>2. phase' \in {phase, "subscribing", "backfill", "catching-up", "live", "failed", "disposing",
                  "disposed"}
  BY DEF Next, SessionGrows, SessionGone, Enqueue, Start, Step, Subscribe, List, Batch,
             BackfillEnds, ReadStates, SkipRecord, ReconcileRecord, BatchDone, Observe,
             ReplacePartition, TakeChange, DeleteReadsState, DeletePartition, ChangesDone, Drain,
             Drained, GoLive, CallFails, Aborted, MarkFailed, MarkLost, Close, CloseEnds, Throws,
             hostVars, viewVars, closeVars, passVars, workVars
<1>3. \/ UNCHANGED <<disposed, closing>>
      \/ disposed' = TRUE /\ closing' = "wait"
      \/ UNCHANGED disposed /\ closing = "wait" /\ closing' = "done"
  BY DEF Next, SessionGrows, SessionGone, Enqueue, Start, Step, Subscribe, List, Batch,
             BackfillEnds, ReadStates, SkipRecord, ReconcileRecord, BatchDone, Observe,
             ReplacePartition, TakeChange, DeleteReadsState, DeletePartition, ChangesDone, Drain,
             Drained, GoLive, CallFails, Aborted, MarkFailed, MarkLost, Close, CloseEnds, Throws,
             hostVars, viewVars, closeVars, passVars, workVars
<1>4. subscribed' \in {subscribed, TRUE, FALSE} /\ live_tail' \in {live_tail, TRUE}
  BY DEF Next, SessionGrows, SessionGone, Enqueue, Start, Step, Subscribe, List, Batch,
             BackfillEnds, ReadStates, SkipRecord, ReconcileRecord, BatchDone, Observe,
             ReplacePartition, TakeChange, DeleteReadsState, DeletePartition, ChangesDone, Drain,
             Drained, GoLive, CallFails, Aborted, MarkFailed, MarkLost, Close, CloseEnds, Throws,
             hostVars, viewVars, closeVars, passVars, workVars
<1>5. UNCHANGED faults \/ (faults < MaxFaults /\ faults' = faults + 1)
  BY DEF Fault, Next, SessionGrows, SessionGone, Enqueue, Start, Step, Subscribe, List, Batch,
                    BackfillEnds, ReadStates, SkipRecord, ReconcileRecord, BatchDone, Observe,
                    ReplacePartition, TakeChange, DeleteReadsState, DeletePartition, ChangesDone,
                    Drain, Drained, GoLive, CallFails, Aborted, MarkFailed, MarkLost, Close,
                    CloseEnds, Throws, hostVars, viewVars, closeVars, passVars, workVars
<1>6. faults' \in 0..MaxFaults
  BY <1>1, <1>5
<1> QED BY <1>1, <1>2, <1>3, <1>4, <1>6

\* A live source schedules what it buffers.
LEMMA LiveBuffersNothing ==
    ASSUME Typed, Next, phase' = "live", ~disposed'
    PROVE  buffered' = NoChange
<1>1. (phase = "live" /\ ~disposed) => buffered = NoChange
  BY DEF Typed, Alpha4TypeOK
<1>2. disposed' = disposed \/ disposed'
  BY DEF Next, SessionGrows, SessionGone, Enqueue, Start, Step, Subscribe, List, Batch,
             BackfillEnds, ReadStates, SkipRecord, ReconcileRecord, BatchDone, Observe,
             ReplacePartition, TakeChange, DeleteReadsState, DeletePartition, ChangesDone, Drain,
             Drained, GoLive, CallFails, Aborted, MarkFailed, MarkLost, Close, CloseEnds, Throws,
             hostVars, viewVars, closeVars, passVars, workVars
<1>3. \/ UNCHANGED <<phase, buffered>>
      \/ buffered' = NoChange
      \/ phase' # "live"
      \/ GoLive
      \/ \E s \in Session : Enqueue(s)
  BY DEF Next, SessionGrows, SessionGone, Enqueue, Start, Step, Subscribe,
                                 List, Batch, BackfillEnds, ReadStates, SkipRecord, ReconcileRecord,
                                 BatchDone, Observe, ReplacePartition, TakeChange, DeleteReadsState,
                                 DeletePartition, ChangesDone, Drain, Drained, GoLive, CallFails,
                                 Aborted, MarkFailed, MarkLost, Close, CloseEnds, Throws, hostVars,
                                 viewVars, closeVars, passVars, workVars
<1>4. CASE GoLive
  BY <1>2, <1>4 DEF GoLive, ScheduleBuffered
<1>5. ASSUME NEW s \in Session, Enqueue(s)
      PROVE  buffered' = NoChange
  <2>1. phase' = phase /\ UNCHANGED disposed
    BY <1>5 DEF Enqueue, closeVars
  <2> QED BY <1>1, <1>5, <2>1 DEF Enqueue, ScheduleBuffered
<1> QED BY <1>1, <1>2, <1>3, <1>4, <1>5

LEMMA TypedStep == Typed /\ Next => Typed'
<1> SUFFICES ASSUME Typed, Next PROVE Typed'
  OBVIOUS
<1>1. /\ version' \in Versions /\ notices' \in Buffer /\ missed' \subseteq gone' /\ gone' \subseteq Session
  BY HostTyped
<1>2. durable' \in Versions /\ view' \in {"building", "ready", "failed"}
  BY ViewTyped
<1>3. buffered' \in Buffer /\ pending' \in Seq(ChangeRecord)
  BY QueueTyped
<1>4. /\ records' \in Seq(Session) /\ next' \in 1..Len(records') + 1 /\ upto' \in 0..Len(records')
      /\ listed' \in Versions /\ states' \in Versions
  BY PassTyped
<1>5. seen' \in 0..MaxVersion /\ doing' \in Session \cup {"none"} /\ (at' \in Working => doing' \in Session)
  BY SeenTyped, DoingTyped
<1>6. at' \in Awaiting \cup {"off", "batch", "record", "drain", "change", "mark", "end"}
  BY AtTyped
<1>7. /\ phase' \in {"idle", "subscribing", "backfill", "catching-up", "live", "failed",
                     "disposing", "disposed"}
      /\ disposed' \in BOOLEAN /\ subscribed' \in BOOLEAN /\ closing' \in {"no", "wait", "done"}
      /\ live_tail' \in BOOLEAN /\ faults' \in 0..MaxFaults
      /\ closing' # "no" => disposed'
  BY ControlTyped
<1>8. (phase' = "live" /\ ~disposed') => buffered' = NoChange
  BY LiveBuffersNothing
<1>9. phase' = "idle" => at' = "off"
  <2>1. phase = "idle" => at = "off"
    BY DEF Typed
  <2>2. phase' = "idle" => phase = "idle" /\ (UNCHANGED at \/ at # "off")
    BY DEF Awaiting, Next, SessionGrows, SessionGone, Enqueue, Start, Step, Subscribe, List, Batch,
               BackfillEnds, ReadStates, SkipRecord, ReconcileRecord, BatchDone, Observe,
               ReplacePartition, TakeChange, DeleteReadsState, DeletePartition, ChangesDone, Drain,
               Drained, GoLive, CallFails, Aborted, MarkFailed, MarkLost, TailRejected, Close,
               CloseEnds, Throws, WorkOver, hostVars, viewVars, closeVars, passVars, workVars,
               Resume
  <2> QED BY <2>1, <2>2
<1>10. (at' \in {"off", "subscribe", "list"}) => next' = 1 /\ upto' = 0
  <2>1. /\ phase = "idle" => at = "off"
        /\ at \in {"off", "subscribe", "list"} => next = 1 /\ upto = 0
    BY DEF Typed
  <2>2. at' \in {"off", "subscribe", "list"} =>
            UNCHANGED <<next, upto>> /\ (UNCHANGED at \/ Start \/ Subscribe)
    BY DEF Next, SessionGrows, SessionGone, Enqueue, Start, Step, Subscribe, List, Batch,
               BackfillEnds, ReadStates, SkipRecord, ReconcileRecord, BatchDone, Observe,
               ReplacePartition, TakeChange, DeleteReadsState, DeletePartition, ChangesDone, Drain,
               Drained, GoLive, CallFails, Aborted, MarkFailed, MarkLost, TailRejected, Close,
               CloseEnds, Throws, PassOver, WorkOver, hostVars, viewVars, closeVars, passVars,
               workVars, Resume
  <2>3. (Start \/ Subscribe) => phase = "idle" \/ at = "subscribe"
    BY DEF Start, Subscribe
  <2> QED BY <2>1, <2>2, <2>3
<1>11. Alpha4TypeOK'
  BY <1>1, <1>2, <1>3, <1>4, <1>5, <1>6, <1>7, <1>8
  DEF Alpha4TypeOK, Versions, Buffer, ChangeRecord
<1> QED BY <1>1, <1>4, <1>5, <1>7, <1>9, <1>10, <1>11 DEF Typed

----------------------------------------------------------------------------
(* Changes are not lost, and a deletion is of a session that is gone       *)

\* A pending sequence with others behind it.
LEMMA ConcatCovers ==
    ASSUME NEW p \in Seq(ChangeRecord), NEW q \in Seq(ChangeRecord)
    PROVE  /\ \A i \in 1..Len(p) : i \in 1..Len(p \o q) /\ (p \o q)[i] = p[i]
           /\ \A i \in 1..Len(q) : Len(p) + i \in 1..Len(p \o q) /\ (p \o q)[Len(p) + i] = q[i]
           /\ \A i \in 1..Len(p \o q) : \/ i \in 1..Len(p) /\ (p \o q)[i] = p[i]
                                        \/ \E j \in 1..Len(q) : (p \o q)[i] = q[j]
<1>1. /\ Len(p \o q) = Len(p) + Len(q)
      /\ \A i \in 1..Len(p) + Len(q) : (p \o q)[i] = IF i <= Len(p) THEN p[i] ELSE q[i - Len(p)]
  BY ConcatProperties
<1>2. Len(p) \in Nat /\ Len(q) \in Nat
  BY LenProperties
<1> DEFINE r == p \o q
<1> HIDE DEF r
<1>3. /\ Len(r) = Len(p) + Len(q)
      /\ \A i \in 1..Len(p) + Len(q) : r[i] = IF i <= Len(p) THEN p[i] ELSE q[i - Len(p)]
  BY <1>1 DEF r
<1>4. \A i \in 1..Len(p) : i \in 1..Len(r) /\ r[i] = p[i]
  BY <1>2, <1>3
<1>5. \A i \in 1..Len(q) : Len(p) + i \in 1..Len(r) /\ r[Len(p) + i] = q[i]
  <2> SUFFICES ASSUME NEW i \in 1..Len(q)
               PROVE  Len(p) + i \in 1..Len(r) /\ r[Len(p) + i] = q[i]
    OBVIOUS
  <2>1. Len(p) + i \in 1..Len(p) + Len(q) /\ ~(Len(p) + i <= Len(p)) /\ (Len(p) + i) - Len(p) = i
    BY <1>2
  <2> QED BY <1>3, <2>1
<1>6. ASSUME NEW i \in 1..Len(r)
      PROVE  (i \in 1..Len(p) /\ r[i] = p[i]) \/ \E j \in 1..Len(q) : r[i] = q[j]
  <2>1. CASE i <= Len(p)
    BY <1>2, <1>3, <2>1
  <2>2. CASE ~(i <= Len(p))
    <3>1. i - Len(p) \in 1..Len(q)
      BY <1>2, <1>3, <2>2
    <3> QED BY <1>2, <1>3, <2>2, <3>1
  <2> QED BY <2>1, <2>2
<1> QED BY <1>4, <1>5, <1>6 DEF r

\* scheduleBuffered keeps every change, buffered or pending.
LEMMA RequeueKeeps ==
    ASSUME Typed, NEW b \in Buffer, Requeue(b)
    PROVE  /\ \A s \in Session : b[s] # "none" \/ Pends(s) => buffered'[s] # "none" \/ Pends(s)'
           /\ \A s \in Session : buffered'[s] = "delete" => b[s] = "delete"
           /\ \A i \in 1..Len(pending') :
                 \/ \E j \in 1..Len(pending) : pending'[i] = pending[j]
                 \/ pending'[i].session \in Session /\ pending'[i].change = b[pending'[i].session]
<1>1. pending \in Seq(ChangeRecord)
  BY NextFacts
<1>2. CASE buffered' = b /\ pending' = pending
  BY <1>2 DEF Pends
<1>3. ASSUME buffered' = NoChange, NEW q \in Ordered(b), pending' = pending \o q
      PROVE  /\ \A s \in Session : b[s] # "none" \/ Pends(s) => buffered'[s] # "none" \/ Pends(s)'
             /\ \A s \in Session : buffered'[s] = "delete" => b[s] = "delete"
             /\ \A i \in 1..Len(pending') :
                   \/ \E j \in 1..Len(pending) : pending'[i] = pending[j]
                   \/ pending'[i].session \in Session /\ pending'[i].change = b[pending'[i].session]
  <2>1. /\ q \in Seq(ChangeRecord)
        /\ \A s \in Session : b[s] # "none" => \E i \in 1..Len(q) : q[i].session = s
        /\ \A i \in 1..Len(q) : q[i].change = b[q[i].session]
    BY OrderedCovers
  <2>2. \A i \in 1..Len(q) : q[i].session \in Session
    <3>1. \A i \in 1..Len(q) : q[i] \in ChangeRecord
      BY <2>1, ElementOfSeq
    <3> QED BY <3>1 DEF ChangeRecord
  <2>3. /\ \A i \in 1..Len(pending) : i \in 1..Len(pending') /\ pending'[i] = pending[i]
        /\ \A i \in 1..Len(q) : Len(pending) + i \in 1..Len(pending')
                                /\ pending'[Len(pending) + i] = q[i]
        /\ \A i \in 1..Len(pending') : \/ i \in 1..Len(pending) /\ pending'[i] = pending[i]
                                       \/ \E j \in 1..Len(q) : pending'[i] = q[j]
    BY <1>1, <1>3, <2>1, ConcatCovers
  <2>4. ASSUME NEW s \in Session, Pends(s)
        PROVE  Pends(s)'
    BY <2>3, <2>4 DEF Pends
  <2>5. ASSUME NEW s \in Session, b[s] # "none"
        PROVE  Pends(s)'
    <3>1. PICK i \in 1..Len(q) : q[i].session = s
      BY <2>1, <2>5
    <3>2. Len(pending) + i \in 1..Len(pending') /\ pending'[Len(pending) + i].session = s
      BY <2>3, <3>1
    <3> QED BY <3>2 DEF Pends
  <2>6. \A s \in Session : buffered'[s] # "delete"
    BY <1>3 DEF NoChange
  <2>7. \A i \in 1..Len(pending') :
           \/ \E j \in 1..Len(pending) : pending'[i] = pending[j]
           \/ pending'[i].session \in Session /\ pending'[i].change = b[pending'[i].session]
    BY <2>1, <2>2, <2>3
  <2> QED BY <2>4, <2>5, <2>6, <2>7
<1> QED BY <1>2, <1>3 DEF Requeue

LEMMA GoneGrows ==
    ASSUME Typed, GoneShape, Next
    PROVE  /\ gone \subseteq gone'
           /\ \A s \in gone' : version'[s] = 0
           /\ \A s \in Session : notices'[s] = "delete" => s \in gone'
<1>1. /\ version \in Versions /\ notices \in Buffer /\ gone \subseteq Session
      /\ \A s \in gone : version[s] = 0
      /\ \A s \in Session : notices[s] = "delete" => s \in gone
  BY NextFacts DEF Typed, Alpha4TypeOK, GoneShape
<1>2. CASE UNCHANGED hostVars
  BY <1>1, <1>2 DEF hostVars
<1>3. ASSUME NEW s \in Session, SessionGrows(s)
      PROVE  /\ gone \subseteq gone'
             /\ \A t \in gone' : version'[t] = 0
             /\ \A t \in Session : notices'[t] = "delete" => t \in gone'
  <2>1. gone' = gone /\ s \notin gone /\ version' = [version EXCEPT ![s] = @ + 1]
    BY <1>3 DEF SessionGrows
  <2>2. \A t \in gone' : version'[t] = 0
    BY <1>1, <2>1 DEF Versions
  <2>3. \A t \in Session : notices'[t] = "delete" => notices[t] = "delete"
    BY <1>1, <1>3 DEF SessionGrows, Announce, Buffer
  <2> QED BY <1>1, <2>1, <2>2, <2>3
<1>4. ASSUME NEW s \in Session, SessionGone(s)
      PROVE  /\ gone \subseteq gone'
             /\ \A t \in gone' : version'[t] = 0
             /\ \A t \in Session : notices'[t] = "delete" => t \in gone'
  <2>1. gone' = gone \cup {s} /\ version' = [version EXCEPT ![s] = 0]
    BY <1>4 DEF SessionGone
  <2>2. \A t \in gone' : version'[t] = 0
    BY <1>1, <2>1 DEF Versions
  <2>3. \A t \in Session : notices'[t] = "delete" => notices[t] = "delete" \/ t = s
    BY <1>1, <1>4 DEF SessionGone, Announce, Buffer
  <2> QED BY <1>1, <2>1, <2>2, <2>3
<1>5. ASSUME NEW s \in Session, Enqueue(s), UNCHANGED <<version, gone, missed>>
      PROVE  \A t \in Session : notices'[t] = "delete" => t \in gone'
  BY <1>1, <1>5 DEF Enqueue, Buffer
<1> QED BY <1>1, <1>2, <1>3, <1>4, <1>5, HostWriters

LEMMA GoneQueued ==
    ASSUME Typed, GoneShape, Next
    PROVE  /\ \A s \in Session : buffered'[s] = "delete" => s \in gone'
           /\ \A i \in 1..Len(pending') : pending'[i].change = "delete" => pending'[i].session \in gone'
<1>1. gone \subseteq gone'
  BY GoneGrows
<1>2. /\ \A s \in Session : notices[s] = "delete" => s \in gone
      /\ \A s \in Session : buffered[s] = "delete" => s \in gone
      /\ \A i \in 1..Len(pending) : pending[i].change = "delete" => pending[i].session \in gone
  BY DEF GoneShape
<1>3. buffered \in Buffer /\ notices \in Buffer /\ pending \in Seq(ChangeRecord)
  BY NextFacts
<1>4. ASSUME NEW b \in Buffer, Requeue(b), \A s \in Session : b[s] = "delete" => s \in gone
      PROVE  /\ \A s \in Session : buffered'[s] = "delete" => s \in gone'
             /\ \A i \in 1..Len(pending') : pending'[i].change = "delete" => pending'[i].session \in gone'
  BY <1>1, <1>2, <1>4, RequeueKeeps
<1>5. CASE Requeue(buffered)
  BY <1>2, <1>3, <1>4, <1>5
<1>6. ASSUME NEW s \in Session, Requeue([buffered EXCEPT ![s] = notices[s]])
      PROVE  /\ \A t \in Session : buffered'[t] = "delete" => t \in gone'
             /\ \A i \in 1..Len(pending') : pending'[i].change = "delete" => pending'[i].session \in gone'
  <2> DEFINE b == [buffered EXCEPT ![s] = notices[s]]
  <2>1. b \in Buffer /\ \A t \in Session : b[t] = "delete" => t \in gone
    BY <1>2, <1>3 DEF Buffer
  <2>2. Requeue(b)
    BY <1>6
  <2> HIDE DEF b
  <2> QED BY <1>4, <2>1, <2>2
<1>7. ASSUME buffered' = NoChange, NEW q \in Ordered(buffered), pending' = q
      PROVE  /\ \A s \in Session : buffered'[s] = "delete" => s \in gone'
             /\ \A i \in 1..Len(pending') : pending'[i].change = "delete" => pending'[i].session \in gone'
  <2>1. q \in Seq(ChangeRecord) /\ \A i \in 1..Len(q) : q[i].change = buffered[q[i].session]
    BY <1>3, OrderedCovers
  <2>2. \A i \in 1..Len(q) : q[i].session \in Session
    <3>1. \A i \in 1..Len(q) : q[i] \in ChangeRecord
      BY <2>1, ElementOfSeq
    <3> QED BY <3>1 DEF ChangeRecord
  <2>3. \A s \in Session : buffered'[s] # "delete"
    BY <1>7 DEF NoChange
  <2> QED BY <1>1, <1>2, <1>7, <2>1, <2>2, <2>3
<1>8. CASE UNCHANGED buffered /\ pending # <<>> /\ pending' = Tail(pending)
  <2>1. /\ Len(pending) \in Nat /\ Len(Tail(pending)) = Len(pending) - 1
        /\ \A i \in 1..Len(Tail(pending)) : Tail(pending)[i] = pending[i + 1]
    BY <1>3, <1>8, HeadTailProperties, LenProperties
  <2>2. \A i \in 1..Len(pending') : i + 1 \in 1..Len(pending) /\ pending'[i] = pending[i + 1]
    BY <1>8, <2>1
  <2> QED BY <1>1, <1>2, <1>8, <2>2
<1>9. CASE UNCHANGED buffered /\ pending' = <<>>
  BY <1>1, <1>2, <1>9, EmptySeq
<1>10. CASE buffered' = NoChange /\ UNCHANGED pending
  BY <1>1, <1>2, <1>10 DEF NoChange
<1>11. CASE UNCHANGED <<buffered, pending>>
  BY <1>1, <1>2, <1>11
<1> QED BY <1>5, <1>6, <1>7, <1>8, <1>9, <1>10, <1>11, QueueWriters

LEMMA GoneStep == Typed /\ GoneShape /\ Next => GoneShape'
<1> SUFFICES ASSUME Typed, GoneShape, Next PROVE GoneShape'
  OBVIOUS
<1>1. at' \in {"delete_state", "delete"} => doing' \in gone'
  <2>1. gone \subseteq gone' /\ (at \in {"delete_state", "delete"} => doing \in gone)
    BY GoneGrows DEF GoneShape
  <2>2. at' \in {"delete_state", "delete"} =>
            \/ UNCHANGED <<at, doing>>
            \/ at = "delete_state" /\ UNCHANGED doing
            \/ TakeChange /\ pending # <<>> /\ doing' = Head(pending).session
                          /\ Head(pending).change = "delete"
    BY DEF Next, SessionGrows, SessionGone, Enqueue, Start, Step, Subscribe, List, Batch,
               BackfillEnds, ReadStates, SkipRecord, ReconcileRecord, BatchDone, Observe,
               ReplacePartition, TakeChange, DeleteReadsState, DeletePartition, ChangesDone, Drain,
               Drained, GoLive, CallFails, Aborted, MarkFailed, MarkLost, TailRejected, Close,
               CloseEnds, Throws, WorkOver, hostVars, viewVars, closeVars, passVars, workVars,
               Resume
  <2>3. pending # <<>> => Head(pending) = pending[1] /\ 1 \in 1..Len(pending)
    <3>1. pending \in Seq(ChangeRecord) /\ Len(pending) \in Nat
      BY NextFacts
    <3>2. pending # <<>> => Len(pending) # 0
      BY <3>1, EmptySeq
    <3> QED BY <3>1, <3>2
  <2>4. \A i \in 1..Len(pending) : pending[i].change = "delete" => pending[i].session \in gone
    BY DEF GoneShape
  <2> QED BY <2>1, <2>2, <2>3, <2>4
<1> QED BY <1>1, GoneGrows, GoneQueued DEF GoneShape

----------------------------------------------------------------------------
(* The phases                                                              *)

LEMMA DisposedStays ==
    ASSUME Next, ~disposed'
    PROVE  ~disposed
BY DEF Next, SessionGrows, SessionGone, Announce, Enqueue, Start, Step, Subscribe, List, Batch,
    BackfillEnds, ReadStates, SkipRecord, ReconcileRecord, BatchDone, Observe, ReplacePartition,
    TakeChange, DeleteReadsState, DeletePartition, ChangesDone, Drain, Drained, GoLive, CallFails,
    Aborted, LostEffect, MarkFailed, MarkLost, TailRejected, Close, CloseEnds, Throws, PassOver,
    WorkOver, hostVars, viewVars, closeVars, passVars, workVars, Resume

LEMMA ShapeStep == Typed /\ PhaseShape /\ Next => PhaseShape'
<1> SUFFICES ASSUME Typed, PhaseShape, Next, ~disposed'
             PROVE  PhaseShape'
  BY DEF PhaseShape
<1> USE DEF Working, Awaiting
<1>1. ~disposed /\ ~CloseEnds
  BY DisposedStays DEF CloseEnds, Typed
<1>2. CASE UNCHANGED <<phase, at, subscribed, live_tail, records>> /\ (UNCHANGED pending \/ at = "change" \/ phase = "live")
  BY <1>1, <1>2 DEF PhaseShape
<1>3. CASE phase' = "failed" /\ at' \in {"mark", "end"}
  BY <1>3 DEF PhaseShape
<1>4. CASE Start \/ Subscribe \/ List \/ BackfillEnds
  BY <1>1, <1>4 DEF PhaseShape, Start, Subscribe, List, BackfillEnds, PassOver, closeVars, passVars, workVars
<1>5. CASE Batch \/ ReadStates \/ SkipRecord \/ BatchDone
  BY <1>1, <1>3, <1>5 DEF PhaseShape, Batch, ReadStates, SkipRecord, BatchDone, Throws, closeVars, passVars, workVars
<1>6. CASE ReconcileRecord
  <2>1. records # <<>>
    <3>1. next \in Nat \ {0} /\ Len(records) \in Nat /\ upto <= Len(records) /\ upto \in Nat
      BY NextFacts
    <3>2. next <= upto
      BY <1>6 DEF ReconcileRecord
    <3> QED BY <3>1, <3>2, EmptySeq
  <2> QED BY <1>1, <1>3, <1>6, <2>1 DEF PhaseShape, ReconcileRecord, Throws, closeVars
<1>7. CASE Observe \/ ReplacePartition
  BY <1>1, <1>3, <1>7 DEF PhaseShape, Observe, ReplacePartition, Resume, Throws, closeVars, passVars
<1>8. CASE TakeChange \/ DeleteReadsState \/ DeletePartition
  BY <1>1, <1>3, <1>8
  DEF PhaseShape, TakeChange, DeleteReadsState, DeletePartition, Resume, Throws, closeVars, passVars
<1>9. CASE ChangesDone \/ Drain \/ Drained \/ GoLive
  BY <1>1, <1>3, <1>9
  DEF PhaseShape, ChangesDone, Drain, Drained, GoLive, Throws, closeVars, passVars, workVars
<1>10. CASE CallFails
  BY <1>1, <1>3, <1>10 DEF CallFails, Throws
<1>11. CASE MarkFailed \/ MarkLost
  <2>1. at = "mark" /\ UNCHANGED phase /\ at' \in {"mark", "end"}
    BY <1>11 DEF MarkFailed, MarkLost, TailRejected
  <2> QED BY <1>1, <1>3, <2>1 DEF PhaseShape
<1>12. CASE \E s \in Session : SessionGrows(s) \/ SessionGone(s)
  BY <1>2, <1>12 DEF SessionGrows, SessionGone, closeVars, passVars, workVars
<1>13. CASE \E s \in Session : Enqueue(s)
  <2>1. UNCHANGED <<phase, at, subscribed, live_tail, records>> /\ (UNCHANGED pending \/ phase = "live")
    BY <1>13 DEF Enqueue, ScheduleBuffered, closeVars, passVars
  <2> QED BY <1>2, <2>1
<1>14. ~Aborted /\ ~Close
  BY <1>1 DEF Aborted, Close
<1> QED
  BY <1>1, <1>4, <1>5, <1>6, <1>7, <1>8, <1>9, <1>10, <1>11, <1>12, <1>13, <1>14 DEF Next, Step

----------------------------------------------------------------------------
(* What a step does to the knowledge of a session                          *)

\* While the source is subscribed a version does not change unannounced.
LEMMA VersionsAreNoted ==
    ASSUME Typed, Next, subscribed
    PROVE  missed' = missed /\ \A s \in Session : version'[s] # version[s] => Noted(s)'
<1>1. version \in Versions /\ notices \in Buffer
  BY NextFacts
<1>2. CASE UNCHANGED hostVars
  BY <1>2 DEF hostVars
<1>3. ASSUME NEW s \in Session, SessionGrows(s) \/ SessionGone(s)
      PROVE  missed' = missed /\ \A t \in Session : version'[t] # version[t] => Noted(t)'
  <2>1. missed' = missed /\ notices'[s] # "none"
    BY <1>1, <1>3 DEF SessionGrows, SessionGone, Announce, Buffer
  <2>2. \A t \in Session : version'[t] # version[t] => t = s
    BY <1>1, <1>3 DEF SessionGrows, SessionGone, Versions
  <2> QED BY <2>1, <2>2 DEF Noted
<1>4. CASE UNCHANGED <<version, gone, missed>>
  BY <1>4
<1> QED BY <1>2, <1>3, <1>4, HostWriters

\* A change is not lost before it is taken up.
LEMMA NotedStays ==
    ASSUME Typed, PhaseShape, Next, ~disposed', subscribed, at # "mark", NEW s \in Session, Noted(s)
    PROVE  \/ Noted(s)'
           \/ TakeChange /\ at' \in {"observe", "delete_state"} /\ doing' = s
<1>1. ~disposed /\ ~CloseEnds
  BY DisposedStays DEF CloseEnds, Typed
<1>2. notices \in Buffer /\ buffered \in Buffer /\ pending \in Seq(ChangeRecord)
  BY NextFacts
<1>3. CASE UNCHANGED <<notices, buffered, pending>>
  BY <1>3 DEF Noted, Pends
<1>4. CASE \E t \in Session : SessionGrows(t) \/ SessionGone(t)
  <2>1. UNCHANGED <<buffered, pending>>
    BY <1>4 DEF SessionGrows, SessionGone, workVars
  <2>2. notices[s] # "none" => notices'[s] # "none"
    BY <1>2, <1>4 DEF SessionGrows, SessionGone, Announce, Buffer
  <2> QED BY <2>1, <2>2 DEF Noted, Pends
<1>5. ASSUME NEW t \in Session, Enqueue(t)
      PROVE  Noted(s)'
  <2> DEFINE b == [buffered EXCEPT ![t] = notices[t]]
  <2>1. b \in Buffer /\ notices[t] # "none" /\ notices' = [notices EXCEPT ![t] = "none"]
    BY <1>2, <1>5 DEF Enqueue, Buffer
  <2>2. b[t] # "none" /\ \A u \in Session : u # t => b[u] = buffered[u]
    BY <1>2, <2>1 DEF Buffer
  <2>4. Requeue(b)
    BY <1>1, <1>5 DEF Enqueue, ScheduleBuffered, Requeue
  <2> HIDE DEF b
  <2>5. b[s] # "none" \/ Pends(s) => buffered'[s] # "none" \/ Pends(s)'
    BY <2>1, <2>4, RequeueKeeps
  <2>6. s # t => notices'[s] = notices[s]
    BY <1>2, <2>1 DEF Buffer
  <2> QED BY <2>2, <2>5, <2>6 DEF Noted
<1>6. CASE TakeChange
  <2>1. CASE UNCHANGED <<notices, buffered, pending>>
    BY <1>3, <2>1
  <2>2. CASE ~UNCHANGED <<notices, buffered, pending>>
    <3>1. /\ UNCHANGED <<notices, buffered>> /\ pending # <<>> /\ pending' = Tail(pending)
          /\ doing' = Head(pending).session /\ at' \in {"observe", "delete_state"}
      BY <1>6, <2>2 DEF TakeChange, Throws, hostVars
    <3>2. CASE notices[s] # "none" \/ buffered[s] # "none"
      BY <3>1, <3>2 DEF Noted
    <3>3. ASSUME NEW i \in 1..Len(pending), pending[i].session = s
          PROVE  doing' = s \/ Pends(s)'
      <4>1. /\ Len(pending) \in Nat /\ Head(pending) = pending[1] /\ Len(pending') = Len(pending) - 1
            /\ \A j \in 1..Len(Tail(pending)) : Tail(pending)[j] = pending[j + 1]
        BY <1>2, <3>1, HeadTailProperties, LenProperties
      <4>2. CASE i = 1
        BY <3>1, <3>3, <4>1, <4>2
      <4>3. CASE i # 1
        <5>1. i - 1 \in 1..Len(pending') /\ (i - 1) + 1 = i
          BY <4>1, <4>3
        <5>2. pending'[i - 1] = pending[i]
          BY <3>1, <4>1, <5>1
        <5> QED BY <3>3, <5>1, <5>2 DEF Pends
      <4> QED BY <4>2, <4>3
    <3> QED BY <1>6, <3>1, <3>2, <3>3 DEF Noted, Pends
  <2> QED BY <2>1, <2>2
<1>7. CASE Drain
  <2>1. pending = <<>> /\ UNCHANGED notices /\ buffered' = NoChange
        /\ \E q \in Ordered(buffered) : pending' = q
    BY <1>1, <1>7 DEF PhaseShape, Drain, hostVars, Working
  <2>2. ~Pends(s)
    BY <2>1, EmptySeq DEF Pends
  <2>3. buffered[s] # "none" => Pends(s)'
    BY <1>2, <2>1, OrderedCovers DEF Pends
  <2> QED BY <2>1, <2>2, <2>3 DEF Noted
<1>8. CASE GoLive
  <2>1. Requeue(buffered) /\ UNCHANGED notices
    BY <1>1, <1>8 DEF GoLive, ScheduleBuffered, Requeue, hostVars
  <2>2. buffered[s] # "none" \/ Pends(s) => buffered'[s] # "none" \/ Pends(s)'
    BY <1>2, <2>1, RequeueKeeps
  <2> QED BY <2>1, <2>2 DEF Noted
<1>9. UNCHANGED <<notices, buffered, pending>> \/ (\E t \in Session : SessionGrows(t) \/ SessionGone(t))
      \/ (\E t \in Session : Enqueue(t)) \/ TakeChange \/ Drain \/ GoLive
  BY <1>1 DEF Next, SessionGrows, SessionGone, Announce, Enqueue, Start, Step, Subscribe, List, Batch,
      BackfillEnds, ReadStates, SkipRecord, ReconcileRecord, BatchDone, Observe, ReplacePartition,
      TakeChange, DeleteReadsState, DeletePartition, ChangesDone, Drain, Drained, GoLive, CallFails,
      Aborted, LostEffect, MarkFailed, MarkLost, TailRejected, Close, CloseEnds, Throws, PassOver,
      WorkOver, hostVars, viewVars, closeVars, passVars, workVars, Resume
<1> QED BY <1>3, <1>4, <1>5, <1>6, <1>7, <1>8, <1>9

\* What a step writes into a partition was observed, or is nothing.
LEMMA PartitionWrites ==
    ASSUME Typed, Next, NEW s \in Session, durable'[s] # durable[s]
    PROVE  /\ doing = s /\ UNCHANGED hostVars
           /\ \/ at = "commit" /\ durable'[s] = seen
              \/ at = "delete" /\ durable'[s] = 0
<1>1. durable \in Versions
  BY NextFacts
<1>2. \/ UNCHANGED durable
      \/ UNCHANGED hostVars /\ at = "commit" /\ durable' = [durable EXCEPT ![doing] = seen]
      \/ UNCHANGED hostVars /\ at = "delete" /\ durable' = [durable EXCEPT ![doing] = 0]
  BY DEF Next, SessionGrows, SessionGone, Announce, Enqueue, Start, Step, Subscribe, List, Batch,
      BackfillEnds, ReadStates, SkipRecord, ReconcileRecord, BatchDone, Observe, ReplacePartition,
      TakeChange, DeleteReadsState, DeletePartition, ChangesDone, Drain, Drained, GoLive, CallFails,
      Aborted, LostEffect, MarkFailed, MarkLost, TailRejected, Close, CloseEnds, Throws, PassOver,
      WorkOver, hostVars, viewVars, closeVars, passVars, workVars, Resume
<1> QED BY <1>1, <1>2 DEF Versions

\* A partition that a step writes is one whose session is known.
LEMMA WrittenIsKnown ==
    ASSUME Typed, GoneShape, SeenShape, Next, ~disposed, NEW s \in Session, durable'[s] # durable[s]
    PROVE  durable'[s] = version'[s] \/ Noted(s)
<1>1. /\ doing = s /\ version' = version
      /\ (at = "commit" /\ durable'[s] = seen) \/ (at = "delete" /\ durable'[s] = 0)
  BY PartitionWrites DEF hostVars
<1>2. at = "commit" => seen = version[s] \/ Noted(s)
  BY <1>1 DEF SeenShape
<1>3. at = "delete" => version[s] = 0
  BY <1>1 DEF GoneShape
<1> QED BY <1>1, <1>2, <1>3

LEMMA KnownStays ==
    ASSUME Typed, PhaseShape, GoneShape, SeenShape, Next, ~disposed', subscribed, at # "mark",
           NEW s \in Session, Known(s)
    PROVE  Known(s)' \/ (TakeChange /\ at' \in {"observe", "delete_state"} /\ doing' = s)
<1>1. ~disposed
  BY DisposedStays
<1>2. CASE Noted(s)
  BY <1>2, NotedStays DEF Known
<1>3. CASE ~Noted(s)
  <2>1. durable[s] = version[s]
    BY <1>3 DEF Known
  <2>2. CASE version'[s] # version[s]
    BY <2>2, VersionsAreNoted DEF Known
  <2>3. CASE durable'[s] # durable[s]
    BY <1>1, <1>3, <2>3, WrittenIsKnown DEF Known
  <2> QED BY <2>1, <2>2, <2>3 DEF Known
<1> QED BY <1>2, <1>3

\* The session in hand is let go once it is known.
LEMMA InHandStays ==
    ASSUME Typed, PhaseShape, GoneShape, Next, ~disposed', subscribed, at # "mark",
           at' \notin {"mark", "end"}, NEW s \in Session, InHand(s)
    PROVE  Known(s)' \/ InHand(s)'
<1>1. at \in Working /\ doing = s
  BY DEF InHand, Working
<1>2. CASE version'[s] # version[s]
  BY <1>2, VersionsAreNoted DEF Known
<1>3. CASE UNCHANGED <<at, doing, seen>> /\ version'[s] = version[s]
  BY <1>3 DEF InHand
<1>4. CASE Observe
  BY <1>1, <1>4 DEF InHand, Observe, Throws, hostVars, workVars
<1>5. CASE ReplacePartition
  <2>1. seen = version[s] /\ durable \in Versions
    BY <1>5, NextFacts DEF InHand, ReplacePartition
  <2>2. durable'[s] = seen /\ version' = version
    BY <1>1, <1>5, <2>1 DEF ReplacePartition, hostVars, Versions
  <2> QED BY <2>1, <2>2 DEF Known
<1>6. CASE DeleteReadsState
  <2>1. version[s] = 0
    BY <1>1, <1>6 DEF GoneShape, DeleteReadsState
  <2>2. version' = version /\ durable' = durable
    BY <1>6 DEF DeleteReadsState, Throws, hostVars, viewVars
  <2>3. durable[s] = 0 \/ (at' = "delete" /\ doing' = s)
    BY <1>1, <1>6 DEF DeleteReadsState, Throws
  <2> QED BY <2>1, <2>2, <2>3 DEF Known, InHand
<1>7. CASE DeletePartition
  <2>1. version[s] = 0 /\ durable \in Versions
    BY <1>1, <1>7, NextFacts DEF GoneShape, DeletePartition
  <2>2. version' = version /\ durable'[s] = 0
    BY <1>1, <1>7, <2>1 DEF DeletePartition, hostVars, Versions
  <2> QED BY <2>1, <2>2 DEF Known
<1>8. UNCHANGED <<at, doing, seen>> \/ Observe \/ ReplacePartition \/ DeleteReadsState \/ DeletePartition
  <2>1. phase # "idle"
    BY <1>1 DEF Typed, Working
  <2> QED
    BY <1>1, <2>1 DEF Working, Awaiting, Next, SessionGrows, SessionGone, Announce, Enqueue, Start, Step, Subscribe, List, Batch,
        BackfillEnds, ReadStates, SkipRecord, ReconcileRecord, BatchDone, TakeChange, ChangesDone,
        Drain, Drained, GoLive, CallFails, Aborted, LostEffect, MarkFailed, MarkLost, TailRejected,
        Close, CloseEnds, Throws, PassOver, WorkOver, hostVars, viewVars, closeVars, passVars,
        workVars
<1> QED BY <1>2, <1>3, <1>4, <1>5, <1>6, <1>7, <1>8

----------------------------------------------------------------------------
(* The steps                                                               *)

\* A source that is not closed and has not failed goes on.
LEMMA Onwards ==
    ASSUME Typed, PhaseShape, Next, ~disposed', phase' # "failed"
    PROVE  at # "mark" /\ at' \notin {"mark", "end"} /\ ~disposed
<1>1. ~disposed
  BY DisposedStays
<1>2. PhaseShape'
  BY ShapeStep
<1>3. at' \notin {"mark", "end"}
  BY <1>2 DEF PhaseShape, Working
<1>4. phase # "failed"
  <2>1. phase = "failed" => at \in {"mark", "end"}
    BY <1>1 DEF PhaseShape
  <2>2. ~CloseEnds
    BY <1>1 DEF CloseEnds, Typed
  <2>3. ASSUME at \in {"mark", "end"}, phase = "failed"
        PROVE  phase' = "failed"
    BY <2>2, <2>3 DEF Awaiting, Next, SessionGrows, SessionGone, Announce, Enqueue, Start, Step, Subscribe, List, Batch,
        BackfillEnds, ReadStates, SkipRecord, ReconcileRecord, BatchDone, Observe, ReplacePartition,
        TakeChange, DeleteReadsState, DeletePartition, ChangesDone, Drain, Drained, GoLive,
        CallFails, Aborted, LostEffect, MarkFailed, MarkLost, TailRejected, Close, CloseEnds,
        Throws, PassOver, WorkOver, hostVars, viewVars, closeVars, passVars, workVars, Resume
  <2> QED BY <2>1, <2>3
<1>5. at # "mark"
  BY <1>1, <1>4 DEF PhaseShape, Working
<1> QED BY <1>1, <1>3, <1>5

LEMMA SeenStep == Typed /\ PhaseShape /\ SeenShape /\ Next => SeenShape'
<1> SUFFICES ASSUME Typed, PhaseShape, SeenShape, Next, ~disposed', at' = "commit"
             PROVE  seen' = version'[doing'] \/ Noted(doing)'
  BY DEF SeenShape
<1>1. ~disposed /\ doing' \in Session
  BY DisposedStays, DoingTyped DEF Working
<1>2. CASE Observe
  <2>1. seen' = version[doing] /\ doing' = doing /\ version' = version
    BY <1>1, <1>2 DEF Observe, Throws, hostVars, workVars
  <2> QED BY <2>1
<1>3. CASE at = "commit" /\ UNCHANGED <<doing, seen>>
  <2>1. subscribed
    BY <1>1, <1>3 DEF PhaseShape
  <2>2. seen = version[doing] \/ Noted(doing)
    BY <1>1, <1>3 DEF SeenShape
  <2>3. ~TakeChange
    BY <1>3 DEF TakeChange
  <2>4. PICK s \in Session : doing = s /\ doing' = s
    BY <1>1, <1>3
  <2>5. CASE Noted(s)
    BY <1>3, <2>1, <2>3, <2>4, <2>5, NotedStays DEF Noted, Pends
  <2>6. CASE ~Noted(s)
    <3>1. seen = version[s]
      BY <2>2, <2>4, <2>6 DEF Noted, Pends
    <3>2. version'[s] # version[s] => Noted(s)'
      BY <2>1, VersionsAreNoted
    <3> QED BY <1>3, <2>4, <3>1, <3>2 DEF Noted, Pends
  <2> QED BY <2>5, <2>6
<1>4. Observe \/ (at = "commit" /\ UNCHANGED <<doing, seen>>)
  BY DEF Awaiting, Next, SessionGrows, SessionGone, Announce, Enqueue, Start, Step, Subscribe, List, Batch,
      BackfillEnds, ReadStates, SkipRecord, ReconcileRecord, BatchDone, Observe, ReplacePartition,
      TakeChange, DeleteReadsState, DeletePartition, ChangesDone, Drain, Drained, GoLive, CallFails,
      Aborted, LostEffect, MarkFailed, MarkLost, TailRejected, Close, CloseEnds, Throws, PassOver,
      WorkOver, hostVars, viewVars, closeVars, passVars, workVars, Resume
<1> QED BY <1>2, <1>3, <1>4

LEMMA BeforeListingStep ==
    Typed /\ PhaseShape /\ GoneShape /\ BeforeListing /\ Next => BeforeListing'
<1> SUFFICES ASSUME Typed, PhaseShape, GoneShape, BeforeListing, Next, ~disposed',
                    phase' \in {"idle", "subscribing"} \/ at' = "list"
             PROVE  /\ \A s \in Session \ gone' : durable'[s] <= version'[s]
                    /\ \A s \in gone' \ missed' : at' = "list" /\ Noted(s)'
  BY DEF BeforeListing
<1>1. ~disposed
  BY DisposedStays
<1>2. /\ phase \in {"idle", "subscribing"} \/ at = "list"
      /\ durable' = durable /\ ~TakeChange /\ at # "mark"
      /\ at = "list" => at' = "list"
      /\ subscribed => at = "list"
  <2>1. /\ phase \in {"idle", "subscribing"} \/ at = "list"
        /\ at # "mark" /\ subscribed => at = "list"
        /\ at \in {"off", "subscribe", "list"}
    <3>1. phase \in {"idle", "subscribing"} \/ at = "list"
      <4>1. (phase' \in {"idle", "subscribing"} => phase \in {"idle", "subscribing"})
            /\ (at' = "list" => at \in {"list", "subscribe"})
        BY <1>1 DEF Next, SessionGrows, SessionGone, Announce, Enqueue, Start, Step, Subscribe, List, Batch,
            BackfillEnds, ReadStates, SkipRecord, ReconcileRecord, BatchDone, Observe,
            ReplacePartition, TakeChange, DeleteReadsState, DeletePartition, ChangesDone, Drain,
            Drained, GoLive, CallFails, Aborted, LostEffect, MarkFailed, MarkLost, TailRejected,
            Close, CloseEnds, Throws, PassOver, WorkOver, hostVars, viewVars, closeVars, passVars,
            workVars, Resume
      <4> QED BY <1>1, <4>1 DEF PhaseShape, Working
    <3> QED BY <1>1, <3>1 DEF PhaseShape
  <2>2. ~TakeChange
    BY <2>1 DEF TakeChange
  <2>3. durable' = durable
    <3>1. durable \in Versions /\ durable' \in Versions
      BY NextFacts, ViewTyped
    <3>2. \A s \in Session : durable'[s] = durable[s]
      BY <2>1, PartitionWrites
    <3> QED BY <3>1, <3>2 DEF Versions
  <2>4. at = "list" => at' = "list"
    <3>1. PhaseShape'
      BY ShapeStep
    <3> QED
      BY <1>1, <3>1 DEF PhaseShape, Working, Next, SessionGrows, SessionGone, Announce, Enqueue, Start, Step, Subscribe, List, Batch,
          BackfillEnds, ReadStates, SkipRecord, ReconcileRecord, BatchDone, Observe,
          ReplacePartition, TakeChange, DeleteReadsState, DeletePartition, ChangesDone, Drain,
          Drained, GoLive, CallFails, Aborted, LostEffect, MarkFailed, MarkLost, TailRejected,
          Close, CloseEnds, Throws, PassOver, WorkOver, hostVars, viewVars, closeVars, passVars,
          workVars, Resume
  <2> QED BY <1>1, <2>1, <2>2, <2>3, <2>4
<1>3. /\ \A s \in Session \ gone : durable[s] <= version[s]
      /\ \A s \in gone \ missed : at = "list" /\ Noted(s)
  BY <1>1, <1>2 DEF BeforeListing
<1>4. version \in Versions /\ durable \in Versions /\ MaxVersion \in Nat /\ gone \subseteq Session
      /\ gone' \subseteq Session
  BY NextFacts, HostTyped DEF Typed, Alpha4TypeOK
<1>5. gone \subseteq gone' /\ \A s \in Session \ gone' : version[s] <= version'[s]
  <2>1. CASE UNCHANGED <<version, gone>>
    BY <1>4, <2>1 DEF Versions
  <2>2. ASSUME NEW s \in Session, SessionGrows(s) \/ SessionGone(s)
        PROVE  gone \subseteq gone' /\ \A t \in Session \ gone' : version[t] <= version'[t]
    BY <1>4, <2>2 DEF SessionGrows, SessionGone, Versions
  <2> QED BY <2>1, <2>2, HostWriters DEF hostVars
<1>6. \A s \in Session \ gone' : durable'[s] <= version'[s]
  <2> SUFFICES ASSUME NEW s \in Session \ gone' PROVE durable[s] <= version'[s]
    BY <1>2
  <2>1. durable[s] \in Int /\ version[s] \in Int /\ version'[s] \in Int
    BY <1>4, HostTyped DEF Versions
  <2>2. durable[s] <= version[s] /\ version[s] <= version'[s]
    BY <1>3, <1>5
  <2> QED BY <2>1, <2>2
<1>7. ASSUME NEW s \in gone' \ missed'
      PROVE  at' = "list" /\ Noted(s)'
  <2>1. CASE subscribed
    <3>1. at = "list" /\ at' = "list" /\ missed' = missed
      BY <1>2, <2>1, VersionsAreNoted
    <3>2. CASE s \in gone
      BY <1>2, <1>3, <1>4, <1>7, <2>1, <3>1, <3>2, NotedStays
    <3>3. CASE s \notin gone
      <4>1. version'[s] # version[s]
        <5>1. s \in Session /\ ~(gone' = gone)
          BY <1>4, <1>7, <3>3
        <5>2. PICK t \in Session : SessionGone(t)
          BY <5>1, HostWriters DEF hostVars, SessionGrows
        <5>3. s = t
          BY <1>7, <3>3, <5>2 DEF SessionGone
        <5> QED BY <1>4, <5>1, <5>2, <5>3 DEF SessionGone, Existing, Versions
      <4> QED BY <1>4, <1>7, <2>1, <3>1, <4>1, VersionsAreNoted
    <3> QED BY <3>2, <3>3
  <2>2. CASE ~subscribed
    <3>1. at # "list"
      BY <1>1, <2>2 DEF PhaseShape, Working
    <3>2. gone \subseteq missed
      BY <1>3, <3>1
    <3>3. gone' \subseteq missed'
      <4>1. CASE UNCHANGED hostVars \/ UNCHANGED <<version, gone, missed>>
        BY <3>2, <4>1 DEF hostVars
      <4>2. ASSUME NEW t \in Session, SessionGrows(t) \/ SessionGone(t)
            PROVE  gone' \subseteq missed'
        BY <2>2, <3>2, <4>2 DEF SessionGrows, SessionGone
      <4> QED BY <4>1, <4>2, HostWriters
    <3> QED BY <1>7, <3>3
  <2> QED BY <2>1, <2>2
<1> QED BY <1>6, <1>7

\* The listing covers what there is, and what is gone is announced.
LEMMA Listed ==
    ASSUME Typed, PhaseShape, GoneShape, BeforeListing, List, ~disposed,
           NEW s \in Session
    PROVE  /\ listed'[s] = version'[s]
           /\ s \notin missed' => Known(s)' \/ ToCome(s)'
<1>1. /\ listed' = version /\ at = "list" /\ next' = next
      /\ UNCHANGED <<version, notices, gone, missed, durable, buffered, pending>>
  BY DEF List, hostVars, viewVars, workVars
<1>2. /\ version \in Versions /\ durable \in Versions /\ MaxVersion \in Nat /\ next = 1
  BY <1>1, NextFacts DEF Typed
<1>3. CASE version[s] > 0
  <2>1. PICK r \in Listings(Existing) : records' = r
    BY DEF List
  <2>2. s \in Existing /\ Existing \in SUBSET Session
    BY <1>3 DEF Existing
  <2>3. r \in Seq(Existing) /\ s \in Range(r)
    BY <2>1, <2>2, ListingAssumption
  <2>4. PICK i \in DOMAIN r : r[i] = s
    BY <2>3 DEF Range
  <2>5. i \in 1..Len(r)
    BY <2>3, <2>4, LenProperties
  <2> QED BY <1>1, <1>2, <2>1, <2>4, <2>5 DEF ToCome
<1>4. CASE ~(version[s] > 0) /\ s \notin missed
  <2>1. version[s] = 0
    BY <1>2, <1>4 DEF Versions
  <2>2. CASE s \notin gone
    <3>1. durable[s] <= version[s] /\ durable[s] \in Nat
      BY <1>1, <1>2, <2>2 DEF BeforeListing, Versions
    <3> QED BY <1>1, <2>1, <3>1 DEF Known
  <2>3. CASE s \in gone
    <3>1. Noted(s)
      BY <1>1, <1>4, <2>3 DEF BeforeListing
    <3> QED BY <1>1, <3>1 DEF Known, Noted, Pends
  <2> QED BY <2>2, <2>3
<1> QED BY <1>1, <1>3, <1>4

LEMMA ComparingStep ==
    /\ Typed /\ PhaseShape /\ GoneShape /\ SeenShape /\ BeforeListing /\ Comparing /\ Next
    => Comparing'
<1> SUFFICES ASSUME Typed, PhaseShape, GoneShape, SeenShape, BeforeListing, Comparing, Next,
                    ~disposed', phase' = "backfill", at' # "list",
                    NEW s \in Session
             PROVE  /\ listed'[s] = version'[s] \/ Noted(s)'
                    /\ at' \in {"record", "observe", "commit"} => states'[s] = durable'[s] \/ Known(s)'
                    /\ s \notin missed' => Known(s)' \/ InHand(s)' \/ ToCome(s)'
  BY DEF Comparing
<1>1. ~disposed /\ at # "mark" /\ at' \notin {"mark", "end"}
  BY Onwards
<1>2. CASE List
  <2>1. listed'[s] = version'[s] /\ (s \notin missed' => Known(s)' \/ ToCome(s)')
    BY <1>1, <1>2, Listed
  <2>2. at' = "batch"
    BY <1>2 DEF List
  <2> QED BY <2>1, <2>2
<1>3. CASE ~List
  <2>1. phase = "backfill" /\ at # "list"
    BY <1>1, <1>3 DEF Next, SessionGrows, SessionGone, Announce, Enqueue, Start, Step, Subscribe, List, Batch,
        BackfillEnds, ReadStates, SkipRecord, ReconcileRecord, BatchDone, Observe, ReplacePartition,
        TakeChange, DeleteReadsState, DeletePartition, ChangesDone, Drain, Drained, GoLive,
        CallFails, Aborted, LostEffect, MarkFailed, MarkLost, TailRejected, Close, CloseEnds,
        Throws, PassOver, WorkOver, hostVars, viewVars, closeVars, passVars, workVars, Resume
  <2>2. subscribed /\ ~TakeChange /\ missed' = missed
    <3>1. subscribed /\ at # "change"
      BY <1>1, <2>1 DEF PhaseShape
    <3> QED BY <3>1, VersionsAreNoted DEF TakeChange
  <2>3. /\ listed[s] = version[s] \/ Noted(s)
        /\ at \in {"record", "observe", "commit"} => states[s] = durable[s] \/ Known(s)
        /\ s \notin missed => Known(s) \/ InHand(s) \/ ToCome(s)
    BY <1>1, <2>1 DEF Comparing
  <2>4. (Noted(s) => Noted(s)') /\ (Known(s) => Known(s)') /\ (InHand(s) => Known(s)' \/ InHand(s)')
    BY <1>1, <2>2, NotedStays, KnownStays, InHandStays
  <2>5. version'[s] # version[s] => Noted(s)'
    BY <2>2, VersionsAreNoted
  <2>5a. at \in {"batch", "states", "record", "observe", "commit"} /\ ~CloseEnds
    BY <1>1, <2>1 DEF PhaseShape, CloseEnds, Typed
  <2>6. /\ records' = records /\ listed' = listed
        /\ next' = next \/ SkipRecord \/ (ReconcileRecord /\ at' = "observe")
        /\ states' = states \/ (states' = durable /\ durable' = durable)
        /\ at' \in {"record", "observe", "commit"} =>
              at \in {"record", "observe", "commit"} \/ (states' = durable /\ durable' = durable)
    BY <1>1, <1>3, <2>1, <2>5a DEF Awaiting, Next, SessionGrows, SessionGone, Announce, Enqueue, Start, Step, Subscribe, List, Batch,
        BackfillEnds, ReadStates, SkipRecord, ReconcileRecord, BatchDone, Observe, ReplacePartition,
        TakeChange, DeleteReadsState, DeletePartition, ChangesDone, Drain, Drained, GoLive,
        CallFails, Aborted, LostEffect, MarkFailed, MarkLost, TailRejected, Close, CloseEnds,
        Throws, PassOver, WorkOver, hostVars, viewVars, closeVars, passVars, workVars, Resume
  <2>7. listed'[s] = version'[s] \/ Noted(s)'
    BY <2>3, <2>4, <2>5, <2>6
  <2>8. at' \in {"record", "observe", "commit"} => states'[s] = durable'[s] \/ Known(s)'
    <3>1. CASE durable'[s] = durable[s]
      BY <2>3, <2>4, <2>6, <3>1
    <3>2. CASE durable'[s] # durable[s]
      <4>1. durable'[s] = version'[s] \/ Noted(s)
        BY <1>1, <3>2, WrittenIsKnown
      <4> QED BY <2>4, <4>1 DEF Known
    <3> QED BY <3>1, <3>2
  <2>9. ASSUME s \notin missed, ToCome(s)
        PROVE  Known(s)' \/ InHand(s)' \/ ToCome(s)'
    <3>1. PICK i \in next..Len(records) : records[i] = s
      BY <2>9 DEF ToCome
    <3>2. next \in Nat /\ Len(records) \in Nat
      BY NextFacts
    <3>3. CASE i \in next'..Len(records)
      BY <2>6, <3>1, <3>3 DEF ToCome
    <3>4. CASE SkipRecord /\ i \notin next'..Len(records)
      <4>1. i = next
        BY <3>1, <3>2, <3>4 DEF SkipRecord
      <4>2. at = "record" /\ states[s] = listed[s]
        BY <3>1, <3>4, <4>1 DEF SkipRecord, CanSkip
      <4>3. Known(s)
        BY <2>3, <4>2 DEF Known
      <4> QED BY <2>4, <4>3
    <3>5. CASE ReconcileRecord /\ at' = "observe" /\ i \notin next'..Len(records)
      <4>1. next' = next + 1 /\ doing' = records[next]
        BY <3>5 DEF ReconcileRecord, Throws
      <4>2. i = next
        BY <3>1, <3>2, <3>5, <4>1
      <4> QED BY <3>1, <3>5, <4>1, <4>2 DEF InHand
    <3> QED BY <2>6, <3>1, <3>3, <3>4, <3>5
  <2> QED BY <2>2, <2>3, <2>4, <2>7, <2>8, <2>9
<1> QED BY <1>2, <1>3

LEMMA CatchingUpStep ==
    Typed /\ PhaseShape /\ GoneShape /\ SeenShape /\ Comparing /\ CatchingUp /\ Next => CatchingUp'
<1> SUFFICES ASSUME Typed, PhaseShape, GoneShape, SeenShape, Comparing, CatchingUp, Next,
                    ~disposed', phase' \in {"catching-up", "live"},
                    NEW s \in Session \ missed'
             PROVE  Known(s)' \/ InHand(s)'
  BY DEF CatchingUp
<1>1. ~disposed /\ at # "mark" /\ at' \notin {"mark", "end"}
  BY Onwards
<1>2. phase \in {"catching-up", "live"} \/ BackfillEnds
  <2>1. at = "ready" => phase = "catching-up"
    BY <1>1 DEF PhaseShape, Working
  <2>2. ~CloseEnds
    BY <1>1 DEF CloseEnds, Typed
  <2> QED BY <1>1, <2>1, <2>2 DEF Next, SessionGrows, SessionGone, Announce, Enqueue, Start, Step, Subscribe, List, Batch,
        BackfillEnds, ReadStates, SkipRecord, ReconcileRecord, BatchDone, Observe, ReplacePartition,
        TakeChange, DeleteReadsState, DeletePartition, ChangesDone, Drain, Drained, GoLive,
        CallFails, Aborted, LostEffect, MarkFailed, MarkLost, TailRejected, Close, CloseEnds,
        Throws, PassOver, WorkOver, hostVars, viewVars, closeVars, passVars, workVars, Resume
<1>3. subscribed
  BY <1>1, <1>2 DEF PhaseShape, BackfillEnds
<1>4. s \in Session /\ s \notin missed
  BY <1>3, VersionsAreNoted
<1>5. Known(s) \/ InHand(s)
  <2>1. CASE phase \in {"catching-up", "live"}
    BY <1>1, <1>4, <2>1 DEF CatchingUp
  <2>2. CASE BackfillEnds
    <3>1. at = "batch" /\ next > Len(records)
      BY <2>2 DEF BackfillEnds
    <3>2. phase = "backfill"
      BY <1>1, <3>1 DEF PhaseShape, Working
    <3>3. ~ToCome(s)
      <4>1. next \in Nat /\ Len(records) \in Nat
        BY NextFacts
      <4> QED BY <3>1, <4>1 DEF ToCome
    <3> QED BY <1>1, <1>4, <3>1, <3>2, <3>3 DEF Comparing
  <2> QED BY <1>2, <2>1, <2>2
<1>6. CASE Known(s)
  BY <1>1, <1>3, <1>4, <1>6, KnownStays DEF InHand
<1>7. CASE InHand(s)
  BY <1>1, <1>3, <1>4, <1>7, InHandStays
<1> QED BY <1>5, <1>6, <1>7

----------------------------------------------------------------------------
(* The invariant                                                           *)

LEMMA InitTyped == Init => Typed /\ PhaseShape
<1> SUFFICES ASSUME Init PROVE Typed /\ PhaseShape
  OBVIOUS
<1>1. MaxVersion \in Nat \ {0} /\ MaxFaults \in Nat
  BY Alpha4Assumption
<1>2. 0..1 \subseteq 0..MaxVersion
  BY <1>1
<1>3. version \in Versions /\ durable \in Versions
  BY <1>2 DEF Init, Versions
<1>4. NoVersion \in Versions /\ NoChange \in Buffer
  BY <1>1 DEF NoVersion, NoChange, Versions, Buffer
<1>5. <<>> \in Seq(Session) /\ <<>> \in Seq(ChangeRecord) /\ Len(<<>>) = 0
  BY EmptySeq
<1>6. next \in 1..Len(records) + 1 /\ upto \in 0..Len(records)
  BY <1>5 DEF Init
<1>7. missed \subseteq gone /\ gone \subseteq Session /\ seen \in 0..MaxVersion /\ faults \in 0..MaxFaults
  BY <1>1 DEF Init
<1>8. notices \in Buffer /\ buffered \in Buffer /\ listed \in Versions /\ states \in Versions
  BY <1>4 DEF Init
<1>9. records \in Seq(Session) /\ pending \in Seq(ChangeRecord)
  BY <1>5 DEF Init
<1>10. Alpha4TypeOK
  <2>1. version \in [Session -> 0..MaxVersion] /\ durable \in [Session -> 0..MaxVersion]
    BY <1>3 DEF Versions
  <2>2. notices \in [Session -> Changes \cup {"none"}] /\ buffered \in [Session -> Changes \cup {"none"}]
        /\ pending \in Seq([session : Session, change : Changes])
    BY <1>8, <1>9 DEF Buffer, ChangeRecord
  <2>3. /\ view \in {"building", "ready", "failed"}
        /\ phase \in {"idle", "subscribing", "backfill", "catching-up", "live", "failed", "disposing", "disposed"}
        /\ disposed \in BOOLEAN /\ subscribed \in BOOLEAN /\ closing \in {"no", "wait", "done"}
        /\ at \in Awaiting \cup {"off", "batch", "record", "drain", "change", "mark", "end"}
        /\ doing \in Session \cup {"none"} /\ phase # "live"
    BY DEF Init
  <2> QED BY <1>6, <1>7, <1>9, <2>1, <2>2, <2>3 DEF Alpha4TypeOK
<1> QED BY <1>8, <1>10 DEF Typed, PhaseShape, Init, Working

LEMMA InitAlpha4Inv == Init => Alpha4Inv
<1> SUFFICES ASSUME Init PROVE Alpha4Inv
  OBVIOUS
<1>1. Typed /\ PhaseShape
  BY InitTyped
<1>2. version \in [Session -> 0..1] /\ durable \in [Session -> 0..1]
      /\ gone = {s \in Session : durable[s] > version[s]} /\ missed = gone
  BY DEF Init
<1>3. \A s \in gone : version[s] = 0
  BY <1>2
<1>4. \A s \in Session \ gone : durable[s] <= version[s]
  BY <1>2
<1>5. GoneShape
  BY <1>3, EmptySeq DEF GoneShape, Init, NoChange
<1>6. BeforeListing
  BY <1>2, <1>4 DEF BeforeListing, Init
<1>7. Comparing /\ CatchingUp /\ SeenShape
  BY DEF Init, Comparing, CatchingUp, SeenShape
<1> QED BY <1>1, <1>5, <1>6, <1>7 DEF Alpha4Inv

LEMMA Alpha4Step == Alpha4Inv /\ [Next]_vars => Alpha4Inv'
<1> SUFFICES ASSUME Alpha4Inv, [Next]_vars PROVE Alpha4Inv'
  OBVIOUS
<1>1. CASE UNCHANGED vars
  <2>1. UNCHANGED <<version, notices, gone, missed, durable, view, phase, disposed, subscribed, closing>>
        /\ UNCHANGED <<at, live_tail, records, listed, states, next, upto, buffered, pending, doing>>
        /\ UNCHANGED <<seen, faults>>
    BY <1>1 DEF vars, hostVars, viewVars, closeVars, passVars, workVars
  <2>2. Typed'
    BY <2>1 DEF Alpha4Inv, Typed, Alpha4TypeOK
  <2>3. PhaseShape' /\ GoneShape'
    BY <2>1 DEF Alpha4Inv, PhaseShape, GoneShape
  <2>4. BeforeListing' /\ CatchingUp' /\ SeenShape'
    BY <2>1 DEF Alpha4Inv, BeforeListing, CatchingUp, SeenShape, Known, Noted, Pends, InHand
  <2>5. Comparing'
    BY <2>1 DEF Alpha4Inv, Comparing, Known, Noted, Pends, InHand, ToCome
  <2> QED BY <2>2, <2>3, <2>4, <2>5 DEF Alpha4Inv
<1>2. CASE Next
  BY <1>2, TypedStep, ShapeStep, GoneStep, BeforeListingStep, ComparingStep, CatchingUpStep, SeenStep
  DEF Alpha4Inv
<1> QED BY <1>1, <1>2

\* The inductive invariant: from the subscription on, no session that differs
\* from its partition is forgotten.
THEOREM Alpha4Invariant == Spec => []Alpha4Inv
<1> QED BY InitAlpha4Inv, Alpha4Step, PTL DEF Spec

\* Types of the source's and the view's state; a live source keeps no change in
\* its buffer (scheduleBuffered).
THEOREM Alpha4TypeCorrect == Spec => []Alpha4TypeOK
<1>1. Alpha4Inv => Alpha4TypeOK
  BY DEF Alpha4Inv, Typed
<1> QED BY <1>1, Alpha4Invariant, PTL

\* A live source with nothing left to do has every session in the view at its
\* present version, whatever changed between subscription, listing and activation.
THEOREM LiveSourceIsCaughtUp == Spec => []LiveIsCaughtUp
<1>1. Alpha4Inv => LiveIsCaughtUp
  <2> SUFFICES ASSUME Alpha4Inv, phase = "live", ~disposed, Quiet, NEW s \in Session \ missed
               PROVE  durable[s] = version[s]
    BY DEF LiveIsCaughtUp
  <2>1. at = "change" /\ pending = <<>> /\ notices = NoChange
    BY DEF Quiet
  <2>2. buffered = NoChange
    BY DEF Alpha4Inv, Typed, Alpha4TypeOK
  <2>3. ~Noted(s) /\ ~InHand(s)
    BY <2>1, <2>2, EmptySeq DEF Noted, Pends, InHand, NoChange
  <2>4. Known(s) \/ InHand(s)
    BY DEF Alpha4Inv, CatchingUp
  <2> QED BY <2>3, <2>4 DEF Known
<1> QED BY <1>1, Alpha4Invariant, PTL

\* A view is activated complete, but for changes that are announced or buffered;
\* also when the call that activates it is reported as failed.
THEOREM ActivationIsComplete == Spec => ActivatedComplete
<1>1. ASSUME Alpha4Inv, [Next]_vars, view # "ready", view' = "ready", ~disposed,
             NEW s \in Session \ missed
      PROVE  durable[s] = version[s] \/ notices[s] # "none" \/ buffered[s] # "none"
  <2>1. Next
    BY <1>1 DEF vars, viewVars
  <2>2. at = "ready"
    BY <1>1, <2>1 DEF Next, SessionGrows, SessionGone, Announce, Enqueue, Start, Step, Subscribe, List, Batch,
        BackfillEnds, ReadStates, SkipRecord, ReconcileRecord, BatchDone, Observe, ReplacePartition,
        TakeChange, DeleteReadsState, DeletePartition, ChangesDone, Drain, Drained, GoLive,
        CallFails, Aborted, LostEffect, MarkFailed, MarkLost, TailRejected, Close, CloseEnds,
        Throws, PassOver, WorkOver, hostVars, viewVars, closeVars, passVars, workVars, Resume
  <2>3. phase = "catching-up" /\ pending = <<>>
    BY <1>1, <2>2 DEF Alpha4Inv, PhaseShape, Working
  <2>4. ~InHand(s) /\ ~Pends(s)
    BY <2>2, <2>3, EmptySeq DEF InHand, Pends
  <2>5. Known(s) \/ InHand(s)
    BY <1>1, <2>3 DEF Alpha4Inv, CatchingUp
  <2> QED BY <2>4, <2>5 DEF Known, Noted
<1>2. Alpha4Inv /\ [Next]_vars =>
        [(view # "ready" /\ view' = "ready" /\ ~disposed) =>
            \A s \in Session \ missed :
                durable[s] = version[s] \/ notices[s] # "none" \/ buffered[s] # "none"]_vars
  BY <1>1
<1> QED BY <1>2, Alpha4Invariant, PTL DEF Spec, ActivatedComplete

\* close() "must not poison the last committed build": a closed source marks the
\* view failed only if the mark was under way.
THEOREM ClosingPoisonsNothing == Spec => ClosePoisonsNothing
<1>1. ASSUME Next, disposed, at # "mark"
      PROVE  at' # "mark" /\ (view' = "failed" => view = "failed")
  BY <1>1 DEF Next, SessionGrows, SessionGone, Announce, Enqueue, Start, Step, Subscribe, List, Batch,
      BackfillEnds, ReadStates, SkipRecord, ReconcileRecord, BatchDone, Observe, ReplacePartition,
      TakeChange, DeleteReadsState, DeletePartition, ChangesDone, Drain, Drained, GoLive, CallFails,
      Aborted, LostEffect, MarkFailed, MarkLost, TailRejected, Close, CloseEnds, Throws, PassOver,
      WorkOver, hostVars, viewVars, closeVars, passVars, workVars, Resume
<1>2. [Next]_vars => [(disposed /\ at # "mark") => (at' # "mark" /\ (view' = "failed" => view = "failed"))]_vars
  BY <1>1
<1> QED BY <1>2, PTL DEF Spec, ClosePoisonsNothing

----------------------------------------------------------------------------
(* The source implements ViewMirror                                        *)

\* A partition is never ahead of a session that is there, nor of what was read
\* to replace it.
Fresh == \A s \in Session \ gone : durable[s] <= version[s]
ReadShape ==
    at = "commit" => /\ seen > 0 /\ seen >= durable[doing]
                     /\ doing \notin gone => seen <= version[doing]

\* Versions of sessions that stay do not shrink.
LEMMA VersionsGrow ==
    ASSUME Typed, Next
    PROVE  gone \subseteq gone' /\ \A s \in Session \ gone' : version[s] <= version'[s]
<1>1. version \in Versions /\ gone \subseteq Session
  BY NextFacts DEF Typed, Alpha4TypeOK
<1>2. CASE UNCHANGED <<version, gone>>
  BY <1>1, <1>2 DEF Versions
<1>3. ASSUME NEW s \in Session, SessionGrows(s) \/ SessionGone(s)
      PROVE  gone \subseteq gone' /\ \A t \in Session \ gone' : version[t] <= version'[t]
  BY <1>1, <1>3 DEF SessionGrows, SessionGone, Versions
<1> QED BY <1>2, <1>3, HostWriters DEF hostVars

LEMMA FreshStep == Typed /\ GoneShape /\ Fresh /\ ReadShape /\ Next => Fresh'
<1> SUFFICES ASSUME Typed, GoneShape, Fresh, ReadShape, Next, NEW s \in Session, s \notin gone'
             PROVE  durable'[s] <= version'[s]
  BY DEF Fresh
<1>1. s \notin gone /\ version[s] <= version'[s]
  BY VersionsGrow
<1>2. durable[s] \in Int /\ version[s] \in Int /\ version'[s] \in Int /\ seen \in Int
  BY NextFacts, HostTyped DEF Versions
<1>3. durable[s] <= version[s]
  BY <1>1 DEF Fresh
<1>4. CASE durable'[s] # durable[s]
  <2>1. doing = s /\ ((at = "commit" /\ durable'[s] = seen) \/ (at = "delete" /\ durable'[s] = 0))
    BY <1>4, PartitionWrites
  <2>2. at # "delete" \/ doing # s
    BY <1>1 DEF GoneShape
  <2> QED BY <1>1, <1>2, <1>4, <2>1, <2>2, PartitionWrites DEF ReadShape
<1> QED BY <1>1, <1>2, <1>3, <1>4

LEMMA ReadStep == Typed /\ GoneShape /\ Fresh /\ ReadShape /\ Next => ReadShape'
<1> SUFFICES ASSUME Typed, GoneShape, Fresh, ReadShape, Next, at' = "commit"
             PROVE  /\ seen' > 0 /\ seen' >= durable'[doing']
                    /\ doing' \notin gone' => seen' <= version'[doing']
  BY DEF ReadShape
<1>1. Observe \/ (at = "commit" /\ UNCHANGED <<doing, seen, durable>>)
  BY DEF Awaiting, Next, SessionGrows, SessionGone, Announce, Enqueue, Start, Step, Subscribe, List, Batch,
      BackfillEnds, ReadStates, SkipRecord, ReconcileRecord, BatchDone, Observe, ReplacePartition,
      TakeChange, DeleteReadsState, DeletePartition, ChangesDone, Drain, Drained, GoLive, CallFails,
      Aborted, LostEffect, MarkFailed, MarkLost, TailRejected, Close, CloseEnds, Throws, PassOver,
      WorkOver, hostVars, viewVars, closeVars, passVars, workVars, Resume
<1>2. doing' \in Session /\ version \in Versions /\ durable \in Versions /\ version' \in Versions
      /\ seen \in 0..MaxVersion /\ MaxVersion \in Nat
  BY DoingTyped, NextFacts, HostTyped DEF Working
<1>3. CASE Observe
  <2>1. /\ version[doing] # 0 /\ seen' = version[doing] /\ doing' = doing
        /\ version' = version /\ gone' = gone /\ durable' = durable
    BY <1>3 DEF Observe, Throws, hostVars, viewVars, workVars
  <2>2. doing \notin gone
    BY <2>1 DEF GoneShape
  <2>3. durable[doing] <= version[doing]
    BY <1>2, <2>1, <2>2 DEF Fresh
  <2> QED BY <1>2, <2>1, <2>3 DEF Versions
<1>4. CASE at = "commit" /\ UNCHANGED <<doing, seen, durable>>
  <2>1. seen > 0 /\ seen >= durable[doing] /\ (doing \notin gone => seen <= version[doing])
    BY <1>4 DEF ReadShape
  <2>2. doing' \notin gone' => doing \notin gone /\ version[doing] <= version'[doing]
    BY <1>2, <1>4, VersionsGrow
  <2> QED BY <1>2, <1>4, <2>1, <2>2 DEF Versions
<1> QED BY <1>1, <1>3, <1>4

MirrorInv == Alpha4Inv /\ Fresh /\ ReadShape

LEMMA MirrorInvariant == Spec => []MirrorInv
<1>1. Init => MirrorInv
  <2>1. Init => Fresh /\ ReadShape
    BY DEF Init, Fresh, ReadShape
  <2> QED BY <2>1, InitAlpha4Inv DEF MirrorInv
<1>2. MirrorInv /\ [Next]_vars => MirrorInv'
  <2> SUFFICES ASSUME MirrorInv, [Next]_vars PROVE MirrorInv'
    OBVIOUS
  <2>1. CASE UNCHANGED vars
    <3>1. UNCHANGED <<version, gone, durable, at, doing, seen>>
      BY <2>1 DEF vars, hostVars, viewVars, workVars
    <3> QED BY <3>1, Alpha4Step DEF MirrorInv, Fresh, ReadShape
  <2>2. CASE Next
    BY <2>2, Alpha4Step, FreshStep, ReadStep DEF MirrorInv, Alpha4Inv
  <2> QED BY <2>1, <2>2
<1> QED BY <1>1, <1>2, PTL DEF Spec

\* What a step of the host or an announcement does to the changes to be taken up.
LEMMA HostMirrored ==
    ASSUME Typed, NEW s \in Session, SessionGrows(s) \/ SessionGone(s)
    PROVE  Told' = Told \/ Told' = Told \cup {s}
<1>1. notices \in Buffer /\ UNCHANGED buffered /\ missed \subseteq Session
  BY NextFacts DEF Typed, Alpha4TypeOK, SessionGrows, SessionGone, workVars
<1>2. CASE subscribed
  <2>1. missed' = missed /\ notices'[s] # "none"
        /\ \A t \in Session : t # s => notices'[t] = notices[t]
    BY <1>1, <1>2 DEF SessionGrows, SessionGone, Announce, Buffer
  <2> QED BY <1>1, <2>1 DEF Told
<1>3. CASE ~subscribed
  <2>1. notices' = notices /\ (missed' = missed \/ missed' = missed \cup {s})
    BY <1>3 DEF SessionGrows, SessionGone, Announce
  <2> QED BY <1>1, <2>1 DEF Told
<1> QED BY <1>2, <1>3

LEMMA ToldShrinks ==
    ASSUME Typed, UNCHANGED <<notices, missed>>, buffered' = buffered \/ buffered' = NoChange
    PROVE  Told' \subseteq Told
BY DEF Told, NoChange

LEMMA EnqueueTakesUp ==
    ASSUME Typed, NEW s \in Session, Enqueue(s)
    PROVE  Told' \subseteq Told
<1>1. notices \in Buffer /\ buffered \in Buffer
  BY NextFacts
<1>2. /\ notices[s] # "none" /\ notices' = [notices EXCEPT ![s] = "none"] /\ missed' = missed
      /\ \/ buffered' = buffered \/ buffered' = NoChange
         \/ buffered' = [buffered EXCEPT ![s] = notices[s]]
  BY DEF Enqueue, ScheduleBuffered
<1>3. \A t \in Session : /\ notices'[t] # "none" => notices[t] # "none"
                         /\ buffered'[t] # "none" => buffered[t] # "none" \/ t = s
  BY <1>1, <1>2 DEF Buffer, NoChange
<1> QED BY <1>2, <1>3 DEF Told

\* When the source activates the view, what is behind is still to be taken up.
LEMMA CompleteWhenReady ==
    ASSUME Alpha4Inv, at = "ready", ~disposed, NEW s \in Session, durable[s] # version[s]
    PROVE  s \in Told
<1>1. phase = "catching-up" /\ pending = <<>>
  BY DEF Alpha4Inv, PhaseShape, Working
<1>2. ~InHand(s) /\ ~Pends(s)
  BY <1>1, EmptySeq DEF InHand, Pends
<1>3. s \notin missed => Known(s) \/ InHand(s)
  BY <1>1 DEF Alpha4Inv, CatchingUp
<1> QED BY <1>2, <1>3 DEF Known, Noted, Told

\* A step that throws ends what was under way.
LEMMA ThrowsStops ==
    ASSUME Typed, at # "mark", Throws
    PROVE  /\ Reading' = Mirror!Nothing /\ Mirror!MayFail
           /\ UNCHANGED <<version, gone, Told, disposed>>
<1>1. at' \in {"mark", "end"} /\ (at' = "mark" => ~disposed)
  BY DEF Throws
<1>2. UNCHANGED <<version, gone, notices, missed, buffered, disposed>>
  BY DEF Throws, hostVars, closeVars
<1>3. Reading' = Mirror!Nothing
  BY <1>1 DEF Reading, Mirror!Nothing
<1>4. Mirror!MayFail
  BY <1>1 DEF Mirror!MayFail
<1> QED BY <1>2, <1>3, <1>4 DEF Told

\* What is read is the session in hand while its partition is being replaced.
LEMMA ReadingIs ==
    ASSUME Typed
    PROVE  /\ at # "commit" => Reading = Mirror!Nothing
           /\ at = "commit" => doing \in Session /\ Reading = [Mirror!Nothing EXCEPT ![doing] = seen]
           /\ \A s \in Session : Mirror!Nothing = [Reading EXCEPT ![s] = 0] \/ (at = "commit" /\ doing # s)
BY DEF Reading, Mirror!Nothing, Typed, Working

\* A call whose effect is lost, or not, before it is reported as failed.
LEMMA LostMirrored ==
    ASSUME MirrorInv, at # "mark", LostEffect, Throws
    PROVE  Mirror!MirrorNext
<1>1. /\ Reading' = Mirror!Nothing /\ Mirror!MayFail
      /\ UNCHANGED <<version, gone, Told, disposed>>
  BY ThrowsStops DEF MirrorInv, Alpha4Inv
<1>2. CASE UNCHANGED viewVars
  BY <1>1, <1>2 DEF Mirror!MirrorNext, Mirror!Stop, Mirror!hostVars, viewVars
<1>3. CASE at = "commit" /\ durable' = [durable EXCEPT ![doing] = seen] /\ view' = view
  <2>1. doing \in Session /\ Reading = [Mirror!Nothing EXCEPT ![doing] = seen]
        /\ Mirror!Nothing = [Reading EXCEPT ![doing] = 0]
    BY <1>3, ReadingIs DEF MirrorInv, Alpha4Inv
  <2>2. Reading[doing] = seen
    BY <2>1 DEF Mirror!Nothing
  <2>3. seen > 0 /\ seen >= durable[doing]
    BY <1>3 DEF MirrorInv, ReadShape
  <2>4. PICK s \in Session : s = doing
    BY <2>1
  <2>5. Mirror!Write(s)
    BY <1>1, <1>3, <2>1, <2>2, <2>3, <2>4 DEF Mirror!Write, Mirror!hostVars
  <2> QED BY <2>5 DEF Mirror!MirrorNext
<1>4. CASE at = "delete" /\ durable' = [durable EXCEPT ![doing] = 0] /\ view' = view
  <2>1. doing \in gone /\ gone \subseteq Session
    BY <1>4 DEF MirrorInv, Alpha4Inv, GoneShape, Typed, Alpha4TypeOK
  <2>2. Reading = Mirror!Nothing
    BY <1>4, ReadingIs DEF MirrorInv, Alpha4Inv
  <2>3. PICK s \in Session : s = doing
    BY <2>1
  <2>4. Mirror!Delete(s)
    BY <1>1, <1>4, <2>1, <2>2, <2>3 DEF Mirror!Delete, Mirror!hostVars
  <2> QED BY <2>4 DEF Mirror!MirrorNext
<1>5. CASE at = "ready" /\ view' = "ready" /\ durable' = durable
  <2>1. disposed \/ \A s \in Session : durable[s] # version[s] => s \in Told
    BY <1>5, CompleteWhenReady DEF MirrorInv
  <2>2. Reading = Mirror!Nothing
    BY <1>5, ReadingIs DEF MirrorInv, Alpha4Inv
  <2>3. Mirror!Activate
    BY <1>1, <1>5, <2>1, <2>2 DEF Mirror!Activate, Mirror!Behind
  <2> QED BY <2>3 DEF Mirror!MirrorNext
<1> QED BY <1>2, <1>3, <1>4, <1>5 DEF LostEffect

\* Steps between the calls leave the view and the host alone.
LEMMA QuietMirrored ==
    ASSUME Typed, UNCHANGED <<version, gone, durable, view, disposed>>, Told' \subseteq Told,
           UNCHANGED Reading, (at' = "mark") = (at = "mark")
    PROVE  Mirror!TakeUp
BY DEF Mirror!TakeUp

LEMMA ReadMirrored ==
    ASSUME MirrorInv, Observe, ~Throws
    PROVE  \E s \in Session : Mirror!Read(s)
<1>1. /\ at = "observe" /\ at' = "commit" /\ ~disposed /\ version[doing] # 0 /\ seen' = version[doing]
      /\ UNCHANGED <<version, gone, notices, missed, buffered, disposed, durable, view, doing>>
  BY DEF Observe, hostVars, viewVars, closeVars
<1>2. doing \in Session /\ version \in Versions /\ MaxVersion \in Nat
  BY <1>1, NextFacts DEF MirrorInv, Alpha4Inv, Typed, Working
<1>3. PICK s \in Session : s = doing
  BY <1>2
<1>4. version[s] > 0
  BY <1>1, <1>2, <1>3 DEF Versions
<1>5. Reading' = [Reading EXCEPT ![s] = version[s]]
  BY <1>1, <1>3 DEF Reading
<1>6. Told' = Told
  BY <1>1 DEF Told
<1>7. Mirror!Read(s)
  BY <1>1, <1>4, <1>5, <1>6 DEF Mirror!Read, Mirror!hostVars
<1> QED BY <1>7

\* The call that replaces or deletes a partition, and the one that activates, succeed.
LEMMA CommitMirrored ==
    ASSUME MirrorInv, ReplacePartition
    PROVE  \E s \in Session : Mirror!Write(s)
<1>1. /\ at = "commit" /\ at' \in {"change", "record"} /\ durable' = [durable EXCEPT ![doing] = seen]
      /\ UNCHANGED <<version, gone, notices, missed, buffered, disposed, view>>
  BY DEF ReplacePartition, Resume, hostVars, closeVars
<1>2. doing \in Session /\ Reading = [Mirror!Nothing EXCEPT ![doing] = seen]
      /\ Mirror!Nothing = [Reading EXCEPT ![doing] = 0]
  BY <1>1, ReadingIs DEF MirrorInv, Alpha4Inv
<1>3. Reading[doing] = seen
  BY <1>2 DEF Mirror!Nothing
<1>4. seen > 0 /\ seen >= durable[doing]
  BY <1>1 DEF MirrorInv, ReadShape
<1>5. Reading' = Mirror!Nothing /\ Told' = Told /\ Mirror!MayFail
  BY <1>1 DEF Reading, Mirror!Nothing, Told, Mirror!MayFail
<1>6. PICK s \in Session : s = doing
  BY <1>2
<1>7. Mirror!Write(s)
  BY <1>1, <1>2, <1>3, <1>4, <1>5, <1>6 DEF Mirror!Write, Mirror!hostVars
<1> QED BY <1>7

LEMMA DeleteMirrored ==
    ASSUME MirrorInv, DeletePartition
    PROVE  \E s \in Session : Mirror!Delete(s)
<1>1. /\ at = "delete" /\ at' \in {"change", "record"} /\ durable' = [durable EXCEPT ![doing] = 0]
      /\ UNCHANGED <<version, gone, notices, missed, buffered, disposed, view>>
  BY DEF DeletePartition, Resume, hostVars, closeVars
<1>2. doing \in gone /\ gone \subseteq Session
  BY <1>1 DEF MirrorInv, Alpha4Inv, GoneShape, Typed, Alpha4TypeOK
<1>3. Reading' = Reading /\ Told' = Told /\ Mirror!MayFail
  BY <1>1 DEF Reading, Told, Mirror!MayFail
<1>4. PICK s \in Session : s = doing
  BY <1>2
<1>5. Mirror!Delete(s)
  BY <1>1, <1>2, <1>3, <1>4 DEF Mirror!Delete, Mirror!hostVars
<1> QED BY <1>5

LEMMA ActivateMirrored ==
    ASSUME MirrorInv, GoLive
    PROVE  Mirror!Activate
<1>1. /\ at = "ready" /\ at' = "change" /\ view' = "ready"
      /\ UNCHANGED <<version, gone, notices, missed, disposed, durable>>
      /\ buffered' = buffered \/ buffered' = NoChange
  BY DEF GoLive, ScheduleBuffered, hostVars, closeVars
<1>2. disposed \/ \A s \in Session : durable[s] # version[s] => s \in Told
  BY <1>1, CompleteWhenReady DEF MirrorInv
<1>3. Told' \subseteq Told
  BY <1>1, ToldShrinks DEF MirrorInv, Alpha4Inv
<1>4. Reading' = Reading /\ Mirror!MayFail
  BY <1>1 DEF Reading, Mirror!MayFail
<1> QED BY <1>1, <1>2, <1>3, <1>4 DEF Mirror!Activate, Mirror!Behind

LEMMA MarkMirrored ==
    ASSUME Typed, MarkFailed \/ MarkLost
    PROVE  Mirror!Mark
<1>1. /\ at = "mark" /\ at' \in {"mark", "end"} /\ (at' = "mark" => ~disposed)
      /\ view' \in {view, "failed"}
      /\ UNCHANGED <<version, gone, notices, missed, buffered, disposed, durable>>
  BY DEF MarkFailed, MarkLost, TailRejected, hostVars, viewVars, closeVars
<1>2. Reading' = Reading /\ Told' = Told
  BY <1>1 DEF Reading, Told
<1> QED BY <1>1, <1>2 DEF Mirror!Mark, Mirror!hostVars

LEMMA CloseMirrored ==
    ASSUME Close
    PROVE  Mirror!Close
<1>1. disposed' = TRUE
      /\ UNCHANGED <<version, gone, notices, missed, buffered, durable, view, at, doing, seen>>
  BY DEF Close, hostVars, viewVars, workVars
<1>2. Reading' = Reading /\ Told' = Told
  BY <1>1 DEF Reading, Told
<1> QED BY <1>1, <1>2 DEF Mirror!Close, Mirror!hostVars

\* Every step of the source, of the daemon or of the host is a step of ViewMirror.
LEMMA MirrorStep ==
    ASSUME MirrorInv, Next
    PROVE  Mirror!MirrorNext
<1>1. Typed
  BY DEF MirrorInv, Alpha4Inv
<1>2. ASSUME NEW s \in Session, SessionGrows(s)
      PROVE  Mirror!Grow(s)
  <2>1. /\ s \notin gone /\ version' = [version EXCEPT ![s] = @ + 1]
        /\ UNCHANGED <<gone, durable, view, disposed, at, doing, seen>>
    BY <1>2 DEF SessionGrows, viewVars, closeVars, workVars
  <2>2. Reading' = Reading /\ (Told' = Told \/ Told' = Told \cup {s})
    BY <1>1, <1>2, <2>1, HostMirrored DEF Reading
  <2> QED BY <2>1, <2>2 DEF Mirror!Grow, Mirror!Tells
<1>3. ASSUME NEW s \in Session, SessionGone(s)
      PROVE  Mirror!Go(s)
  <2>1. /\ version[s] > 0 /\ version' = [version EXCEPT ![s] = 0] /\ gone' = gone \cup {s}
        /\ UNCHANGED <<durable, view, disposed, at, doing, seen>>
    BY <1>3 DEF SessionGone, Existing, viewVars, closeVars, workVars
  <2>2. Reading' = Reading /\ (Told' = Told \/ Told' = Told \cup {s})
    BY <1>1, <1>3, <2>1, HostMirrored DEF Reading
  <2> QED BY <2>1, <2>2 DEF Mirror!Go, Mirror!Tells
<1>4. ASSUME NEW s \in Session, Enqueue(s)
      PROVE  Mirror!TakeUp
  <2>1. UNCHANGED <<version, gone, durable, view, disposed, at, doing, seen>>
    BY <1>4 DEF Enqueue, viewVars, closeVars
  <2>2. UNCHANGED Reading
    BY <2>1 DEF Reading
  <2>3. (at' = "mark") = (at = "mark")
    BY <2>1
  <2>4. Told' \subseteq Told
    BY <1>1, <1>4, EnqueueTakesUp
  <2> QED BY <1>1, <2>1, <2>2, <2>3, <2>4, QuietMirrored
<1>5. CASE (CallFails \/ Aborted)
  <2>1. at # "mark" /\ LostEffect /\ Throws
    BY <1>5 DEF CallFails, Aborted, Awaiting
  <2> QED BY <2>1, LostMirrored
<1>6. CASE at # "mark" /\ Throws /\ UNCHANGED viewVars
  <2>1. LostEffect
    BY <1>6 DEF LostEffect
  <2> QED BY <1>6, <2>1, LostMirrored
<1>7. CASE /\ UNCHANGED <<version, gone, notices, missed, durable, view, disposed>>
           /\ buffered' = buffered \/ buffered' = NoChange
           /\ UNCHANGED <<at, doing, seen>> \/ (at \notin {"commit", "mark"} /\ at' \notin {"commit", "mark"})
  <2>1. UNCHANGED Reading
    BY <1>7 DEF Reading
  <2>2. (at' = "mark") = (at = "mark")
    BY <1>7
  <2>3. Told' \subseteq Told
    BY <1>1, <1>7, ToldShrinks
  <2> QED BY <1>1, <1>7, <2>1, <2>2, <2>3, QuietMirrored DEF Mirror!MirrorNext
<1>8. CASE Start \/ Subscribe \/ List \/ BackfillEnds \/ ReadStates \/ SkipRecord \/ BatchDone
  <2>1. phase = "idle" => at = "off"
    BY <1>1 DEF Typed
  <2> QED BY <1>7, <1>8, <2>1 DEF Start, Subscribe, List, BackfillEnds, ReadStates, SkipRecord, BatchDone,
        hostVars, viewVars, closeVars, workVars
<1>9. CASE (Batch \/ ReconcileRecord \/ TakeChange \/ DeleteReadsState \/ Drained)
  <2>1. at # "mark" /\ UNCHANGED viewVars
    BY <1>9 DEF Batch, ReconcileRecord, TakeChange, DeleteReadsState, Drained
  <2>2. CASE Throws
    BY <1>6, <2>1, <2>2
  <2>3. CASE ~Throws
    BY <1>7, <1>9, <2>3 DEF Batch, ReconcileRecord, TakeChange, DeleteReadsState, Drained, Resume,
        hostVars, viewVars, closeVars, workVars
  <2> QED BY <2>2, <2>3
<1>10. CASE ChangesDone \/ Drain \/ CloseEnds
  BY <1>7, <1>10 DEF ChangesDone, Drain, CloseEnds, hostVars, viewVars, closeVars, workVars
<1>11. CASE Observe
  <2>1. CASE Throws
    BY <1>6, <1>11, <2>1 DEF Observe
  <2>2. CASE ~Throws
    BY <1>11, <2>2, ReadMirrored DEF Mirror!MirrorNext
  <2> QED BY <2>1, <2>2
<1>12. CASE (ReplacePartition \/ DeletePartition \/ GoLive)
  BY <1>12, CommitMirrored, DeleteMirrored, ActivateMirrored DEF Mirror!MirrorNext
<1>13. CASE (MarkFailed \/ MarkLost \/ Close)
  BY <1>1, <1>13, MarkMirrored, CloseMirrored DEF Mirror!MirrorNext
<1>14. CASE \E s \in Session : SessionGrows(s) \/ SessionGone(s) \/ Enqueue(s)
  BY <1>2, <1>3, <1>4, <1>14 DEF Mirror!MirrorNext
<1> QED BY <1>5, <1>8, <1>9, <1>10, <1>11, <1>12, <1>13, <1>14 DEF Next, Step

\* The source implements ViewMirror: whatever it awaits and whenever it is closed, a
\* partition never goes back to an older version and is deleted only when its
\* session is gone, the view turns ready complete, and a closed source neither
\* reads nor begins to fail.
THEOREM SourceMirrorsSessions == Spec => MirrorsSessions
<1>1. Init => Mirror!MirrorInit
  <2> SUFFICES ASSUME Init PROVE Mirror!MirrorInit
    OBVIOUS
  <2>1. /\ version \in [Session -> 0..1] /\ durable \in [Session -> 0..1]
        /\ gone = {s \in Session : durable[s] > version[s]} /\ missed = gone
        /\ at = "off" /\ notices = NoChange /\ buffered = NoChange
        /\ view \in {"building", "ready"} /\ disposed = FALSE
    BY DEF Init
  <2>2. Told = gone /\ Reading = Mirror!Nothing
    BY <2>1 DEF Told, NoChange, Reading, Mirror!Nothing
  <2>3. version \in [Session -> Nat] /\ durable \in [Session -> Nat]
    BY <2>1
  <2>4. /\ gone \subseteq Session /\ \A s \in gone : version[s] = 0
        /\ \A s \in Session \ gone : durable[s] <= version[s]
    BY <2>1
  <2> QED BY <2>1, <2>2, <2>3, <2>4 DEF Mirror!MirrorInit
<1>2. MirrorInv /\ [Next]_vars => [Mirror!MirrorNext]_(Mirror!mirrorVars)
  <2> SUFFICES ASSUME MirrorInv, [Next]_vars PROVE [Mirror!MirrorNext]_(Mirror!mirrorVars)
    OBVIOUS
  <2>1. CASE Next
    BY <2>1, MirrorStep
  <2>2. CASE UNCHANGED vars
    <3>1. UNCHANGED <<version, gone, notices, missed, buffered, durable, view, disposed, at, doing, seen>>
      BY <2>2 DEF vars, hostVars, viewVars, closeVars, workVars
    <3>2. Reading' = Reading /\ Told' = Told /\ (at = "mark")' = (at = "mark")
      BY <3>1 DEF Reading, Told
    <3> QED BY <3>1, <3>2 DEF Mirror!mirrorVars, Mirror!hostVars
  <2> QED BY <2>1, <2>2
<1> QED BY <1>1, <1>2, MirrorInvariant, PTL DEF Spec, MirrorsSessions, Mirror!MirrorSpec
=============================================================================
