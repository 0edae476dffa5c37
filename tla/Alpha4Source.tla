---------------------------- MODULE Alpha4Source ----------------------------
(***************************************************************************)
(* createDshAlpha4ViewSource of dsh-alpha4-view-source.mjs: it reconciles  *)
(* one materialized view of the daemon with the sessions of the DSH host.  *)
(*                                                                         *)
(* start() subscribes, lists, compares the list with the partitions of the *)
(* view, observes and replaces what differs, drains the changes that came  *)
(* meanwhile and activates the view; then changes are reconciled one by    *)
(* one behind `tail'.  Both run in one thread of control, `at' is the call *)
(* it awaits.  close() does not wait for start().                          *)
(*                                                                         *)
(* The version of a session stands for its revision and cursor; version 0  *)
(* is a session, or a partition, that does not exist.                      *)
(***************************************************************************)
EXTENDS Naturals, Sequences, SequencesExt, Functions

CONSTANTS
    Session,
    Enriched,       \* source records carry revision and cursor
    Listings(_),    \* the record sequences a set of sessions may be listed as
    BatchSize, MaxPartitions,
    MaxVersion,     \* bound: versions of a session
    MaxChanges,     \* bound: changes of sessions
    MaxFaults       \* bound: calls that fail

ASSUME Alpha4Assumption ==
    /\ IsFiniteSet(Session) /\ Enriched \in BOOLEAN
    /\ BatchSize \in Nat \ {0} /\ MaxPartitions \in Nat \ {0}
    /\ MaxVersion \in Nat \ {0} /\ MaxChanges \in Nat /\ MaxFaults \in Nat

\* The host lists the sessions there are, each at least once and no others.
ASSUME ListingAssumption ==
    \A S \in SUBSET Session : \A r \in Listings(S) : r \in Seq(S) /\ S \subseteq Range(r)

VARIABLES
    version, notices,   \* DSH: versions of the sessions, changes not announced yet
    gone, missed,       \* sessions disposed of; those disposed of while nobody was subscribed
    changes,            \* changes so far
    durable, view,      \* daemon: partition versions and the state of the view
    phase, disposed, subscribed, closing,
    at,                 \* the call that is awaited
    live_tail,          \* FALSE: start() runs; TRUE: the jobs behind `tail'
    records, listed,    \* the listing and the versions in it
    states, next, upto, \* the partition states of the batch; the record in hand; its last
    buffered, pending,  \* session -> its change, or none; changes taken up, in order
    doing, seen,        \* the session in hand and its observed version
    faults

hostVars == <<version, notices, gone, missed, changes>>
viewVars == <<durable, view>>
closeVars == <<disposed, subscribed, closing>>
passVars == <<records, listed, states, next, upto>>
workVars == <<buffered, pending, doing, seen>>
vars == <<hostVars, viewVars, phase, closeVars, at, live_tail, passVars, workVars, faults>>

Changes == {"upsert", "delete"}
NoChange == [s \in Session |-> "none"]
NoVersion == [s \in Session |-> 0]
Awaiting == {"subscribe", "list", "states", "observe", "commit", "delete_state", "delete", "ready"}

\* The view is what earlier sources left: behind, equal, or with partitions of
\* sessions that are gone.
Init ==
    /\ version \in [Session -> 0..1] /\ durable \in [Session -> 0..1]
    /\ view \in {"building", "ready"}
    /\ gone = {s \in Session : durable[s] > version[s]} /\ missed = gone /\ changes = 0
    /\ notices = NoChange
    /\ phase = "idle" /\ disposed = FALSE /\ subscribed = FALSE /\ closing = "no"
    /\ at = "off" /\ live_tail = FALSE
    /\ records = <<>> /\ listed = NoVersion /\ states = NoVersion /\ next = 1 /\ upto = 0
    /\ buffered = NoChange /\ pending = <<>> /\ doing = "none" /\ seen = 0 /\ faults = 0

Existing == {s \in Session : version[s] > 0}
Fault == faults < MaxFaults /\ faults' = faults + 1

----------------------------------------------------------------------------
(* The DSH host                                                            *)

Announce(s, change) == notices' = IF subscribed THEN [notices EXCEPT ![s] = change] ELSE notices

Changed == changes < MaxChanges /\ changes' = changes + 1

SessionGrows(s) ==
    /\ Changed /\ s \notin gone /\ version[s] < MaxVersion
    /\ version' = [version EXCEPT ![s] = @ + 1]
    /\ Announce(s, "upsert")
    /\ UNCHANGED <<gone, missed, viewVars, phase, closeVars, at, live_tail, passVars, workVars, faults>>

SessionGone(s) ==
    /\ Changed /\ s \in Existing
    /\ version' = [version EXCEPT ![s] = 0] /\ gone' = gone \cup {s}
    /\ Announce(s, "delete")
    /\ missed' = IF subscribed THEN missed ELSE missed \cup {s}
    /\ UNCHANGED <<viewVars, phase, closeVars, at, live_tail, passVars, workVars, faults>>

----------------------------------------------------------------------------
(* enqueue and scheduleBuffered                                            *)

\* The buffered changes, in some order.
Ordered(b) ==
    SetToSeqs({[session |-> s, change |-> b[s]] : s \in {t \in Session : b[t] # "none"}})

\* Mutant: changes are buffered and nobody is told.
ScheduleLater(b) == buffered' = b /\ pending' = pending

\* scheduleBuffered
ScheduleBuffered(b) ==
    IF disposed \/ phase' # "live"
    THEN buffered' = b /\ pending' = pending
    ELSE buffered' = NoChange /\ \E q \in Ordered(b) : pending' = pending \o q

Enqueue(s) ==
    /\ notices[s] # "none" /\ notices' = [notices EXCEPT ![s] = "none"]
    /\ phase' = phase
    /\ IF disposed \/ ~ subscribed
       THEN UNCHANGED <<buffered, pending>>
       ELSE ScheduleBuffered([buffered EXCEPT ![s] = notices[s]])
    /\ UNCHANGED <<version, gone, missed, changes, viewVars, closeVars, at, live_tail, passVars, doing, seen, faults>>

----------------------------------------------------------------------------
(* start: subscribe, list, compare                                         *)

Start ==
    /\ phase = "idle"
    /\ phase' = "subscribing" /\ at' = "subscribe"
    /\ UNCHANGED <<hostVars, viewVars, closeVars, live_tail, passVars, workVars, faults>>

Subscribe ==
    /\ at = "subscribe"
    /\ subscribed' = TRUE /\ phase' = "backfill" /\ at' = "list"
    /\ UNCHANGED <<hostVars, viewVars, disposed, closing, live_tail, passVars, workVars, faults>>

\* validateSourceRecords; Set.prototype.add returns the set, so the test for a
\* repeated sessionId never fails.
ValidSourceRecords(r) == Len(r) <= MaxPartitions

List ==
    /\ at = "list"
    /\ \E r \in Listings(Existing) : ValidSourceRecords(r) /\ records' = r
    /\ listed' = version /\ at' = "batch"
    /\ UNCHANGED <<hostVars, viewVars, phase, closeVars, live_tail, states, next, upto, workVars, faults>>

\* Locals that are not read again are forgotten.
PassOver == records' = <<>> /\ listed' = NoVersion /\ states' = NoVersion /\ next' = 1 /\ upto' = 0
WorkOver == doing' = "none" /\ seen' = 0

BatchEnd == IF next + BatchSize - 1 < Len(records) THEN next + BatchSize - 1 ELSE Len(records)

\* Mutant: every error marks the view, that of a closed source too.
ThrowsAlways ==
    /\ at' = "mark" /\ UNCHANGED phase
    /\ PassOver /\ WorkOver
    /\ UNCHANGED <<hostVars, closeVars, live_tail, buffered, pending>>

\* start's catch block, or fail for a job of the tail.
Throws ==
    /\ IF disposed THEN at' = "end" /\ UNCHANGED phase
                   ELSE at' = "mark" /\ phase' = "failed"
    /\ PassOver /\ WorkOver
    /\ UNCHANGED <<hostVars, closeVars, live_tail, buffered, pending>>

\* viewPartitionState refuses a batch that names a partition twice.
Batch ==
    /\ at = "batch" /\ next <= Len(records)
    /\ IF disposed \/ ~ IsInjective(SubSeq(records, next, BatchEnd))
       THEN Throws
       ELSE /\ at' = "states" /\ upto' = BatchEnd
            /\ UNCHANGED <<hostVars, phase, closeVars, live_tail, records, listed, states, next, workVars>>
    /\ UNCHANGED <<viewVars, faults>>

BackfillEnds ==
    /\ at = "batch" /\ next > Len(records)
    /\ phase' = "catching-up" /\ at' = "drain" /\ PassOver
    /\ UNCHANGED <<hostVars, viewVars, closeVars, live_tail, workVars, faults>>

ReadStates ==
    /\ at = "states"
    /\ states' = durable /\ at' = "record"
    /\ UNCHANGED <<hostVars, viewVars, phase, closeVars, live_tail, records, listed, next, upto, workVars, faults>>

\* Mutant: a partition of the session is enough.
SkipExisting(s) == states[s] > 0

CanSkip(s) == Enriched /\ states[s] > 0 /\ states[s] = listed[s]

SkipRecord ==
    /\ at = "record" /\ next <= upto /\ CanSkip(records[next])
    /\ next' = next + 1
    /\ UNCHANGED <<hostVars, viewVars, phase, closeVars, at, live_tail, records, listed, states, upto,
                   workVars, faults>>

ReconcileRecord ==
    /\ at = "record" /\ next <= upto /\ ~ CanSkip(records[next])
    /\ IF disposed
       THEN Throws
       ELSE /\ at' = "observe" /\ doing' = records[next] /\ next' = next + 1
            /\ UNCHANGED <<hostVars, phase, closeVars, live_tail, records, listed, states, upto,
                           buffered, pending, seen>>
    /\ UNCHANGED <<viewVars, faults>>

BatchDone ==
    /\ at = "record" /\ next > upto
    /\ at' = "batch"
    /\ UNCHANGED <<hostVars, viewVars, phase, closeVars, live_tail, passVars, workVars, faults>>

----------------------------------------------------------------------------
(* replaceObserved and reconcileChange                                     *)

\* Where the thread goes on after a reconciled session: its records are
\* forgotten when the backfill ends.
Resume == at' = IF records = <<>> THEN "change" ELSE "record"

\* The observation of a session that is gone fails.
Observe ==
    /\ at = "observe"
    /\ IF disposed \/ version[doing] = 0
       THEN Throws
       ELSE /\ at' = "commit" /\ seen' = version[doing]
            /\ UNCHANGED <<hostVars, phase, closeVars, live_tail, passVars, buffered, pending, doing>>
    /\ UNCHANGED <<viewVars, faults>>

ReplacePartition ==
    /\ at = "commit"
    /\ durable' = [durable EXCEPT ![doing] = seen] /\ Resume /\ WorkOver
    /\ UNCHANGED <<hostVars, view, phase, closeVars, live_tail, passVars, buffered, pending, faults>>

TakeChange ==
    /\ at = "change" /\ pending # <<>>
    /\ IF disposed
       THEN Throws
       ELSE /\ doing' = Head(pending).session /\ pending' = Tail(pending)
            /\ at' = IF Head(pending).change = "delete" THEN "delete_state" ELSE "observe"
            /\ UNCHANGED <<hostVars, phase, closeVars, live_tail, passVars, buffered, seen>>
    /\ UNCHANGED <<viewVars, faults>>

DeleteReadsState ==
    /\ at = "delete_state"
    /\ IF durable[doing] = 0
       THEN Resume /\ WorkOver /\ UNCHANGED <<hostVars, phase, closeVars, live_tail, passVars, buffered, pending>>
       ELSE IF disposed
       THEN Throws
       ELSE /\ at' = "delete" /\ seen' = durable[doing]
            /\ UNCHANGED <<hostVars, phase, closeVars, live_tail, passVars, buffered, pending, doing>>
    /\ UNCHANGED <<viewVars, faults>>

DeletePartition ==
    /\ at = "delete" /\ durable[doing] = seen
    /\ durable' = [durable EXCEPT ![doing] = 0] /\ Resume /\ WorkOver
    /\ UNCHANGED <<hostVars, view, phase, closeVars, live_tail, passVars, buffered, pending, faults>>

----------------------------------------------------------------------------
(* The drain and the activation                                            *)

ChangesDone ==
    /\ at = "change" /\ pending = <<>> /\ ~ live_tail
    /\ at' = "drain"
    /\ UNCHANGED <<hostVars, viewVars, phase, closeVars, live_tail, passVars, workVars, faults>>

Drain ==
    /\ at = "drain" /\ buffered # NoChange
    /\ at' = "change" /\ buffered' = NoChange /\ \E q \in Ordered(buffered) : pending' = q
    /\ UNCHANGED <<hostVars, viewVars, phase, closeVars, live_tail, passVars, doing, seen, faults>>

Drained ==
    /\ at = "drain" /\ buffered = NoChange
    /\ IF disposed THEN Throws
       ELSE at' = "ready" /\ UNCHANGED <<hostVars, phase, closeVars, live_tail, passVars, workVars>>
    /\ UNCHANGED <<viewVars, faults>>

\* The phase turns live whether or not the source was closed during the call.
GoLive ==
    /\ at = "ready"
    /\ view' = "ready" /\ phase' = "live" /\ at' = "change" /\ live_tail' = TRUE
    /\ ScheduleBuffered(buffered)
    /\ UNCHANGED <<hostVars, durable, closeVars, passVars, doing, seen, faults>>

----------------------------------------------------------------------------
(* Failures                                                                *)

\* What a call that rejects may have done nevertheless.
LostEffect ==
    \/ UNCHANGED viewVars
    \/ at = "commit" /\ durable' = [durable EXCEPT ![doing] = seen] /\ view' = view
    \/ at = "delete" /\ durable[doing] = seen /\ durable' = [durable EXCEPT ![doing] = 0] /\ view' = view
    \/ at = "ready" /\ view' = "ready" /\ durable' = durable

CallFails == at \in Awaiting /\ Fault /\ LostEffect /\ Throws
Aborted == at \in Awaiting \ {"subscribe"} /\ disposed /\ LostEffect /\ Throws /\ UNCHANGED faults

\* A rejected tail hands its error to the next job, which marks the view again.
TailRejected ==
    IF live_tail /\ ~ disposed /\ pending # <<>>
    THEN at' = "mark" /\ pending' = Tail(pending)
    ELSE at' = "end" /\ pending' = <<>>

MarkFailed ==
    /\ at = "mark"
    /\ view' = "failed" /\ TailRejected
    /\ UNCHANGED <<hostVars, durable, phase, closeVars, live_tail, passVars, buffered, doing, seen, faults>>

\* The error of markFailed is swallowed.
MarkLost ==
    /\ at = "mark" /\ Fault
    /\ TailRejected
    /\ UNCHANGED <<hostVars, viewVars, phase, closeVars, live_tail, passVars, buffered, doing, seen>>

----------------------------------------------------------------------------
(* close                                                                   *)

Close ==
    /\ ~ disposed /\ disposed' = TRUE
    /\ phase' = "disposing" /\ closing' = "wait"
    /\ subscribed' = FALSE
    /\ UNCHANGED <<hostVars, viewVars, at, live_tail, passVars, workVars, faults>>

TailSettled == ~ live_tail \/ at = "end" \/ (at = "change" /\ pending = <<>>)

CloseEnds ==
    /\ closing = "wait" /\ TailSettled
    /\ closing' = "done" /\ phase' = "disposed" /\ buffered' = NoChange
    /\ UNCHANGED <<hostVars, viewVars, disposed, subscribed, at, live_tail, passVars, pending, doing,
                   seen, faults>>

----------------------------------------------------------------------------

Step ==
    \/ Subscribe \/ List \/ Batch \/ BackfillEnds \/ ReadStates \/ SkipRecord \/ ReconcileRecord \/ BatchDone
    \/ Observe \/ ReplacePartition \/ TakeChange \/ DeleteReadsState \/ DeletePartition
    \/ ChangesDone \/ Drain \/ Drained \/ GoLive \/ MarkFailed

Next ==
    \/ \E s \in Session : SessionGrows(s) \/ SessionGone(s) \/ Enqueue(s)
    \/ Start \/ Step \/ CallFails \/ Aborted \/ MarkLost
    \/ Close \/ CloseEnds

Spec == Init /\ [][Next]_vars

\* Calls of the daemon and of the host return, changes are announced.
LiveSpec ==
    /\ Spec /\ WF_vars(Step) /\ WF_vars(CloseEnds)
    /\ \A s \in Session : WF_vars(Enqueue(s))

----------------------------------------------------------------------------
(* Properties                                                              *)

\* Types of the source's and the view's state; a live source keeps no change
\* in its buffer.
Alpha4TypeOK ==
    /\ version \in [Session -> 0..MaxVersion] /\ durable \in [Session -> 0..MaxVersion]
    /\ notices \in [Session -> Changes \cup {"none"}] /\ buffered \in [Session -> Changes \cup {"none"}]
    /\ missed \subseteq gone /\ gone \subseteq Session /\ view \in {"building", "ready", "failed"}
    /\ phase \in {"idle", "subscribing", "backfill", "catching-up", "live", "failed", "disposing", "disposed"}
    /\ disposed \in BOOLEAN /\ subscribed \in BOOLEAN /\ closing \in {"no", "wait", "done"}
    /\ at \in Awaiting \cup {"off", "batch", "record", "drain", "change", "mark", "end"}
    /\ records \in Seq(Session) /\ next \in 1..Len(records) + 1 /\ upto \in 0..Len(records)
    /\ pending \in Seq([session : Session, change : Changes])
    /\ doing \in Session \cup {"none"} /\ seen \in 0..MaxVersion /\ faults \in 0..MaxFaults
    /\ (phase = "live" /\ ~ disposed) => buffered = NoChange

Quiet == at = "change" /\ pending = <<>> /\ notices = NoChange

\* A live source with nothing left to do has every session in the view at its
\* present version and no partition of a session disposed of since it subscribed,
\* whatever changed between the subscription, the listing and the activation.
LiveIsCaughtUp ==
    (phase = "live" /\ ~ disposed /\ Quiet) =>
        \A s \in Session \ missed : durable[s] = version[s]

\* close() "must not poison the last committed build": after it no step marks the
\* view failed, except a mark that was under way.
ClosePoisonsNothing ==
    [][(disposed /\ at # "mark") => (at' # "mark" /\ (view' = "failed" => view = "failed"))]_vars

\* A view that turned ready from another state is complete but for changes that
\* are announced or buffered.
ActivatedComplete ==
    [][(view # "ready" /\ view' = "ready" /\ ~ disposed) =>
          \A s \in Session \ missed :
              durable[s] = version[s] \/ notices[s] # "none" \/ buffered[s] # "none"]_vars

\* Sessions whose change is announced or buffered, or was missed before the subscription.
Told == {s \in Session : notices[s] # "none" \/ buffered[s] # "none"} \cup missed

\* What was observed and not written yet.
Reading == [s \in Session |-> IF at = "commit" /\ doing = s THEN seen ELSE 0]

Mirror == INSTANCE ViewMirror WITH
    told <- Told, partition <- durable, reading <- Reading, failing <- at = "mark", closed <- disposed

\* The source keeps what ViewMirror promises: a partition never goes back to an
\* older version, is deleted only when its session is gone, the view turns ready
\* complete, and a closed source neither reads nor begins to fail, whatever it
\* awaits when it is closed.
MirrorsSessions == Mirror!MirrorSpec

\* start() settles: the source becomes live, fails, or is closed.
StartSettles == (at # "off") ~> (phase \in {"live", "failed"} \/ disposed)

\* A live source catches up or stops being live.
LiveCatchesUp == (phase = "live") ~> (phase # "live" \/ disposed \/ Quiet)

\* "source records contain duplicate sessionId": a listing that passed
\* validateSourceRecords names every session once.
AcceptedRecordsUnique == IsInjective(records)

\* A closed source stays disposed, also when it was closed during its startup.
ClosedStaysDisposed == closing = "done" => phase = "disposed"

\* A closed source has given its subscription back.
ClosedIsUnsubscribed == closing = "done" => ~ subscribed

\* "marks the view failed on startup/reconciliation failure": a source that
\* failed does not leave a view that is ready.
FailsClosed == (phase = "failed" /\ at # "mark") => view # "ready"
=============================================================================
