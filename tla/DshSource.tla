----------------------------- MODULE DshSource ------------------------------
(***************************************************************************)
(* The DSH-to-daemon feed: DshSessionIndexSource of                        *)
(* session-index-dsh-source.mjs, the session logs and notifications of the *)
(* DSH host it reads, and the daemon's writer in front of the store.       *)
(*                                                                         *)
(* The source runs one task at a time (its #tail).  A step is what happens *)
(* between two awaits, so everything read before an await is in the state  *)
(* and may be stale after it: the listing, the durable cursors, the length *)
(* of a log, the watermark.  A source that failed is closed and replaced   *)
(* by a new one; a batch it had sent may still reach the writer later.     *)
(***************************************************************************)
EXTENDS SessionStore

CONSTANTS
    Indexable,      \* sessions with a usable workspace; the others are skipped
    WorkspaceOf, ContentOf, RevisionOf,  \* projection of the event at <<session, seq>>
    KeyOf(_, _), FingerprintOf(_),  \* the two digests of a batch
    None,           \* no session in hand, no request under way
    MaxEvents,      \* bound: events appended to one session
    MaxTroubles,    \* bound: failed calls, disposals and closes
    MaxBuffered,    \* maxBufferedSessions
    MaxChunk        \* maxBatchDocuments

ASSUME SourceAssumption ==
    /\ Indexable \subseteq Session
    /\ MaxEvents \in Nat /\ MaxTroubles \in Nat
    /\ MaxBuffered \in Nat \ {0} /\ MaxChunk \in 1..MaxBatchDocuments

VARIABLES
    log_length, \* DSH: events in the log of each session
    notices,    \* DSH: notifications not delivered yet
    troubles,   \* failed calls, disposals and closes so far
    orphans,    \* batches whose caller is gone, still on their way to the writer
    phase,      \* #state.phase
    paused,     \* #paused
    subscribed, \* a subscription is installed
    buffered,   \* #buffered
    disposed,   \* #disposed
    watermark,  \* #state.watermark
    task,       \* the task at the head of #tail; "drain" is #drainScheduled
    step,       \* where that task stands
    todo,       \* sessions left in the current pass
    durable,    \* cursors read at the beginning of the pass
    doing,      \* the session being synchronised and what is left of its suffix
    request     \* the batch whose receipt the source awaits

dshVars == <<log_length, notices>>
outside == <<storeVars, dshVars, troubles, orphans>>
status == <<phase, paused, subscribed>>
inbox == <<buffered, disposed>>
pass == <<todo, durable, doing>>
taskVars == <<task, step, pass, request>>
sourceVars == <<status, inbox, watermark, taskVars>>
vars == <<outside, sourceVars>>

NoSession == [session |-> None, from |-> 0, to |-> 0]
NoCursors == [s \in {} |-> 0]

Init ==
    /\ StoreInit
    /\ log_length = [s \in Session |-> 0] /\ notices = {}
    /\ troubles = 0 /\ orphans = {}
    /\ phase = "idle" /\ paused = FALSE /\ subscribed = FALSE
    /\ buffered = {} /\ disposed = {} /\ watermark = 0
    /\ task = "none" /\ step = "idle"
    /\ todo = {} /\ durable = NoCursors /\ doing = NoSession /\ request = None

----------------------------------------------------------------------------
(* projectDshSessionLog and the batches #commit builds from it.            *)

Projected(s, n) == [session |-> s, seq |-> n, workspace |-> WorkspaceOf[s],
                    content |-> ContentOf[s], revision |-> RevisionOf[s]]

BatchOf(s, from, to, w) ==
    LET docs == {Projected(s, n) : n \in from..to - 1} IN
    [key |-> KeyOf(w, docs), fingerprint |-> FingerprintOf(docs),
     watermark |-> w, documents |-> docs]

\* The chunks of a log are among the batches the store is checked with.
ASSUME ProjectionAssumption ==
    \A s \in Session, from, to \in 0..MaxEvents, w \in 1..MaxInteger :
        (from < to /\ to - from <= MaxChunk) => BatchOf(s, from, to, w) \in Batches

----------------------------------------------------------------------------
(* The DSH host: an event is in the log before its notification arrives.   *)

AppendEvent(s) ==
    /\ log_length[s] < MaxEvents
    /\ log_length' = [log_length EXCEPT ![s] = @ + 1]
    /\ notices' = notices \cup {s}
    /\ UNCHANGED <<storeVars, troubles, orphans, sourceVars>>

----------------------------------------------------------------------------
(* Tasks, failures and replacement.                                        *)

TaskIs(t, at) == task' = t /\ step' = at
TaskOver == TaskIs("none", "idle")
PassForgotten == todo' = {} /\ durable' = NoCursors /\ doing' = NoSession
Trouble == troubles < MaxTroubles /\ troubles' = troubles + 1

\* #recordFailure; the subscription is removed.
RecordFailure == paused' = TRUE /\ phase' = "error" /\ subscribed' = FALSE

\* A task throws: #enqueue records the failure unless the source is paused already.
TaskThrows ==
    /\ TaskOver /\ PassForgotten /\ request' = None
    /\ IF paused THEN UNCHANGED status ELSE RecordFailure
    /\ UNCHANGED <<inbox, watermark>>

\* #assertActive
AssertActive == ~ paused

\* The points at which it stops the task of a source that failed or is closing.
StopsAtAssert ==
    /\ ~ AssertActive
    /\ \/ step \in {"begin", "commit"}
       \/ step = "next" /\ todo # {}
       \/ step = "drain" /\ buffered # {}
       \/ step = "drained" /\ task = "corpus"
    /\ TaskThrows
    /\ UNCHANGED outside

\* An awaited call to DSH or to the daemon fails.  The batch it was about may be
\* lost, or it may have been delivered and be applied later.
CallFails ==
    /\ step \in {"subscribe", "list", "states", "read", "await"}
    /\ Trouble
    /\ TaskThrows
    /\ orphans' \in IF step = "await" THEN {orphans, orphans \cup {request}} ELSE {orphans}
    /\ UNCHANGED <<storeVars, dshVars>>

\* close, called by the runtime for a source that went live: the task that runs
\* goes on to its next assertion.
Close ==
    /\ phase = "live" /\ Trouble
    /\ paused' = TRUE /\ phase' = "closing" /\ subscribed' = FALSE
    /\ UNCHANGED <<storeVars, dshVars, orphans, inbox, watermark, taskVars>>

\* The runtime waits for the task of a source that failed or was closed, closes the
\* source and starts another.
Restart ==
    /\ paused /\ task = "none"
    /\ phase' = "idle" /\ paused' = FALSE /\ subscribed' = FALSE
    /\ buffered' = {} /\ disposed' = {} /\ watermark' = 0
    /\ TaskOver /\ PassForgotten /\ request' = None
    /\ UNCHANGED outside

----------------------------------------------------------------------------
(* start and #runCorpusSync                                                *)

Start ==
    /\ phase = "idle"
    /\ phase' = "subscribing"
    /\ TaskIs("corpus", "subscribe")
    /\ UNCHANGED <<outside, paused, subscribed, inbox, watermark, pass, request>>

\* The subscription is installed before the corpus is listed.
Subscribe ==
    /\ step = "subscribe"
    /\ subscribed' = TRUE
    /\ TaskIs("corpus", "begin")
    /\ UNCHANGED <<outside, phase, paused, inbox, watermark, pass, request>>

BeginCorpus ==
    /\ step = "begin" /\ AssertActive
    /\ phase' = "listing"
    /\ TaskIs("corpus", "list")
    /\ UNCHANGED <<outside, paused, subscribed, inbox, watermark, pass, request>>

\* The listing resolves.  The phase is assigned whatever happened during the call.
ListSessions ==
    /\ step = "list"
    /\ todo' = {s \in Session : log_length[s] > 0}
    /\ disposed' = disposed \ todo'
    /\ phase' = "scanning"
    /\ TaskIs("corpus", "states")
    /\ UNCHANGED <<outside, paused, subscribed, buffered, watermark, durable, doing, request>>

\* #observeWatermark: a daemon that takes the watermark back fails the source.
Backwards(w) == w < watermark

\* #readSourceStates, answered by the writer in its turn.
ReadSourceStates ==
    LET answer == SourceState(todo) IN
    /\ step = "states"
    /\ IF Backwards(answer.watermark)
       THEN TaskThrows
       ELSE /\ watermark' = answer.watermark
            /\ durable' = [s \in todo |-> IF s \in DOMAIN answer.sessions
                                         THEN answer.sessions[s].next_seq ELSE 0]
            /\ TaskIs(task, "next")
            /\ UNCHANGED <<status, inbox, todo, doing, request>>
    /\ UNCHANGED outside

NextSession(s) ==
    /\ step = "next" /\ s \in todo /\ AssertActive
    /\ todo' = todo \ {s}
    /\ doing' = [session |-> s, from |-> durable[s], to |-> durable[s]]
    /\ TaskIs(task, "read")
    /\ UNCHANGED <<outside, status, inbox, watermark, durable, request>>

PassOver ==
    /\ step = "next" /\ todo = {}
    /\ phase' = IF task = "corpus" THEN "draining" ELSE phase
    /\ TaskIs(task, "drain") /\ PassForgotten
    /\ UNCHANGED <<outside, paused, subscribed, inbox, watermark, request>>

----------------------------------------------------------------------------
(* #syncSession and #commit                                                *)

\* Mutant: the projection makes one document too many.
ProjectedBeyond(s) == IF s \in Indexable THEN log_length[s] + 1 ELSE 0

\* The documents projectDshSessionLog makes of the log: one per event, none when the
\* session has no usable workspace.
ProjectedLength(s) == IF s \in Indexable THEN log_length[s] ELSE 0

\* The log is read.  One that is shorter than the durable cursor fails the source; a
\* session at its cursor has nothing to commit.
ReadSession ==
    LET to == ProjectedLength(doing.session) IN
    /\ step = "read"
    /\ IF to < doing.from
       THEN TaskThrows
       ELSE /\ doing' = [doing EXCEPT !.to = to]
            /\ TaskIs(task, IF doing.from < to THEN "commit" ELSE "next")
            /\ UNCHANGED <<status, inbox, watermark, todo, durable, request>>
    /\ UNCHANGED outside

\* Mutant: the watermark is taken before the daemon has answered.
SendBatchEagerly ==
    /\ step = "commit" /\ AssertActive
    /\ watermark + 1 <= MaxInteger
    /\ \E n \in 1..MaxChunk :
          /\ doing.from + n <= doing.to
          /\ request' = BatchOf(doing.session, doing.from, doing.from + n, watermark + 1)
          /\ doing' = [doing EXCEPT !.from = @ + n]
    /\ watermark' = watermark + 1
    /\ TaskIs(task, "await")
    /\ UNCHANGED <<outside, status, inbox, todo, durable>>

\* The next chunk of the suffix; its length depends on the size of the documents.
SendBatch ==
    /\ step = "commit" /\ AssertActive
    /\ watermark + 1 <= MaxInteger
    /\ \E n \in 1..MaxChunk :
          /\ doing.from + n <= doing.to
          /\ request' = BatchOf(doing.session, doing.from, doing.from + n, watermark + 1)
          /\ doing' = [doing EXCEPT !.from = @ + n]
    /\ TaskIs(task, "await")
    /\ UNCHANGED <<outside, status, inbox, watermark, todo, durable>>

WatermarkExhausted ==
    /\ step = "commit" /\ AssertActive
    /\ watermark + 1 > MaxInteger
    /\ TaskThrows
    /\ UNCHANGED outside

Acknowledged(b) == ~ Refused(b) /\ ~ Backwards(Outcome(b).watermark)

\* The writer applies the batch, or recognises it, and its receipt arrives.
BatchAcknowledged ==
    /\ step = "await"
    /\ Acknowledged(request)
    /\ ApplyBatch(request)
    /\ watermark' = Outcome(request).watermark
    /\ request' = None
    /\ TaskIs(task, IF doing.from < doing.to THEN "commit" ELSE "next")
    /\ UNCHANGED <<dshVars, troubles, orphans, status, inbox, pass>>

\* The writer answers with an error, or with a watermark of the past: the source fails.
BatchRefused ==
    /\ step = "await"
    /\ ~ Acknowledged(request)
    /\ ApplyBatch(request)
    /\ TaskThrows
    /\ UNCHANGED <<dshVars, troubles, orphans>>

\* The writer commits, and the answer is lost: the deadline passed or the
\* connection broke in between.
ReceiptLost ==
    /\ step = "await"
    /\ Trouble
    /\ ApplyBatch(request)
    /\ TaskThrows
    /\ UNCHANGED <<dshVars, orphans>>

\* A batch whose caller is gone reaches the writer, or expires in its queue.
OrphanApplied(b) ==
    /\ b \in orphans
    /\ ApplyBatch(b)
    /\ orphans' = orphans \ {b}
    /\ UNCHANGED <<dshVars, troubles, sourceVars>>

OrphanExpires(b) ==
    /\ b \in orphans
    /\ orphans' = orphans \ {b}
    /\ UNCHANGED <<storeVars, dshVars, troubles, sourceVars>>

----------------------------------------------------------------------------
(* #drainBuffered, #scheduleDrain and #onLive                              *)

DrainMore ==
    /\ step = "drain" /\ buffered # {} /\ AssertActive
    /\ todo' = buffered /\ buffered' = {}
    /\ TaskIs(task, "states")
    /\ UNCHANGED <<outside, status, disposed, watermark, durable, doing, request>>

\* The caller of #drainBuffered goes on in a later turn of the event loop.
DrainEmpty ==
    /\ step = "drain" /\ buffered = {}
    /\ TaskIs(task, "drained")
    /\ UNCHANGED <<outside, status, inbox, watermark, pass, request>>

\* Mutant: the buffer is not looked at again before the task ends.
NoNextTask == TaskOver

\* Another drain is scheduled when notifications came in behind the empty check.
NextTask == IF buffered # {} THEN TaskIs("drain", "drain") ELSE TaskOver

GoLive ==
    /\ step = "drained" /\ task = "corpus" /\ AssertActive
    /\ phase' = "live"
    /\ NextTask
    /\ UNCHANGED <<outside, paused, subscribed, inbox, watermark, pass, request>>

EndDrain ==
    /\ step = "drained" /\ task = "drain"
    /\ IF phase = "live" THEN NextTask ELSE TaskOver
    /\ UNCHANGED <<outside, status, inbox, watermark, pass, request>>

\* #addBounded refuses one id too many.
Overflows(set, s) == s \notin set /\ Cardinality(set) >= MaxBuffered

Overflow == RecordFailure /\ UNCHANGED <<inbox, watermark, taskVars>>

NoticeIgnored(s) ==
    /\ s \in notices /\ (~ subscribed \/ paused)
    /\ notices' = notices \ {s}
    /\ UNCHANGED <<storeVars, log_length, troubles, orphans, sourceVars>>

NoticeOverflows(s) ==
    /\ s \in notices /\ subscribed /\ ~ paused
    /\ Overflows(buffered, s)
    /\ Overflow
    /\ notices' = notices \ {s}
    /\ UNCHANGED <<storeVars, log_length, troubles, orphans>>

\* Mutant: a live source buffers the notification and schedules no drain.
NoticeOnlyBuffered(s) ==
    /\ s \in notices /\ subscribed /\ ~ paused
    /\ ~ Overflows(buffered, s)
    /\ buffered' = buffered \cup {s}
    /\ notices' = notices \ {s}
    /\ UNCHANGED <<storeVars, log_length, troubles, orphans, status, disposed, watermark,
                   taskVars>>

NoticeBuffered(s) ==
    /\ s \in notices /\ subscribed /\ ~ paused
    /\ ~ Overflows(buffered, s)
    /\ buffered' = buffered \cup {s}
    /\ IF phase = "live" /\ task = "none" THEN TaskIs("drain", "drain")
                                          ELSE UNCHANGED <<task, step>>
    /\ notices' = notices \ {s}
    /\ UNCHANGED <<storeVars, log_length, troubles, orphans, status, disposed, watermark,
                   pass, request>>

Notify(s) == NoticeIgnored(s) \/ NoticeOverflows(s) \/ NoticeBuffered(s)

\* A session is disposed: the source remembers the id and deletes nothing.
DisposedNotice(s) ==
    /\ subscribed /\ ~ paused /\ log_length[s] > 0
    /\ Trouble
    /\ IF Overflows(disposed, s)
       THEN Overflow
       ELSE /\ disposed' = disposed \cup {s}
            /\ UNCHANGED <<status, buffered, watermark, taskVars>>
    /\ UNCHANGED <<storeVars, dshVars, orphans>>

----------------------------------------------------------------------------

SourceStep ==
    \/ Start \/ Subscribe \/ BeginCorpus \/ ListSessions \/ ReadSourceStates
    \/ (\E s \in Session : NextSession(s)) \/ PassOver
    \/ ReadSession \/ SendBatch \/ WatermarkExhausted
    \/ BatchAcknowledged \/ BatchRefused
    \/ DrainMore \/ DrainEmpty \/ GoLive \/ EndDrain
    \/ StopsAtAssert \/ Restart

\* The host has appended all it will and the source is live and idle.
Quiet == phase = "live" /\ task = "none" /\ notices = {}

Rest == Quiet /\ UNCHANGED vars

Next ==
    \/ \E s \in Session : AppendEvent(s) \/ Notify(s) \/ DisposedNotice(s)
    \/ SourceStep
    \/ CallFails \/ ReceiptLost \/ Close
    \/ \E b \in orphans : OrphanApplied(b) \/ OrphanExpires(b)
    \/ Rest

\* Promises settle, timers fire and the host delivers its notifications.  Nothing
\* makes the host append, a call fail, or an orphan arrive.
Fairness ==
    /\ WF_vars(SourceStep)
    /\ \A s \in Session : WF_vars(Notify(s))

Spec == Init /\ [][Next]_vars /\ Fairness

----------------------------------------------------------------------------
(* Correctness.                                                            *)

\* Every variable keeps its type; neither #buffered nor #disposed outgrows its bound, and
\* every batch is one the projection of a log can produce.
SourceTypeOK ==
    /\ StoreTypeOK
    /\ log_length \in [Session -> 0..MaxEvents] /\ notices \subseteq Session
    /\ troubles \in 0..MaxTroubles /\ orphans \subseteq Batches
    /\ phase \in {"idle", "subscribing", "listing", "scanning", "draining", "live",
                  "error", "closing"}
    /\ paused \in BOOLEAN /\ subscribed \in BOOLEAN
    /\ buffered \subseteq Session /\ Cardinality(buffered) <= MaxBuffered
    /\ disposed \subseteq Session /\ Cardinality(disposed) <= MaxBuffered
    /\ watermark \in 0..MaxInteger
    /\ task \in {"none", "corpus", "drain"}
    /\ step \in {"idle", "subscribe", "begin", "list", "states", "next", "read", "commit",
                 "await", "drain", "drained"}
    /\ todo \subseteq Session /\ DOMAIN durable \subseteq Session
    /\ doing = NoSession \/ doing \in [session : Session, from : 0..MaxEvents, to : 0..MaxEvents]
    /\ request \in Batches \cup {None}

Mirror == INSTANCE IndexMirror WITH indexed <- [s \in Session |-> NextSeq(s)]

\* Indexing implements IndexMirror: per session the daemon's cursor only grows, one
\* committed batch at a time, and never runs ahead of the log, whichever batches of a
\* failed source still arrive while its successor is at work.
MirrorsLogs == Mirror!MirrorSpec

\* What the daemon holds of a session is the projection of a beginning of its log, up to
\* the cursor: retried, replayed and orphaned batches, cut at other places than the
\* first time, leave neither a hole nor a second version of an event.
IndexIsPrefix ==
    \A s \in Session :
        OfSession(documents, s) = {Projected(s, n) : n \in 0..NextSeq(s) - 1}

CaughtUp == \A s \in Indexable : NextSeq(s) = log_length[s]

\* A live source that is idle, with no notification on its way, has indexed
\* everything: no event falls between the listing and the subscription, or between
\* the last look at the buffer and the phase turning live.
LiveMeansCaughtUp == Quiet => CaughtUp

\* The source's watermark is one the daemon has committed, so a successor, which
\* starts from the daemon's watermark, never reuses one that was acknowledged.
WatermarkCommitted == watermark <= meta.watermark

\* A source that failed or is closing never claims to be live, although the task it
\* was running when that happened goes on and assigns the phase.
FailedIsNotLive == paused => phase # "live" /\ ~ subscribed

\* Once the host is quiet and the calls succeed, every indexable session is indexed to
\* its end, whatever was lost, refused, buffered past the bound or closed before.
CatchesUp == <>[]CaughtUp

----------------------------------------------------------------------------
(* What a comment says, and the code does not do.                          *)

\* #runCorpusSync: "No await occurs between the empty-queue observation in drain and
\* this phase transition".
NoAwaitBeforeLive == [][ phase # "live" /\ phase' = "live" => buffered = {} ]_vars
=============================================================================
