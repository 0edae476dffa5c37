# A TLA+ development of the session index

The repository keeps a derived, searchable index of DSH session histories: a Rust daemon
(`crates/session-indexd`) owns a SQLite database (`crates/session-index-core`), a Node
source reads the host's session logs and feeds the daemon, and Node clients search it and
verify what they find against the logs. The same package refreshes the README indexes of
repositories and injects them into prompts. This directory models the parts of that system
that are hard to test, checks them with TLC on small instances, and proves every safety
property the runs check with TLAPS, for every value of the constants.

## 1. Inventory

| Component | State it keeps | Operations | Interacts with | What is hard |
|---|---|---|---|---|
| Storage core, `session-index-core/src/lib.rs` | tables `sessions`, `documents`, `index_meta`, `ingest_batches` | `create`, `apply_batch`, `source_state_v1` | called by the writer thread only; readers see committed snapshots | idempotent replay, overlapping batches, failure in the middle of a batch, integer edges |
| Cancellation protocol, `runtime.rs` | `SearchControl` per request, registry | `cancel_exact`, `remove_control`, `send` | run by callers, workers and cancelling clients at once | atomics in several threads, connection-scoped interrupts, id reuse |
| Reader pool, `runtime.rs` | bounded channel, one connection per worker | `search`, `cancel`, `reader_worker` | shares the controls; reads the database | deadline and grace against late answers, lost interrupts, retiring readers |
| Writer queue, `runtime.rs` | bounded channel | `writer_call`, `writer_worker` | in front of the storage core | a write whose caller has gone is still applied |
| View query and view catalog, `runtime.rs`, `view_platform/` | materialised views, lease on the connection | `query_view`, `apply_mutation`, `apply_lifecycle` | shares `SearchControl` | waiting for the lease while cancelled, stale views |
| Server, `server.rs`, `protocol.rs` | client threads | `run`, `handle_client`, dispatch | calls the coordinator | deadline checked after a mutation |
| DSH source, `session-index-dsh-source.mjs` | phase, buffer of notified sessions, watermark, tail of tasks | `start`, corpus pass, drain, `#onLive`, `close` | reads DSH, writes through the client | everything it read may be stale after an `await`; failures and replacement |
| Exact verification, `session-index-dsh-source.mjs` | locals of one call | `verifyDshSearchCandidates` | compares what the daemon found with the host's own logs | the index is stale, the host refuses part of a session, the caller aborts between parallel reads |
| Runtime lifecycle, `session-index-runtime.mjs`, and plugin, `plugin.mjs` | binding, source, readiness, timer, clients of the calls under way | `bind`, `unbind`, `restart`, `health`, `searchBatch`, `queryView`, `dispose`, monitor | creates, watches and replaces sources | stale continuations after a service was replaced |
| Client, `session-index-client.mjs` | chain of calls, the pending request, socket | `connect`, `#call`, `#roundTrip`, `#cancel`, `close` | talks to the server over one socket per direction | late frames, deadlines, a daemon that is silent, close against everything else |
| alpha4 view source, `dsh-alpha4-view-source.mjs` | listing, buffered changes, phase | `start`, backfill, changes, `close` | feeds the view catalog | states read before an `await`; changes between listing, drain and activation |
| Repository refresh, `refresh.mjs`, `model-pass.mjs` | a lock, a clone, the checkout and its remote | `refreshRepository` | git, people who work in the checkout, other clones | every git command may find another repository than the check before it |
| Index projection, `index.mjs` | none | `loadIndex` | injected into prompts | a cut inside a line, a fence or a section |
| History shadow experiment, `history-shadow.mjs` | none | analysis of a history, annotations | reads git | limits that interact: window, scan depth, bands |
| Launcher, CLI, harvest, views registry | files, processes | | | I/O and validation |

What makes each modelled component correct is stated as the properties of section 4; the
hazards, each with its line and the properties that would catch it, are in
`PROJECT.json`.

## 2. Modules

| Module | Models |
|---|---|
| `SessionStore` | The four tables and `apply_batch`. A transaction is one action: `CommitBatch`, `ReplayBatch` or `RefuseBatch`. The per-document loop is given by the conditions under which it runs to its end (`DocumentsFit`) and the rows it leaves (`SessionsAfter`, `Inserted`). `accepted` is a history variable: the batch behind each receipt. |
| `SearchControl` | `SearchControl`, the registry and `cancel_exact`, one atomic load, store or critical section per action, run by any number of processes. |
| `ReaderPool` | extends `SearchControl` by `Coordinator::search` in every caller, the bounded channel, `reader_worker` in every worker and `Coordinator::cancel` in other clients. |
| `IndexMirror` | Abstract specification of indexing: per session a cursor that only grows and never passes the end of the log. |
| `SearchPromise` | Abstract specification of a search: it waits, may be given up, may run, and has one answer, by the first reason to give it up or by its outcome. |
| `ViewMirror` | Abstract specification of a view's reconciliation: partitions are replaced by versions read from the host, never by an older one, the view turns ready complete but for changes still to be taken up, and a closed source neither reads nor begins to fail. |
| `DshSource` | extends `SessionStore` by the source, the host's logs and notifications, and what the writer queue can do to a batch: apply it, refuse it, lose its receipt, apply or drop it after its caller has gone. |
| `ExactRead` | `verifyDshSearchCandidates`: which events are read, in which batches or by which readers, what the host may answer, and what is returned. |
| `IndexClient` | `SessionIndexClient` on one socket, from connecting to `close`, and as much of the daemon as the socket shows. |
| `IndexRuntime` | `SessionIndexRuntime` and the plugin that mounts services into it: binding, reattachment, monitor, calls and disposal. Sources and clients are seen from outside. |
| `Alpha4Source` | the materialised view source, the host's sessions and the partitions of the view. |
| `RepoRefresh` | `refreshRepository` in several processes, next to people, other clones, crashes and dying lock helpers. |
| `IndexProjection` | `loadIndex` as a function of the README an author writes. |
| `HistoryShadow` | the evidence policy as a function of the history people write. |
| `SourceProofs`, `ReaderPoolProofs`, `ClientProofs`, `IndexRuntimeProofs`, `Alpha4Proofs`, `RefreshProofs`, `ExactReadProofs`, `RepositoryProofs` | The inductive invariants and the theorems about `SessionStore` and `DshSource` with `IndexMirror`, `ReaderPool` with `SearchPromise`, `IndexClient`, `IndexRuntime`, `Alpha4Source` with `ViewMirror`, `RepoRefresh`, `ExactRead`, and `IndexProjection` with `HistoryShadow` (section 5). |
| `MCSessionStore`, `MCReaderPool`, `MCDshSource`, `MCExactRead`, `MCAlpha4Source`, `MCIndexProjection`, `MCHistoryShadow` | TLC instances. The other modules are instantiated by their configuration alone. |

`DshSource` is composed of the store and the source; `ReaderPool` of the pool and the
cancellation protocol. `IndexRuntime` abstracts `DshSource` to "live" or "dead" and
`IndexClient` to "connecting", "request", "closing".

### How state and actions correspond to the code

*SessionStore.* The variables are the tables. A document's time, type, surface, scope
terms, body and fingerprint are one value `Content`, because `stored_document_matches`
compares all of them and nothing else looks at them. A batch is a set of documents: the
code only accepts lists that are contiguous and increasing per session, and the order
between sessions does not affect what is committed. `MaxInteger` is `i64::MAX`; one
watermark past it stands for every `u64` that does not fit. Size limits on texts are left
out: they refuse a batch before the transaction.

*SearchControl and ReaderPool.* `cx[x]` is process x's run of `cancel_exact`. The load of
the phase and the compare-exchange behind it are one step because a failed exchange loads
again. The cancelled flag and the time of the cancellation are one step because the time
is read only after the search has ended. SQLite is modelled by what `sqlite3_interrupt`
does: it reaches a statement that is running and is forgotten otherwise. A search is
`Statements` statements; the progress callback can stop each of them once the flag is
set. A statement may also run for ever. The clock counts in units of `Grace`. The counters shown by
`status` and the shutdown of the daemon are left out.

*DshSource.* A step is what runs between two awaits. `task` and `step` stand for the head
of `#tail`; `todo`, `durable` and `doing` for the local variables of the running pass;
`request` for the batch whose receipt is awaited. The length of a chunk depends on the size of
the documents, so any length up to the maximum is possible. One `source_state` call covers
a whole pass. `Restart` is the runtime's replacement of a source that failed or was closed:
`#reattach` waits for `close`, which waits for the task. The host appends an event before
its notification arrives and never shortens a log.

*ExactRead.* A hit carries its event's time and one `kind` for type and surface; a document
of the host the same and the set of literals its text contains. `event` holds
`coordinate.event`, chosen when the host answers: the host may have changed since it was
indexed. The work lists are defined by their positions and not by a loop: `Arranged` puts the
events of a session in ascending order, and a batch is given by where it begins and ends. `chunks` are the batches of `groupedSnapshotChunks`, the first one in flight;
`worker` and `cursor` are the readers of the older interfaces. `reads` is a history
variable: everything asked for, in order. Document keys follow from session and number.

*IndexClient.* One action is one event of the JavaScript loop: a timer, a chunk of data, a
socket event. What resolves a pending request lets `close()` go on before the next job of
the chain starts, because `close()` awaits two promise jobs and the chain four; `OnData`
and `CloseAcknowledged` keep that order. Two options are drawn at the start and never
change: active cancellation, and which requests are too large for a frame. The cancel on
sockets of its own is one message that arrives late, in time or not at all. The daemon
answers in order, at any time or never; up to `MaxFaults` frames are out of turn.

*IndexRuntime.* A binding is a token; `attach` is where `#reattach` stands, for which
binding, and whether it has a source of its own by now. `retiring` counts the sources in
`#sourceClosePromise`. Delays are left out: a timer that is armed fires at some time.

*Alpha4Source.* `at` is the call the source awaits; `live_tail` tells whether `start()` or
a job behind `tail` awaits it. A version stands for revision and cursor of a session, 0
for none. A call that fails may have had its effect (`LostEffect`). `close` does not
wait for `start`, so its steps go on under it (`Aborted`, and the continuations).

*RepoRefresh.* A revision is its history of commits; a commit is its author, its paths and
an id. Each git command is a step, and people act between any two of them. `Check` is
`requireMainAndClean`, which is called three times. The model may do anything to the clone
except leave it untouched and fail silently (`ModelPass`, `ValidateAndCommit`).

*IndexProjection, HistoryShadow.* The one variable is the input; every reachable state is
an input to the algorithm, built a line or a commit at a time, and the properties compare
the algorithm with an independent statement or with itself on another input. Lengths of
lines, the budget and the marker are small numbers. A line with a run of backticks or tildes
keeps the column, the length and the character of the run and whether a backtick stands behind it; a
run may stand behind a list marker. `OpenFence` is the code's view of such lines,
`CommonMark` the rules of the language: a run behind a list marker opens a fence of the item (the
code sees text), one of backticks with a backtick behind it opens none (the code opens one). In
`HistoryShadow` the tree of HEAD, and with it `Current`, `Eligible` and the limit on bulk diffs, is
one and fixed while the history grows: a state is one history that may end in that tree. What the code accumulates in a loop is
a recursive function of the line or the candidate (`Starts`, `Chosen`); what it filters or
sorts is given by positions and ranks (`Picked`, `Arranged`): the sorts compare by total
orders, as the proofs show, so that stability plays no part.

## 3. Runs

| Run | Bounds | Shows |
|---|---|---|
| `store_batches` | 2 sessions, sequence numbers 0..3, 3 keys, integers up to 3, batches of up to 4 documents of which 3 are allowed; symmetric keys | the store properties under every order of valid and invalid batches |
| `pool_safety` | 2 searches under one id, 2 workers, 1 cancelling client, a queue of 1, 4 clock ticks | interference between cancels, deadlines, workers and id reuse, and the refinement of `SearchPromise` |
| `pool_liveness` | 2 searches of 2 statements, 1 worker, 4 clock ticks | callers return, workers get free |
| `source_safety` | 2 sessions of up to 2 events, 2 troubles, buffer of 1, chunks of 1 or 2, watermarks up to 3 | the source's safety properties, and the refinement of `IndexMirror` |
| `source_liveness` | the same, one session without a workspace, watermarks that suffice | the source catches up |
| `exact_read` | 7 responses of up to 3 sessions and 5 pointers, 4 candidates, batches of 2 sessions and 2 events, 2 readers, 5 answers per event | only what the host confirms is returned, and all of it |
| `client` | the handshake and 2 calls, one of which may be too large, 1 frame out of turn, active cancellation on and off | one request at a time, own answers, everything settles |
| `runtime` | 2 services, 1 restart, 2 faults, a health call and a search | one source, the current one, and recovery |
| `alpha4` | 2 sessions of up to 2 versions, 3 changes, 1 failing call, batches of 1 | the view is complete when it is activated and when the source rests, and the refinement of `ViewMirror` |
| `refresh` | 2 refreshes, 1 commit of people, 2 edits or branch switches, 1 crash or failing command | no stale index counts as fresh, none is written twice, and it gets fresh |
| `projection_cuts` | READMEs of up to 5 lines of 13 kinds, budget 28, marker 6 | a cut depends on what was read alone, and leaves the marker outside of CommonMark's fences while the code sees the same ones |
| `shadow_report` | histories of up to 5 commits of 10 kinds, window 4, bulk limit 4, 2 candidates | what is reported is the best that can be without a path in two candidates, and what is said to be omitted changes nothing |

Why the bounds are enough. Two sessions are the fewest for a batch that mixes sessions and
for a buffer that overflows; sequence numbers up to 3 give a batch that overlaps the cursor
on both sides and the last number of the range. Two searches under one id are the fewest
for a control to be removed while its id is in use again; with two workers and one
connection each, a late interrupt can find another job on its connection. Four ticks cover the
deadline (2), the grace (1) and one tick past it. Two troubles give a failed source whose
successor fails too, with a batch of the first still on its way. A response of `exact_read`
covers each: an event shared by two literals, one event at two ranks, a contribution that
means another event, a session too large for a batch with a second one behind it, batches
filled by sessions and by events, more pointers than allowed, a number beyond the safe
integers. Two calls and the handshake are what it takes for a request to wait behind one that is being
cancelled while the client is closed. Two services and a restart give a continuation of `#reattach` for
a binding that has been replaced once, and one that has come back. Two refreshes are the
fewest for a lost lock to matter. Five lines are enough for a fence in a list item, a closing line that
the code takes for an opening one, and a top-level fence behind both. The window of `shadow_report` is smaller than its
histories, and with three bands of at most four events some are empty; two candidates are the fewest of
which one can be blocked by the other's path, and `ShadowMore` allows one, so that the limit decides. The bounds on events,
time, troubles, faults, versions, changes and edits are named constants.

Deadlock is checked where something is always left to do or to rest from (`store_batches`,
the pool, the source, `exact_read`, `refresh`). A client that is closed, a runtime that is
disposed, a view source that has ended and an author or a history at its bound really stop;
those five configurations say so.

## 4. Properties

*Store.* `CursorCountsDocuments` relates the cursor of a session to its rows;
`AcceptedBatchReplays` says that a committed batch is recognised at any later time;
`GenerationsOrderWatermarks` that a watermark names one commit; `AppendOnly` what a commit
may never do.

*Pool.* `InterruptHitsItsRequest`: an interrupt reaches the request it was meant for;
`OneFinisher`: one party ends a search; `RegistryIsExact`: what is
alive is found under its id, and nothing else is registered; `KeepsPromise`, the refinement of
`SearchPromise`: one answer, by the first reason, and never an interruption without one; live:
`SearchReturns`, `WorkerGetsFree`.

*Source.* `MirrorsLogs` (the refinement), `IndexIsPrefix`, `LiveMeansCaughtUp`,
`WatermarkCommitted`; live: `CatchesUp`.

*Exact verification.* `RetainedIsProved` and `NothingLost` say from both sides that the
result is what the host confirmed, at the very rank, in sessions it never refused;
`ReadsFit` that each event is read once and in batches within the bounds;
`CancellationEndsReading` that a cancelled call asks for nothing more, returns nothing and
leaves no reader behind.

*Client.* `NeverConcurrent`: the protocol violation `#roundTrip` guards against never
happens; `AnswerIsOwn`: a call resolves with the response to its own request, whatever
frames come late or twice; `ClosedHasNothingPending`; `SettledForGood`; live:
`EveryCallSettles`, although the daemon need not answer.

*Runtime.* `OneSource`: two sources never feed the daemon; `ReadyIsCurrent`: ready means the
source of the service now mounted; `DisposedHoldsNothing`; live: `Recovers`.

*View source.* `LiveIsCaughtUp`, `ActivatedComplete`: the view was complete when it
was activated; `MirrorsSessions`, the refinement of `ViewMirror`: no partition goes back to an
older version or is deleted before its session is gone, and a source closed at any await neither
reads nor begins to fail after it.

*Refresh.* `UpToDateIsFresh`; `NoRedundantRefresh`: no bot commit follows another, although a losing
or rolled-back refresh may have run the model once more; live: `EventuallyFresh`, if people leave
a clean main alone.

*Projection.* `PrefixIsEnough`: the bounded read loses nothing; `MarkerIsVisible`: the
marker is outside of every fence CommonMark sees, if what was read has no fence behind a list marker
and no backtick behind a run of backticks, except inside of a fence. Without that condition it is
false (section 6).

*Shadow.* `CandidatesDisjoint`: no path is in two candidates, and a qualified pair is left out only for
better ones; `OmittedChangesNothing`, over one tree of HEAD.

Every property has a mutant of a mapped definition that breaks it; the mutants stand in
the modules in front of the definition they change.

Beside the runs stand configurations of further properties that hold in the same
instances: `ClientMore` (`ClientTypeOK`, `CloseEnds`, `ConnectEnds`), `RuntimeMore`
(`RuntimeTypeOK`, `MountedIsBound`, `NeverStranded`, `DisposeReturns`), `Alpha4More`
(`Alpha4TypeOK`, `ClosePoisonsNothing`, `StartSettles`, `LiveCatchesUp`), `RefreshMore` (`RefreshTypeOK`),
`ProjectionMore` (`ProjectionFits`) and `ShadowMore`
(`CandidatesAddUp`, `AnnotationsReuseNoPath`, `AnnotationsLead`, and `CandidatesDisjoint` where one candidate
is the limit). `SourceTypeOK` and `FailedIsNotLive` of the
source are proved (section 5).

### Fairness

*Pool.* Threads are scheduled and time passes (weak fairness of the clock, of every caller after it has begun,
of every worker and of every run of `cancel_exact`). A statement need not end by itself:
`EndStatement` and `StorageError` are outside the fair steps, and only a statement that
must stop does. No client is obliged to search or cancel.

*Source.* Promises settle, the runtime's timer fires, the host delivers its notifications:
weak fairness of the source's steps and of every notification. The host is not obliged to
append, no call to fail, and an orphaned batch never has to arrive. `CatchesUp` relies
on the bounds on events and troubles: a host that overflows the buffer for ever can keep
the source from going live for ever.

*Client.* The client's own timers fire and promise jobs run: turns, deadlines, the
cancellation grace and the steps of `close`. Nothing is asked of the daemon: it may stay
silent for ever. `connect` settles because Node reports a connection or an error.

*Runtime.* Timers fire, sources close, and what the runtime itself awaits ends, well or
badly, because its clients have timeouts. Nobody has to mount, restart or dispose.
`Recovers` relies on the bound on faults.

*View source, refresh.* Calls of the daemon and the host return and changes are announced;
the timer ticks and git commands end. Nobody has to work in the checkout. Failures are bounded.

## 5. Proofs

Every modelled component has theorems, for every value of their constants, and every invariant and
action property of a run is one of them. A theorem that names a property says for all instances what
the run shows for one.

| Module | Proved | From |
|---|---|---|
| `SourceProofs` | the four invariants of `store_batches` and `AppendOnly`; `IndexIsPrefix`, `LiveMeansCaughtUp`, `WatermarkCommitted`, `MirrorsLogs`; `SourceTypeOK`, `FailedIsNotLive` | the two bounds of the store are positive, batches are finite (`BatchesAssumption`); `SourceAssumption`, and `ProjectionAssumption`: a run of a log of at most a chunk is a batch the store may be given |
| `ReaderPoolProofs` | the four invariants of `pool_safety` and `KeepsPromise`; `InterruptionHasReason` | `PoolAssumption`: a connection per worker; requests, workers and other clients are different processes; the registry admits one request per worker and place in the channel, as `Coordinator::new` computes it |
| `ClientProofs` | `NeverConcurrent`, `AnswerIsOwn`, `ClosedHasNothingPending`, `SettledForGood`; `ClientTypeOK` | `ClientAssumption`: requests, errors and "none" are different values |
| `IndexRuntimeProofs` | `OneSource`, `ReadyIsCurrent`, `DisposedHoldsNothing`; `RuntimeTypeOK`, `MountedIsBound`, `NeverStranded` | `RuntimeAssumption`: the bounds are numbers |
| `Alpha4Proofs` | `LiveIsCaughtUp`, `ActivatedComplete`, `MirrorsSessions`; `ClosePoisonsNothing`, `Alpha4TypeOK` | `Alpha4Assumption`: finitely many sessions, positive batches and versions; `ListingAssumption`: the host lists every session there is |
| `RefreshProofs` | `UpToDateIsFresh`, `NoRedundantRefresh`, `DecisionIsExact`; `RefreshTypeOK` | `RefreshAssumption`: the refreshes are finitely many, the bounds are numbers |
| `ExactReadProofs` | `RetainedIsProved`, `NothingLost`, `ReadsFit`, `CancellationEndsReading` | `ExactReadAssumption`: the bounds are positive, the candidates, the literals and the hits of each are lists, which `session-index-dsh-source.mjs:560` to `760` checks; "absent" is no document |
| `RepositoryProofs` | `PrefixIsEnough`, `MarkerIsVisible`, `ProjectionFits`; `CandidatesAddUp`, `OmittedChangesNothing`, `CandidatesDisjoint`, `AnnotationsReuseNoPath`, `AnnotationsLead` | of `IndexProjection`: a line has a length and an indentation, what opens a fence is a run of at least three characters (`index.mjs:87` to `96`), and a backtick behind a run is behind one of backticks at the margin; the budget has room for the marker. `ShadowAssumption`: paths are finitely many and diffs finite, the limits are numbers, the pair-relative window is positive |

The bounds on events, time, faults and the like may have any value, so the theorems hold without them.
Hardly a property is inductive; each inductive invariant was first checked by TLC on the instance
of its run.

*Store.* That a committed batch replays needs to know what its receipt recorded of it and that its
documents are stored. `StoreInv` therefore consists of the types, `CursorCountsDocuments`,
`GenerationsOrderWatermarks` and `ReceiptsDescribeBatches`. Replays and refusals change nothing. For a
commit, `InsertedRun` is the central lemma: a batch that is contiguous per session and starts at or
before the cursor inserts exactly the run from the cursor to its last document. `CommitType`,
`CommitCursors` and `CommitReceipts` follow, and `StoreStepInv` puts them together.

*Pool.* An interrupt can only hit the right request if the handle a control shows belongs to a worker
that has this very request as its job (`HandleShape`), and if whoever is about to use the handle has
given a reason before (`CancelShape`, `Cancelled`): the worker looks at the flag again after it has
published the handle. `SoleFinisher` splits a request's end between the worker that serves it and the
process whose exchange won, and needs to know of requests that never reached the channel
(`OutsideShape`, `IdleShape`). `RegistryIsExact` adds who will remove what is registered
(`RemoverShape`). The first lemmas restate each action that writes a control field by field; then
each part of `PoolInv` has a lemma over all steps. `PoolKeepsPromise` maps phase, reason and mailbox of a
request to `SearchPromise`. It needs more than the invariants of the run: that the completion is there
until the answer is (`CompletionShape`), that what a worker has judged agrees with a reason that cannot change
any more (`JudgedShape`), and that nobody cancels for a deadline that is still to come (`DeadlineShape`). The
promise leaves open which answer a search gets that is given up while it runs: a reason recorded after the
worker has judged the result comes too late.

*Source.* Its proofs follow those of the store in the same module: whatever batch arrives there,
`StoreInv` is kept. What is added is where batches come from. Every batch under way, that of a failed
source too, is a run of the projection of a log (`IndexShape`, `HandShape`), so a batch that comes
late replays or is refused; the cursors a pass has read are never ahead of the real ones
(`PassShape`). `NothingForgotten` says of every session that lags behind its log that it is announced,
buffered, in the pass or in hand and read to its end; it is what makes `LiveMeansCaughtUp` true
although `#onLive` and the drain race. The refinement maps every step to `Advance` of one session,
to an append, or to a stutter.

*Client.* `close` is what makes the properties depend on each other. It clears the pending request
by comparing it with the one it waited for, so `GraceShape` has to know that no other request takes its
place; and `PendingShape` that an error has cleared it already.

*Runtime.* `OneHolder`: a source is held by the runtime, by the closing promise or by the attachment
under way, never by two of them. `DisposalIsFinal`: what `dispose` takes away nobody brings back.
`NeverStranded` is the safety half of `Recovers`.

*View source.* One session is followed from the subscription on. It is `Known` if its partition has
its present version or a change of it is still to be taken up; while the listing is compared, it may
also be among the records to come or in hand. What makes this inductive is that every version read
earlier (the listing, the partition states, the observation) is still right or a change was announced since
(`Comparing`, `SeenShape`). The refinement counts as told what is announced, buffered or was missed before
the subscription, and as read what was observed and is not committed yet. It needs two facts of its own
(`Fresh`, `ReadShape`), for a closed source too: a partition is never ahead of a session that is
there, and what is about to be committed is not behind the partition, although changes go on while the
call is awaited. A call reported as failed maps to the effect it had and a failure at once, or to a stop.

*Refresh.* `hasSourceCommitsSinceIndex` decides from the last marker and the last commit of the
index. `History` says what every history in the checkout, on the remote and in a refresh has in
common: a person's commit touches a path, the bot's at most the index, no marker comes before the
index, and the bot never commits twice in a row. `DecisionIsExact`: on such histories the decision is
negative exactly when the last commit is the bot's. `RefreshInv` is that all histories are of this
kind, and that a refresh that goes on has read one that needs it. `RefreshTypeOK` rests on `TypeInv`: what a
step writes is a history somebody has, or one of them with a commit whose id no known commit has (`NewIdIsNew`
finds one left, known commits being finitely many); and a refresh that does not run yet never holds the lock.

*Exact verification.* A reader that threw never reads again, so a cancellation is never noted without
a reader that makes the call fail (`CancellationIsSeen`), and a call compares what was read only when every
reader has ended (`ReadersAreAwaited`). `ResultIsOfWhatWasRead` is the half of `RetainedIsProved` that
is about the order of steps: a call that returns computed its result from documents the host gave at
the coordinates of its work, none of them of a session refused in any batch. The other half is about
the operators: the work lists hold each coordinate of a fused contribution once, and no other, and what
is retained is computed from documents at those coordinates alone. `AskedInvariant` says where the reading
stands: what was asked for is the first batches of the plan or the work up to the cursor the readers share.
That the batches keep both bounds, and hold a session twice only when it fits in none, is a fact about
the plan, and `ReadsFit` and `NothingLost` follow.

*Projection and shadow.* The invariants only say that the input is made of lines or of diffs; the
proofs are about the algorithms, on inputs of any length. No induction over data is available: where a
definition is a recursive function, `RunsExist` shows that a function making all its steps exists (the
least number of steps for which there is none leads to a contradiction), and what holds of its values is
shown at the least step at which it fails. *Projection:* where lines start depends only on the lines
before them, so a cut found in the bounded read is the cut of the whole file if the read goes past
the budget; sections, blocks and lines are three cases of one argument. The marker is outside of
the code's fences because the cut is either outside of one, or the fallback closes the one it
opened. That these are CommonMark's is `SameFences`: at the least line before which the two differ, the
line in front would be one on which they disagree, outside of a fence; `PrefixUndisputed` and its
companions carry the absence of such lines from what was read to what is shown. *Shadow:* positions are arranged by rank, and an arrangement is a bijection for any total order
(`ArrangedIsBijection`). Counting over bands, a scope or a reversed list is counting positions, which
makes `CandidatesAddUp` a matter of disjoint unions. That the candidates can be ordered at all
is `BeforeOrders`: each of the five comparisons of `compareCandidates` is a weak order, the two of
fractions because the gates leave no zero denominator, and pairs are unique. What the loop has chosen of
the first candidates, and why it has passed over the others, is `Separate`, kept by each of its steps
(`TakeSeparates`); `CandidatesDisjoint` is that at the end. For `OmittedChangesNothing`,
the revisions examined behind an omitted one are those examined without it, moved by one.
Annotations are followed route by route (`AnnotateIsSound`): the path and the companion taken are new,
so that the paths named are twice the annotations, and the first of the choices leads every other one
because the order puts support first and only the second was compared.

Only model-checked, and why: the liveness properties (`SearchReturns`, `WorkerGetsFree`, `CatchesUp`,
`EveryCallSettles`, `Recovers`, `EventuallyFresh`, and beside the runs `CloseEnds`, `ConnectEnds`,
`DisposeReturns`, `StartSettles`, `LiveCatchesUp`), because fairness and ENABLED are out of the prover's
reach.

## 6. Where the code and its documents disagree

Each of these is stated as a property whose configuration, beside the runs, ends in a
counterexample. Of a configuration with several properties, `tlc -continue` shows all.

| Configuration and property | The code | What is said of it |
|---|---|---|
| `PoolReplacement`, `OldConnectionDropped` | the interrupted connection is dropped when its replacement is assigned | `runtime.rs:763`: "Drop the interrupted connection before opening its replacement" |
| `PoolAbandoned`, `AbandonedReaderRetires` | the worker's test is strict and measured from another moment than the caller's grace, so a search that unwinds at that very moment keeps its reader | `runtime.rs:499`: its elapsed cancellation time "forces a close/reopen before it takes another job" |
| `PoolAcknowledged`, `AcknowledgedAfterRemoval` | a search cancelled in the queue is answered while its job keeps its place in the channel | `docs/session-history-indexing.md:282`: acknowledged "after the queued item is removed" |
| `SourceLive`, `NoAwaitBeforeLive` | `#drainBuffered` is itself awaited; the check that follows makes up for it, as `LiveMeansCaughtUp` shows | `session-index-dsh-source.mjs:428`: "No await occurs between the empty-queue observation in drain and this phase transition" |
| `RuntimeReady`, `ReadyIsValidated` | a health call that fails while `#reattach` awaits `source.start` clears `#capabilityValidated` (`session-index-runtime.mjs:424`); `#reattach` then sets `#ready` alone, and searches are refused | `docs/session-index-production.md:12`: ready is "true only after daemon protocol/schema/capability validation" |
| `Alpha4Duplicate`, `AcceptedRecordsUnique` | `Set.add` returns the set, which is never falsy, so a session listed twice is accepted | `dsh-alpha4-view-source.mjs:280`: "source records contain duplicate sessionId" |
| `Alpha4Closed`, `ClosedStaysDisposed` | the continuations of `start` assign the phase again after `close` has returned | `tests/dsh-alpha4-view-source.mjs:212` expects "disposed" |
| `Alpha4Closed`, `ClosedIsUnsubscribed` | a disposer that `start` obtains after `close` is never called | `tests/dsh-alpha4-view-source.mjs:119` expects the subscription to be given back |
| `Alpha4Closed`, `FailsClosed` | the error of the call that marks the view failed is swallowed and the call not repeated | `docs/materialized-view-platform-v1.md:80`: "marks the view failed on startup/reconciliation failure" |
| `RefreshKept`, `HumanWorkKept` | a commit or an edit between the status check and `git reset --hard` is lost (`refresh.mjs:256`) | `tests/refresh.mjs:233` expects work done during a refresh to survive it |
| `RefreshSaid`, `UpToDateIsPublished` | after a crash between merge and push the next refresh finds the marker on main and never pushes (`refresh.mjs:248`) | `refresh.mjs:262`: "Refresh and mechanically publish" |
| `RefreshSaid`, `PublishedIsThere` | `git merge` acts on the branch checked out, `git push` pushes main; a switch in between reports a commit that origin does not have | `tests/refresh.mjs:158` expects origin's main at the reported commit |
| `ProjectionSections`, `CutsAtHeadings` | a word like `#tag` cut behind its hash counts as a heading (`index.mjs:123`) | `index.mjs:125`: "Only later ATX headings prove that a complete authored section precedes them" |
| `ProjectionSections`, `MarkerAlwaysVisible` | `fenceDelimiter` (`index.mjs:88`) does not see a fence behind a list marker, and takes a run of backticks with a backtick behind it for an opening one. Then its fences are not CommonMark's: a README of the lines "` ``` ``` `", "` ``` `" and a long text is cut behind the second, which opens a fence that the marker is in; likewise one of "` - ``` `", an indented "` ``` `" and a "` ``` `" at the margin | `index.mjs:153`: the wrapper is there so that "the generated Markdown remains structurally closed"; `tests/index.mjs:37` asserts by the code's own `markdownBoundaries` that no fence is open |
| `ShadowSaid`, `SingletonsAreLocal` | a diff of one path takes a place of the retained window (`history-shadow.mjs:210`) | `docs/history-shadow-experiment.md:41`: "Unrelated singleton events do not affect pair-relative counts" |
| `ShadowSaid`, `LeadersLead` | annotations chosen from the disjoint candidates do not see the runner-up that was dropped for sharing a path (`history-shadow.mjs:465`) | `docs/history-shadow-experiment.md:72`: the leader "must exceed its per-route runner-up by at least two events" |

## 7. Not modelled, and the plan

In this order:

1. `WriterQueue`: `writer_call`, `writer_worker` and the server's deadline checks, with
   `DshSource`'s orphaned batches as what it allows; the answer of an expired job.
2. `ViewQuery`: `query_view` and the lease on the connection on top of `SearchControl`
   (its `activate_interrupt` publishes and activates in one step, unlike the reader pool);
   then `ViewCatalog`: mutations, lifecycle and freshness, behind `Alpha4Source`.
3. A session that fails every source (`session-index-dsh-source.mjs:489`).
4. Ranking and reciprocal-rank fusion as a pure algorithm against a reference definition.

Left out of the modelled parts: the framing of responses in chunks and the field checks of
messages; delays and counters of the runtime and the view source; snippets and titles of
verified evidence; the link checks of an index and reading git for the experiment; of Markdown, lists in
lists, block quotes, HTML blocks, white space behind a line and line ends other than a newline.

Four smaller abstractions. In `EnsureBoundary` a call is late when its timer has fired; the code compares
`Date.now()` (`session-index-client.mjs:270`), so that a timer firing a moment early could
reject a call whose request is still written. `ReadSourceStates` is one call per pass, the code
makes one per 32 sessions (`session-index-dsh-source.mjs:455`), with an await between them. In `Finally`
removing the clone succeeds; in the code its failure skips `lock.release()` (`refresh.mjs:324`), the lock's
helper keeps the process alive, and under the timer `TimeoutStartSec=12h` makes it the crash
the model has. In `Commit` a new commit does not change the tree of HEAD (section 2).

Left out for good: the FTS index inside SQLite, harvesting, the views registry, the
launcher and the command lines: they are I/O, validation, or have no state of their own.
