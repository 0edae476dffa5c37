----------------------------- MODULE ReaderPool -----------------------------
(***************************************************************************)
(* Search through the daemon: Coordinator::search in the client thread of  *)
(* each request, the bounded reader queue, reader_worker in every reader   *)
(* thread, and `cancel' in other client threads.                           *)
(***************************************************************************)
EXTENDS SearchControl, Sequences

CONSTANTS
    Worker,         \* reader workers; each owns one connection
    Canceller,      \* client threads that handle one cancel each
    QueueCapacity,  \* --queue-capacity
    Grace,          \* INTERRUPT_GRACE
    Statements      \* SQL statements of one batch

ASSUME PoolAssumption ==
    /\ QueueCapacity \in Nat \ {0} /\ Grace \in Nat \ {0} /\ Statements \in Nat \ {0}
    /\ Connection = Worker
    /\ Process = Request \cup Worker \cup Canceller
    /\ Request \cap Worker = {} /\ Request \cap Canceller = {} /\ Worker \cap Canceller = {}
    /\ RegistryBound = Cardinality(Worker) + QueueCapacity

VARIABLES
    caller,      \* request -> where its call of search stands
    grace_end,   \* request -> when its interrupt grace is over; 0 outside it
    queue,       \* the reader channel
    worker,      \* worker -> where its loop stands
    job,         \* worker -> the job in hand
    response,    \* worker -> what its SQLite search returned, then the result to send
    statements,  \* worker -> statements left in its batch
    connections, \* worker -> open reader connections it holds
    cancels      \* cancellers that have handled their request

poolVars == <<caller, grace_end, queue, worker, job, response, statements,
              connections, cancels>>
vars == <<controlVars, poolVars>>

CallerSteps == {"idle", "try_send", "undo", "recv",
                "cancel", "grace", "refused", "returned", "abandoned"}
WorkerSteps == {"recv", "activate", "publish", "recheck", "between", "running", "clear",
                "judge", "send", "remove", "retire", "reopen", "swap", "exited"}

Init ==
    /\ ControlInit
    /\ caller = [c \in Request |-> "idle"]
    /\ grace_end = [c \in Request |-> 0]
    /\ queue = <<>>
    /\ worker = [w \in Worker |-> "recv"]
    /\ job = [w \in Worker |-> None]
    /\ response = [w \in Worker |-> None]
    /\ statements = [w \in Worker |-> 0]
    /\ connections = [w \in Worker |-> 1]
    /\ cancels = {}

\* The last worker to leave drops the receiver of the channel.
Disconnected == \A w \in Worker : worker[w] = "exited"

----------------------------------------------------------------------------
(* Coordinator::search                                                     *)

workerVars == <<worker, job, response, statements, connections>>

CallerGoes(c, step) == caller' = [caller EXCEPT ![c] = step]

\* DeadlineExceeded, DuplicateRequestId or AdmissionRejected before anything is kept.
SearchRefused(c) ==
    /\ caller[c] = "idle"
    /\ Expired(c) \/ IsDuplicate(c) \/ RegistryFull
    /\ CallerGoes(c, "refused")
    /\ UNCHANGED <<controlVars, grace_end, queue, workerVars, cancels>>

SearchAdmitted(c) ==
    /\ caller[c] = "idle"
    /\ ~ Expired(c) /\ ~ IsDuplicate(c) /\ ~ RegistryFull
    /\ Register(c)
    /\ CallerGoes(c, "try_send")
    /\ UNCHANGED <<now, control, mailbox, cx, running, interrupted,
                   grace_end, queue, workerVars, cancels>>

\* Mutant: the channel holds one job too many.
TrySendUnbounded(c) ==
    /\ caller[c] = "try_send"
    /\ ~ Disconnected /\ Len(queue) <= QueueCapacity
    /\ queue' = Append(queue, c)
    /\ CallerGoes(c, "recv")
    /\ UNCHANGED <<controlVars, grace_end, workerVars, cancels>>

TrySend(c) ==
    /\ caller[c] = "try_send"
    /\ \/ /\ ~ Disconnected /\ Len(queue) < QueueCapacity
          /\ queue' = Append(queue, c)
          /\ CallerGoes(c, "recv")
       \/ /\ Disconnected \/ Len(queue) >= QueueCapacity
          /\ CallerGoes(c, "undo")
          /\ UNCHANGED queue
    /\ UNCHANGED <<controlVars, grace_end, workerVars, cancels>>

\* A full or disconnected channel: AdmissionRejected or StorageUnavailable.
UndoAdmission(c) ==
    /\ caller[c] = "undo"
    /\ RemoveControl(c)
    /\ CallerGoes(c, "refused")
    /\ UNCHANGED <<now, control, mailbox, cx, running, interrupted, grace_end, queue,
                   workerVars, cancels>>

\* The answer arrives, before the deadline or within the grace after it.
ReceiveAnswer(c) ==
    /\ caller[c] \in {"recv", "grace"}
    /\ mailbox[c] # None
    /\ CallerGoes(c, "returned")
    /\ grace_end' = [grace_end EXCEPT ![c] = 0]
    /\ UNCHANGED <<controlVars, queue, workerVars, cancels>>

\* Mutant: the caller waits for its answer without a timeout.
WaitForever(c) == caller[c] = "recv" /\ FALSE /\ UNCHANGED vars

DeadlinePasses(c) ==
    /\ caller[c] = "recv" /\ mailbox[c] = None /\ Expired(c)
    /\ cx' = [cx EXCEPT ![c] = CancelRun(c, "deadline")]
    /\ CallerGoes(c, "cancel")
    /\ UNCHANGED <<now, registry, control, mailbox, running, interrupted,
                   grace_end, queue, workerVars, cancels>>

BeginGrace(c) ==
    /\ caller[c] = "cancel" /\ cx[c].step = "off"
    /\ CallerGoes(c, "grace")
    /\ grace_end' = [grace_end EXCEPT ![c] = now + Grace]
    /\ UNCHANGED <<controlVars, queue, workerVars, cancels>>

\* The worker is still occupied: the caller leaves, its control stays registered.
GivesUp(c) == caller[c] = "grace" /\ mailbox[c] = None /\ now >= grace_end[c]

GraceTimeout(c) ==
    /\ GivesUp(c)
    /\ CallerGoes(c, "abandoned")
    /\ grace_end' = [grace_end EXCEPT ![c] = 0]
    /\ UNCHANGED <<controlVars, queue, workerVars, cancels>>

Search(c) ==
    \/ SearchRefused(c) \/ SearchAdmitted(c) \/ TrySend(c) \/ UndoAdmission(c)
    \/ ReceiveAnswer(c) \/ DeadlinePasses(c) \/ BeginGrace(c) \/ GraceTimeout(c)

----------------------------------------------------------------------------
(* Coordinator::cancel, in the client thread k.                            *)

Cancel(k, i) ==
    /\ k \notin cancels /\ cx[k].step = "off"
    /\ cancels' = cancels \cup {k}
    /\ cx' = IF registry[i] = None THEN cx
             ELSE [cx EXCEPT ![k] = CancelRun(registry[i], "caller")]
    /\ UNCHANGED <<now, registry, control, mailbox, running, interrupted, caller,
                   grace_end, queue, workerVars>>

----------------------------------------------------------------------------
(* reader_worker                                                           *)

callerVars == <<caller, grace_end>>

WorkerGoes(w, step) == worker' = [worker EXCEPT ![w] = step]

\* A job whose deadline passed in the queue is cancelled and never runs.
TakeExpired(w) ==
    /\ worker[w] = "recv" /\ cx[w].step = "off" /\ queue # <<>>
    /\ Expired(Head(queue))
    /\ queue' = Tail(queue)
    /\ cx' = [cx EXCEPT ![w] = CancelRun(Head(queue), "deadline")]
    /\ UNCHANGED <<now, registry, control, mailbox, running, interrupted, callerVars,
                   workerVars, cancels>>

Take(w) ==
    /\ worker[w] = "recv" /\ cx[w].step = "off" /\ queue # <<>>
    /\ ~ Expired(Head(queue))
    /\ queue' = Tail(queue)
    /\ job' = [job EXCEPT ![w] = Head(queue)]
    /\ WorkerGoes(w, "activate")
    /\ UNCHANGED <<controlVars, callerVars, response, statements, connections, cancels>>

Activate(w) ==
    /\ worker[w] = "activate"
    /\ IF control[job[w]].phase = "queued"
       THEN /\ control' = [control EXCEPT ![job[w]].phase = "active"]
            /\ WorkerGoes(w, "publish")
            /\ UNCHANGED job
       ELSE /\ WorkerGoes(w, "recv")
            /\ job' = [job EXCEPT ![w] = None]
            /\ UNCHANGED control
    /\ UNCHANGED <<now, registry, mailbox, cx, running, interrupted, callerVars, queue,
                   response, statements, connections, cancels>>

Publish(w) ==
    /\ worker[w] = "publish"
    /\ control' = [control EXCEPT ![job[w]].active_interrupt = w]
    /\ WorkerGoes(w, "recheck")
    /\ UNCHANGED <<now, registry, mailbox, cx, running, interrupted, callerVars, queue,
                   job, response, statements, connections, cancels>>

Recheck(w) ==
    /\ worker[w] = "recheck"
    /\ IF control[job[w]].cancelled THEN InterruptConnection(w) ELSE UNCHANGED interrupted
    /\ statements' = [statements EXCEPT ![w] = Statements]
    /\ WorkerGoes(w, "between")
    /\ UNCHANGED <<now, registry, control, mailbox, cx, running, callerVars, queue, job,
                   response, connections, cancels>>

\* SQLite forgets an interrupt when a statement starts with none running.
BeginStatement(w) ==
    /\ worker[w] = "between" /\ statements[w] > 0
    /\ running' = running \cup {w}
    /\ interrupted' = interrupted \ {w}
    /\ WorkerGoes(w, "running")
    /\ UNCHANGED <<now, registry, control, mailbox, cx, callerVars, queue, job, response,
                   statements, connections, cancels>>

StatementStops(w) ==
    /\ worker[w] = "running"
    /\ running' = running \ {w}
    /\ interrupted' = interrupted \ {w}

EndStatement(w) ==
    /\ StatementStops(w)
    /\ statements' = [statements EXCEPT ![w] = @ - 1]
    /\ WorkerGoes(w, "between")
    /\ UNCHANGED <<now, registry, control, mailbox, cx, callerVars, queue, job, response,
                   connections, cancels>>

\* The interrupt flag or the progress callback, which loads the cancelled flag,
\* ends the running statement with SQLITE_INTERRUPT.
MustStop(w) == w \in interrupted \/ control[job[w]].cancelled

AbortStatement(w) ==
    /\ StatementStops(w)
    /\ MustStop(w)
    /\ response' = [response EXCEPT ![w] = "interrupted"]
    /\ statements' = [statements EXCEPT ![w] = 0]
    /\ WorkerGoes(w, "clear")
    /\ UNCHANGED <<now, registry, control, mailbox, cx, callerVars, queue, job,
                   connections, cancels>>

\* Any other failure of the search: a watermark not reached, a bad request, I/O.
StorageError(w) ==
    /\ StatementStops(w)
    /\ response' = [response EXCEPT ![w] = "storage"]
    /\ statements' = [statements EXCEPT ![w] = 0]
    /\ WorkerGoes(w, "clear")
    /\ UNCHANGED <<now, registry, control, mailbox, cx, callerVars, queue, job,
                   connections, cancels>>

SearchDone(w) ==
    /\ worker[w] = "between" /\ statements[w] = 0
    /\ response' = [response EXCEPT ![w] = "ok"]
    /\ WorkerGoes(w, "clear")
    /\ UNCHANGED <<controlVars, callerVars, queue, job, statements, connections, cancels>>

\* Mutant: the published handle outlives the search.
KeepHandle(w) ==
    /\ worker[w] = "clear"
    /\ WorkerGoes(w, "judge")
    /\ UNCHANGED <<controlVars, callerVars, queue, job, response, statements, connections,
                   cancels>>

ClearHandle(w) ==
    /\ worker[w] = "clear"
    /\ control' = [control EXCEPT ![job[w]].active_interrupt = None]
    /\ WorkerGoes(w, "judge")
    /\ UNCHANGED <<now, registry, mailbox, cx, running, interrupted, callerVars, queue,
                   job, response, statements, connections, cancels>>

JudgedResult(w) ==
    IF control[job[w]].reason # "none" THEN TerminalFromReason(job[w]) ELSE response[w]

Judge(w) ==
    /\ worker[w] = "judge"
    /\ response' = [response EXCEPT ![w] = JudgedResult(w)]
    /\ WorkerGoes(w, "send")
    /\ UNCHANGED <<controlVars, callerVars, queue, job, statements, connections, cancels>>

\* The phase is stored and the result sent; whoever cancels in between finds the
\* request terminal and does nothing.
FinishSearch(w) ==
    LET c == job[w] IN
    /\ worker[w] = "send"
    /\ control' = [control EXCEPT ![c].phase = "terminal", ![c].completion = FALSE]
    /\ mailbox' = IF control[c].completion
                  THEN [mailbox EXCEPT ![c] = response[w]] ELSE mailbox
    /\ WorkerGoes(w, "remove")
    /\ UNCHANGED <<now, registry, cx, running, interrupted, callerVars, queue, job,
                   response, statements, connections, cancels>>

RemoveJob(w) ==
    /\ worker[w] = "remove"
    /\ RemoveControl(job[w])
    /\ WorkerGoes(w, "retire")
    /\ UNCHANGED <<now, control, mailbox, cx, running, interrupted, callerVars, queue,
                   job, response, statements, connections, cancels>>

SlowUnwind(c) ==
    control[c].cancelled_at # 0 /\ now - control[c].cancelled_at > Grace

\* The job ends here; a slow unwind makes the worker replace its connection.
RetireOrReuse(w) ==
    /\ worker[w] = "retire"
    /\ WorkerGoes(w, IF SlowUnwind(job[w]) THEN "reopen" ELSE "recv")
    /\ job' = [job EXCEPT ![w] = None]
    /\ response' = [response EXCEPT ![w] = None]
    /\ UNCHANGED <<controlVars, callerVars, queue, statements, connections, cancels>>

Reopen(w) ==
    /\ worker[w] = "reopen"
    /\ \/ /\ connections' = [connections EXCEPT ![w] = @ + 1]
          /\ WorkerGoes(w, "swap")
       \/ /\ connections' = [connections EXCEPT ![w] = 0]
          /\ WorkerGoes(w, "exited")
    /\ UNCHANGED <<controlVars, callerVars, queue, job, response, statements, cancels>>

\* The assignment of the replacement drops the old connection.
Swap(w) ==
    /\ worker[w] = "swap"
    /\ connections' = [connections EXCEPT ![w] = @ - 1]
    /\ WorkerGoes(w, "recv")
    /\ UNCHANGED <<controlVars, callerVars, queue, job, response, statements, cancels>>

WorkerStep(w) ==
    \/ TakeExpired(w) \/ Take(w) \/ Activate(w) \/ Publish(w) \/ Recheck(w)
    \/ BeginStatement(w) \/ AbortStatement(w) \/ SearchDone(w)
    \/ ClearHandle(w) \/ Judge(w) \/ FinishSearch(w) \/ RemoveJob(w)
    \/ RetireOrReuse(w) \/ Reopen(w) \/ Swap(w)

CancelStep(x) == CancelExact(x) /\ UNCHANGED poolVars

TimePasses == Tick /\ UNCHANGED poolVars

Returned(c) == caller[c] \in {"refused", "returned", "abandoned"}

\* The daemon at rest: every call has returned, every worker waits for a job or is
\* gone, and no cancellation is under way.
AtRest ==
    /\ now = MaxTime
    /\ \A c \in Request : Returned(c)
    /\ queue = <<>> \/ Disconnected
    /\ \A w \in Worker : worker[w] \in {"recv", "exited"}
    /\ \A x \in Process : cx[x].step = "off"

Rest == AtRest /\ UNCHANGED vars

Next ==
    \/ \E c \in Request : Search(c)
    \/ \E k \in Canceller, i \in RequestId : Cancel(k, i)
    \/ \E w \in Worker : WorkerStep(w) \/ EndStatement(w) \/ StorageError(w)
    \/ \E x \in Process : CancelStep(x)
    \/ TimePasses
    \/ Rest

\* Threads are scheduled and time passes.  Nothing makes a statement end, or a
\* client cancel or submit: a running statement need only stop once it must.
Fairness ==
    /\ WF_vars(TimePasses)
    /\ \A c \in Request : WF_vars(Search(c) /\ caller[c] # "idle")
    /\ \A w \in Worker : WF_vars(WorkerStep(w))
    /\ \A x \in Process : WF_vars(CancelStep(x))

Spec == Init /\ [][Next]_vars /\ Fairness

----------------------------------------------------------------------------
(* Correctness.                                                            *)

\* Every variable keeps its type; the channel never holds more jobs than its capacity
\* and a worker at most a reader and its replacement.
PoolTypeOK ==
    /\ ControlTypeOK
    /\ caller \in [Request -> CallerSteps]
    /\ grace_end \in [Request -> 0..MaxTime + Grace]
    /\ queue \in Seq(Request) /\ Len(queue) <= QueueCapacity
    /\ worker \in [Worker -> WorkerSteps]
    /\ job \in [Worker -> Request \cup {None}]
    /\ response \in [Worker -> Terminals \cup {None}]
    /\ statements \in [Worker -> 0..Statements]
    /\ connections \in [Worker -> 0..2]
    /\ cancels \subseteq Canceller

\* Cancelling one request never interrupts another: sqlite3_interrupt hits whatever
\* runs on the connection, and the handle a control publishes is cleared before
\* its worker can take another job.
InterruptHitsItsRequest ==
    \A w \in interrupted : control[job[w]].cancelled

\* No search is answered with an interruption nobody asked for: when SQLite reports
\* one, the reason is already there for terminal_from_reason.
InterruptionHasReason ==
    \A c \in Request : mailbox[c] \notin {"interrupted", "no_reason"}

\* The processes that are past the point of deciding how request c ends.
Runs(w) == worker[w] \notin {"recv", "activate", "reopen", "swap", "exited"}
Finishers(c) ==
    {w \in Worker : Runs(w) /\ job[w] = c /\ worker[w] # "retire"}
    \cup {x \in Process : cx[x].target = c /\ cx[x].step \in {"send", "remove"}}

\* However cancels, deadlines and workers interleave, one of them alone runs or
\* answers a request: a request cancelled in the queue never enters SQLite, and
\* the answer of a search is never overtaken by a second one.
OneFinisher == \A c \in Request : Cardinality(Finishers(c)) <= 1

\* The requests that are in the pool's care: they wait in the queue, or run.
InCare(c) ==
    \/ control[c].phase = "active"
    \/ control[c].phase = "queued" /\ caller[c] \in {"try_send", "recv", "cancel"}

\* The registry holds what is alive and nothing else.  A request in the pool's care
\* is the one registered under its id, so that a cancel finds it: a control removed
\* late, when its id is in use again, does not take the new one with it.  And every
\* registered control has somebody who will still remove it: an entry left behind
\* would use up one place of the admission bound for ever.
RegistryIsExact ==
    /\ \A c \in Request : InCare(c) => registry[IdOf[c]] = c
    /\ \A i \in Registered :
           LET c == registry[i] IN
           \/ Finishers(c) # {}
           \/ control[c].phase = "queued" /\ caller[c] \in {"try_send", "undo", "recv", "cancel"}

\* What a client sees of the phase, the reason and the answer of its search.
Promise == INSTANCE SearchPromise WITH
    phase <- [c \in Request |-> control[c].phase],
    reason <- [c \in Request |-> control[c].reason],
    answer <- mailbox

\* The pool implements SearchPromise: a search given up in the queue is never run, the
\* first of several reasons to give it up is the one it is answered with, nothing
\* is called late before its deadline, and there is one answer, never changed.
KeepsPromise == Promise!PromiseSpec

\* Once the grace after a deadline is over the caller is gone, and every search
\* that was admitted returns, even when all workers hang in SQLite or have exited.
SearchReturns == \A c \in Request : caller[c] = "try_send" ~> Returned(c)

\* A worker that is running a statement gets free again: the deadline of the search
\* cancels it even after the interrupt was lost between two statements.
WorkerGetsFree ==
    \A w \in Worker : worker[w] = "running" ~> worker[w] \in {"recv", "exited"}

----------------------------------------------------------------------------
(* What comments and documents of the repository say, and the code does    *)
(* not do.                                                                 *)

\* runtime.rs, reader_worker: "Drop the interrupted connection before opening its
\* replacement".
OldConnectionDropped == \A w \in Worker : connections[w] <= 1

\* runtime.rs, search: "The worker remains occupied. Its elapsed cancellation time
\* forces a close/reopen before it takes another job."
AbandonedReaderRetires ==
    [][ \A w \in Worker : worker[w] = "retire" /\ worker'[w] = "recv"
            => caller[job[w]] # "abandoned" ]_vars

\* docs/session-history-indexing.md: a cancellation acknowledgement is the terminal
\* response "after the queued item is removed".
AcknowledgedAfterRemoval ==
    \A n \in 1..Len(queue) :
        ~ (caller[queue[n]] = "returned" /\ mailbox[queue[n]] = "cancelled")
=============================================================================
