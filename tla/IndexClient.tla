---------------------------- MODULE IndexClient -----------------------------
(***************************************************************************)
(* SessionIndexClient of session-index-client.mjs on one Unix socket, from *)
(* connectSessionIndexClient to close, and as much of the daemon as its    *)
(* socket shows.                                                           *)
(*                                                                         *)
(* Calls wait in a chain (#tail); one at a time is written and pending.    *)
(* A boundary (abort or deadline) that passes sends a cancel over a socket *)
(* of its own and waits a grace for the answer on this one.  An action is  *)
(* one event of the JavaScript loop: a timer, a chunk, a socket event.     *)
(* What resolves a pending request lets close() go on before the next job  *)
(* of the chain starts: close() awaits two promise jobs, the chain four.   *)
(***************************************************************************)
EXTENDS Naturals, Sequences

CONSTANTS
    Call,               \* calls the users of the client make
    Health,             \* the call connectSessionIndexClient makes itself
    MayExceed,          \* calls whose frame may exceed SESSION_INDEX_MAX_FRAME_BYTES
    None,               \* no request, no error
    MaxFaults           \* bound: frames the daemon should not have sent

Calls == Call \cup {Health}

Boundaries == {"aborted", "deadline_exceeded"}
Errors == Boundaries \cup {"client_closed", "socket_closed", "protocol_violation", "invalid_argument",
                           "cancellation_unacknowledged", "concurrent_request", "daemon_error"}

\* None, the errors and the calls can be told apart.
ASSUME ClientAssumption ==
    /\ Health \notin Call /\ None \notin Calls \cup Errors /\ Calls \cap Errors = {}
    /\ MayExceed \subseteq Call /\ MaxFaults \in Nat

VARIABLES
    activeCancellation, \* #activeCancellation: options.activeCancellation !== false
    oversized,      \* calls whose frame exceeds the limit
    conn,           \* connectSessionIndexClient: "connecting", "handshake", "ready", "failed"
    socket,         \* "none", "open", "ended" by this side, "destroyed"
    queue,          \* the jobs behind #tail
    status,         \* call -> "idle", "queued", "active", "resolved", "rejected"
    outcome,        \* call -> the error, or the request whose response it got
    pending,        \* #pending
    cancelling,     \* active calls whose cancellation has begun
    terminalError,  \* #terminalError
    closed,         \* #closed
    closing,        \* close(): "no", "grace", "socket", "done"
    waitsFor,       \* the request whose terminal frame close() awaits
    sent,           \* requests on the socket, in order
    taken,          \* how many of them the daemon has answered
    frames,         \* response frames on the way back
    controls,       \* cancels on the way to the daemon
    cancelled,      \* requests the daemon has cancelled
    faults          \* frames the daemon should not have sent, so far

options == <<activeCancellation, oversized>>
clientVars == <<queue, status, outcome, pending, cancelling, terminalError>>
closeVars == <<closed, closing, waitsFor>>
daemonVars == <<sent, taken, frames, controls, cancelled, faults>>
vars == <<options, conn, socket, clientVars, closeVars, daemonVars>>

Settled == {"resolved", "rejected"}
Kinds == {"ok", "error", "invalid", "garbage"}
Frame == [requestId : Calls, kind : Kinds]

Init ==
    /\ activeCancellation \in BOOLEAN /\ oversized \in SUBSET MayExceed
    /\ conn = "connecting" /\ socket = "none"
    /\ queue = <<>> /\ pending = None /\ cancelling = {} /\ terminalError = None
    /\ status = [c \in Calls |-> "idle"] /\ outcome = [c \in Calls |-> None]
    /\ closed = FALSE /\ closing = "no" /\ waitsFor = None
    /\ sent = <<>> /\ taken = 0 /\ frames = <<>>
    /\ controls = {} /\ cancelled = {} /\ faults = 0

----------------------------------------------------------------------------
(* Settling a call, and the end of the connection.                         *)

Settle(c, how, with) ==
    /\ status' = [status EXCEPT ![c] = how]
    /\ outcome' = [outcome EXCEPT ![c] = with]

\* #terminate: the first error wins; the pending request is rejected with it.
Terminate(e) ==
    /\ terminalError' = IF terminalError = None THEN e ELSE terminalError
    /\ pending' = IF terminalError = None THEN None ELSE pending
    /\ socket' = "destroyed"

\* Call c fails with error e, unless there is none.
Rejecting(c, e) == IF c = None THEN UNCHANGED <<status, outcome>> ELSE Settle(c, "rejected", e)

TerminateAnd(c, e) == Terminate(e) /\ Rejecting(c, e)

\* Mutant: the boundary gives up the call and leaves the connection as it is.
GiveUpOnly(c, e) == Settle(c, "rejected", e) /\ UNCHANGED <<terminalError, pending, socket>>

\* onUnacknowledged and the boundary of a client without active cancellation.
GiveUp(c, e) == TerminateAnd(c, e)

----------------------------------------------------------------------------
(* connectSessionIndexClient                                               *)

Enqueued(c) ==
    /\ status' = [status EXCEPT ![c] = "queued"]
    /\ queue' = Append(queue, c)

Connected ==
    /\ conn = "connecting" /\ socket = "none"
    /\ socket' = "open"
    /\ IF activeCancellation THEN conn' = "handshake" /\ Enqueued(Health)
                             ELSE conn' = "ready" /\ UNCHANGED <<status, queue>>
    /\ UNCHANGED <<outcome, pending, cancelling, terminalError, closeVars, daemonVars>>

\* raceBoundary or the socket's error event ends the attempt.
ConnectFails ==
    /\ conn = "connecting" /\ socket = "none"
    /\ conn' = "failed" /\ socket' = "destroyed"
    /\ UNCHANGED <<clientVars, closeVars, daemonVars>>

HandshakeOk ==
    /\ conn = "handshake" /\ status[Health] = "resolved"
    /\ conn' = "ready"
    /\ UNCHANGED <<socket, clientVars, closeVars, daemonVars>>

----------------------------------------------------------------------------
(* #enqueue and #roundTrip                                                 *)

Enqueue(c) ==
    /\ conn = "ready" /\ status[c] = "idle"
    /\ Enqueued(c)
    /\ UNCHANGED <<conn, socket, outcome, pending, cancelling, terminalError, closeVars, daemonVars>>

CloseGoesOn == closing = "grace" /\ pending # waitsFor

TurnOf(c) ==
    /\ queue # <<>> /\ c = Head(queue)
    /\ \A d \in Calls : status[d] # "active"
    /\ ~ CloseGoesOn
    /\ queue' = Tail(queue)
    /\ UNCHANGED <<conn, socket, cancelling, terminalError, closeVars,
                   taken, frames, controls, cancelled, faults>>

\* Mutant: the job does not look at its boundary again when its turn comes.
AlwaysInTime(c) == TRUE

\* ensureBoundary
EnsureBoundary(c) == status[c] = "queued"

\* Mutant: a closed client goes on with the jobs it has.
IgnoreClosed(c) == terminalError # None

RefusedAtTurn(c) == closed \/ terminalError # None

\* The call was rejected while it was queued: nothing is written.
SkipExpired(c) == TurnOf(c) /\ ~ EnsureBoundary(c) /\ UNCHANGED <<status, outcome, pending, sent>>

RefuseAtTurn(c) ==
    /\ TurnOf(c) /\ EnsureBoundary(c) /\ RefusedAtTurn(c)
    /\ Settle(c, "rejected", IF closed THEN "client_closed" ELSE terminalError)
    /\ UNCHANGED <<pending, sent>>

\* The request cannot be written: one is pending still, or its frame is too large.
RoundTripThrows(c) ==
    /\ TurnOf(c) /\ EnsureBoundary(c) /\ ~ RefusedAtTurn(c)
    /\ pending # None \/ c \in oversized
    /\ Settle(c, "rejected", IF pending # None THEN "concurrent_request" ELSE "invalid_argument")
    /\ UNCHANGED <<pending, sent>>

RoundTrip(c) ==
    /\ TurnOf(c) /\ EnsureBoundary(c) /\ ~ RefusedAtTurn(c)
    /\ pending = None /\ c \notin oversized
    /\ status' = [status EXCEPT ![c] = "active"]
    /\ pending' = c /\ sent' = Append(sent, c)
    /\ UNCHANGED outcome

Turn(c) == SkipExpired(c) \/ RefuseAtTurn(c) \/ RoundTripThrows(c) \/ RoundTrip(c)

----------------------------------------------------------------------------
(* Boundaries: raceQueuedBoundary, activeCancellationBoundary, raceBoundary *)

QueuedBoundary(c, why) ==
    /\ status[c] = "queued"
    /\ Settle(c, "rejected", why)
    /\ UNCHANGED <<conn, socket, queue, pending, cancelling, terminalError, closeVars, daemonVars>>

BeginCancellation(c) ==
    /\ activeCancellation /\ status[c] = "active" /\ c \notin cancelling
    /\ cancelling' = cancelling \cup {c} /\ controls' = controls \cup {c}
    /\ UNCHANGED <<conn, socket, queue, status, outcome, pending, terminalError, closeVars,
                   sent, taken, frames, cancelled, faults>>

\* The grace of a cancelled request ends without a terminal frame.
Unacknowledged(c) ==
    /\ c \in cancelling /\ status[c] = "active"
    /\ GiveUp(c, "cancellation_unacknowledged")
    /\ UNCHANGED <<conn, queue, cancelling, closeVars, daemonVars>>

ActiveBoundary(c, why) ==
    /\ ~ activeCancellation /\ status[c] = "active"
    /\ GiveUp(c, why)
    /\ UNCHANGED <<conn, queue, cancelling, closeVars, daemonVars>>

\* Mutant: a request that was started has no boundary any more.
BoundaryWhileQueued(c, why) == QueuedBoundary(c, why)

Boundary(c, why) == QueuedBoundary(c, why) \/ BeginCancellation(c) \/ ActiveBoundary(c, why)

----------------------------------------------------------------------------
(* #onData and #handleFrame                                                *)

\* Mutant: the request id of the envelope is not compared.
AnyEnvelope(f) == f.kind # "garbage"

\* validateEnvelope against the pending request
ValidEnvelope(f) == f.kind # "garbage" /\ f.requestId = pending

HandleFrame(f) ==
    \/ /\ pending = None \/ ~ ValidEnvelope(f)
       /\ TerminateAnd(pending, "protocol_violation")
    \/ /\ pending # None /\ ValidEnvelope(f) /\ f.kind = "invalid"
       /\ TerminateAnd(pending, "protocol_violation")
    \/ /\ pending # None /\ ValidEnvelope(f) /\ f.kind = "error"
       /\ Settle(pending, "rejected", "daemon_error")
       /\ pending' = None /\ UNCHANGED <<socket, terminalError>>
    \/ /\ pending # None /\ ValidEnvelope(f) /\ f.kind = "ok"
       /\ Settle(pending, "resolved", f.requestId)
       /\ pending' = None /\ UNCHANGED <<socket, terminalError>>

OnData ==
    /\ frames # <<>> /\ socket \in {"open", "ended"}
    /\ frames' = Tail(frames)
    /\ IF terminalError # None \/ closed
       THEN UNCHANGED <<socket, status, outcome, pending, terminalError>>
       ELSE HandleFrame(Head(frames))
    /\ UNCHANGED <<conn, queue, cancelling, closeVars, sent, taken, controls, cancelled, faults>>

\* The socket's error, end or failed write; the daemon closed it or died.
SocketFails ==
    /\ socket \in {"open", "ended"}
    /\ TerminateAnd(pending, "socket_closed")
    /\ UNCHANGED <<conn, queue, cancelling, closeVars, daemonVars>>

----------------------------------------------------------------------------
(* close                                                                   *)

SocketEnd == socket' = IF socket = "destroyed" THEN socket ELSE "ended"

\* A failed handshake closes the client too; close() of a closed client returns at once.
MayClose ==
    \/ conn = "ready"
    \/ conn = "handshake" /\ status[Health] = "rejected"

CloseWaits ==
    /\ MayClose /\ closing = "no"
    /\ pending # None /\ activeCancellation
    /\ closing' = "grace" /\ waitsFor' = pending /\ controls' = controls \cup {pending}
    /\ UNCHANGED <<conn, socket, clientVars, closed, sent, taken, frames, cancelled, faults>>

CloseAtOnce ==
    /\ MayClose /\ closing = "no"
    /\ pending = None \/ ~ activeCancellation
    /\ closed' = TRUE /\ closing' = "socket" /\ SocketEnd /\ pending' = None
    /\ Rejecting(pending, "client_closed")
    /\ UNCHANGED <<conn, queue, cancelling, terminalError, waitsFor, daemonVars>>

CloseAcknowledged ==
    /\ CloseGoesOn
    /\ closed' = TRUE /\ closing' = "socket" /\ SocketEnd
    /\ UNCHANGED <<conn, clientVars, waitsFor, daemonVars>>

CloseGraceEnds ==
    /\ closing = "grace" /\ pending = waitsFor
    /\ closed' = TRUE /\ closing' = "socket"
    /\ TerminateAnd(pending, "cancellation_unacknowledged")
    /\ UNCHANGED <<conn, queue, cancelling, waitsFor, daemonVars>>

\* The daemon does not end its side within a second.
DestroyAfterEnd ==
    /\ closing = "socket" /\ socket = "ended"
    /\ socket' = "destroyed"
    /\ UNCHANGED <<conn, clientVars, closeVars, daemonVars>>

CloseReturns ==
    /\ closing = "socket" /\ socket = "destroyed"
    /\ closing' = "done" /\ conn' = IF conn = "handshake" THEN "failed" ELSE conn
    /\ UNCHANGED <<socket, clientVars, closed, waitsFor, daemonVars>>

Close == CloseWaits \/ CloseAtOnce
CloseStep == CloseAcknowledged \/ CloseGraceEnds \/ DestroyAfterEnd \/ CloseReturns

----------------------------------------------------------------------------
(* The daemon, as its socket shows it.                                     *)

Serving == taken < Len(sent) /\ socket # "destroyed"

Answer(kind) ==
    /\ Serving
    /\ (sent[taken + 1] \in cancelled) => kind = "error"
    /\ frames' = Append(frames, [requestId |-> sent[taken + 1], kind |-> kind])
    /\ taken' = taken + 1
    /\ UNCHANGED <<conn, socket, clientVars, closeVars, sent, controls, cancelled, faults>>

\* A cancel is lost or late, or it finds its target.
ControlArrives(c) ==
    /\ c \in controls
    /\ controls' = controls \ {c}
    /\ \/ cancelled' = cancelled
       \/ Serving /\ sent[taken + 1] = c /\ cancelled' = cancelled \cup {c}
    /\ UNCHANGED <<conn, socket, clientVars, closeVars, sent, taken, frames, faults>>

\* A frame out of turn: a repeated answer, an unreadable one, one no validator accepts.
Misbehave ==
    /\ faults < MaxFaults /\ faults' = faults + 1 /\ socket # "destroyed" /\ sent # <<>>
    /\ \/ \E i \in 1..taken : frames' = Append(frames, [requestId |-> sent[i], kind |-> "ok"])
       \/ frames' = Append(frames, [requestId |-> sent[Len(sent)], kind |-> "garbage"])
    /\ UNCHANGED <<conn, socket, clientVars, closeVars, sent, taken, controls, cancelled>>

----------------------------------------------------------------------------

Deadline(c) == Boundary(c, "deadline_exceeded")

Step ==
    \/ Connected \/ ConnectFails \/ HandshakeOk
    \/ \E c \in Call : Enqueue(c)
    \/ \E c \in Calls : Turn(c) \/ Unacknowledged(c) \/ ControlArrives(c)
    \/ \E c \in Calls, why \in Boundaries : Boundary(c, why)
    \/ OnData \/ SocketFails
    \/ Close \/ CloseStep
    \/ \E kind \in {"ok", "error", "invalid"} : Answer(kind)
    \/ Misbehave

\* The options of a client do not change.
Next == Step /\ UNCHANGED options

Spec == Init /\ [][Next]_vars

\* Timers fire and promise jobs run.  Nothing is asked of the daemon.
Fixed == UNCHANGED options

Fairness ==
    /\ WF_vars((Connected \/ ConnectFails) /\ Fixed) /\ WF_vars(HandshakeOk /\ Fixed)
    /\ \A c \in Calls :
          /\ WF_vars(Turn(c) /\ Fixed) /\ WF_vars(Deadline(c) /\ Fixed)
          /\ WF_vars(Unacknowledged(c) /\ Fixed)
    /\ WF_vars(CloseStep /\ Fixed) /\ WF_vars(conn = "handshake" /\ Close /\ Fixed)

LiveSpec == Spec /\ Fairness

----------------------------------------------------------------------------
(* Properties                                                              *)

\* Types; a call has an outcome exactly when it is settled, and the pending
\* request is the active call.
ClientTypeOK ==
    /\ activeCancellation \in BOOLEAN /\ oversized \subseteq MayExceed
    /\ conn \in {"connecting", "handshake", "ready", "failed"}
    /\ socket \in {"none", "open", "ended", "destroyed"}
    /\ queue \in Seq(Calls) /\ sent \in Seq(Calls) /\ frames \in Seq(Frame)
    /\ status \in [Calls -> Settled \cup {"idle", "queued", "active"}]
    /\ outcome \in [Calls -> Errors \cup Calls \cup {None}]
    /\ \A c \in Calls : (outcome[c] = None) = (status[c] \notin Settled)
    /\ pending # None => status[pending] = "active"
    /\ terminalError \in Errors \cup {None}
    /\ cancelling \cup controls \cup cancelled \subseteq Calls
    /\ closed \in BOOLEAN /\ closing \in {"no", "grace", "socket", "done"}
    /\ taken \in 0..Len(sent) /\ faults \in 0..MaxFaults

\* No request is ever refused with "concurrent request", the error #roundTrip
\* calls a violated protocol invariant: a call that ends while the daemon still
\* works on it takes the connection with it.
NeverConcurrent == \A c \in Calls : outcome[c] # "concurrent_request"

\* A call resolves with the answer to its own request, whatever the daemon
\* repeats and however late the answers to cancelled requests are.
AnswerIsOwn == \A c \in Calls : status[c] = "resolved" => outcome[c] = c

\* close() leaves no request behind: once #closed is set nothing is pending, so
\* no request can wait for frames that #onData drops from then on.
ClosedHasNothingPending == closed => pending = None

\* "A queued call rejects without writing": a call that was settled before its
\* turn is not sent afterwards, and no call is settled twice.
SettledForGood ==
    [][\A c \in Calls : status[c] \in Settled =>
          status'[c] = status[c] /\ outcome'[c] = outcome[c] /\ pending' # c]_vars

\* Every call is answered or fails, with a daemon that never answers, during
\* close(), after the socket has failed.
EveryCallSettles == \A c \in Calls : status[c] = "queued" ~> status[c] \in Settled

\* close() returns, and a connection attempt ends with a usable client or with
\* a destroyed socket.
CloseEnds == (closing # "no") ~> (closing = "done")
ConnectEnds == <>(conn = "ready" \/ (conn = "failed" /\ socket = "destroyed"))
=============================================================================
