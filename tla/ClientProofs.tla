---------------------------- MODULE ClientProofs -----------------------------
(***************************************************************************)
(* Proofs about IndexClient: for any calls, frames and faults, no request  *)
(* is refused as concurrent, an answer belongs to the call it resolves,    *)
(* a closed client has no request pending and a settled call stays so.     *)
(*                                                                         *)
(* close() is what makes these facts depend on each other.  It clears the  *)
(* pending request by comparing it with the one it waited for; that this   *)
(* leaves nothing pending needs that no other request took its place, and  *)
(* the end of its grace clears the request only when no error came before, *)
(* so an error must have cleared it already.                               *)
(***************************************************************************)
EXTENDS IndexClient, SequenceTheorems, TLAPS

Refusals == Errors \ {"concurrent_request"}

\* The request a client with a terminal error or a closed client had is gone.
PendingShape ==
    /\ pending \in Calls \cup {None}
    /\ pending # None => status[pending] = "active"
    /\ terminalError # None => pending = None
    /\ closed => pending = None

\* While close() waits no other request takes the place of the one it waits for.
GraceShape ==
    /\ waitsFor \in Calls \cup {None}
    /\ closing = "grace" => waitsFor # None /\ pending \in {waitsFor, None}

ConnectShape == conn = "connecting" => \A c \in Calls : status[c] = "idle"

OutcomeShape ==
    /\ terminalError \in Refusals \cup {None}
    /\ \A c \in Calls : status[c] = "rejected" => outcome[c] \in Refusals
    /\ AnswerIsOwn

ClientInv == ClientTypeOK /\ PendingShape /\ GraceShape /\ ConnectShape /\ OutcomeShape

----------------------------------------------------------------------------
(* What a step does to the calls: nothing, or it queues, starts or ends    *)
(* one of them.                                                            *)

Verdict(c, how, with) ==
    (how = "resolved" /\ with = c) \/ (how = "rejected" /\ with \in Refusals)

CallsStay == UNCHANGED <<status, outcome>> /\ pending' \in {pending, None}

CallQueued ==
    \E c \in Calls :
        /\ conn' # "connecting"
        /\ status[c] = "idle" /\ status' = [status EXCEPT ![c] = "queued"]
        /\ UNCHANGED <<outcome, pending>>

CallStarts ==
    \E c \in Calls :
        /\ status[c] = "queued" /\ status' = [status EXCEPT ![c] = "active"]
        /\ ~closed /\ terminalError = None /\ closing # "grace"
        /\ \A d \in Calls : status[d] # "active"
        /\ pending' = c /\ UNCHANGED outcome

CallEnds ==
    \E c \in Calls, how \in Settled, with \in Errors \cup Calls :
        /\ status[c] \in {"queued", "active"}
        /\ Settle(c, how, with) /\ Verdict(c, how, with)
        /\ pending' \in {pending, None} \ {c}

Moves == CallsStay \/ CallQueued \/ CallStarts \/ CallEnds

LEMMA CallsApart ==
    /\ None \notin Calls /\ None \notin Errors /\ Health \in Calls /\ Call \subseteq Calls
    /\ Boundaries \subseteq Refusals
    /\ {"client_closed", "socket_closed", "protocol_violation", "invalid_argument",
        "cancellation_unacknowledged", "daemon_error"} \subseteq Refusals
BY ClientAssumption DEF Calls, Refusals, Errors, Boundaries

\* A call that is not settled can be rejected.
LEMMA RejectEnds ==
    ASSUME NEW c \in Calls, NEW e \in Refusals, status[c] \in {"queued", "active"},
           Settle(c, "rejected", e), pending' \in {pending, None}, pending' # c
    PROVE  Moves
<1>1. "rejected" \in Settled /\ e \in Errors \cup Calls
  BY DEF Settled, Refusals
<1>2. Verdict(c, "rejected", e)
  BY DEF Verdict
<1>3. CallEnds
  BY <1>1, <1>2 DEF CallEnds
<1> QED BY <1>3 DEF Moves

\* The end of the connection rejects at most one call, which is then not pending.
LEMMA TerminateMoves ==
    ASSUME ClientInv, NEW c \in Calls \cup {None}, NEW e \in Refusals, TerminateAnd(c, e),
           c # None => status[c] = "active"
    PROVE  Moves
<1>1. pending' \in {pending, None}
  BY DEF TerminateAnd, Terminate
<1>2. c # None => pending' # c
  BY CallsApart DEF TerminateAnd, Terminate, ClientInv, PendingShape
<1>3. CASE c = None
  BY <1>1, <1>3 DEF TerminateAnd, Rejecting, Moves, CallsStay
<1>4. CASE c # None
  <2>1. c \in Calls /\ Settle(c, "rejected", e)
    BY <1>4 DEF TerminateAnd, Rejecting
  <2> QED BY <1>1, <1>2, <1>4, <2>1, RejectEnds
<1> QED BY <1>3, <1>4

LEMMA ConnectMoves ==
    ASSUME ClientInv, Connected \/ ConnectFails \/ HandshakeOk \/ (\E c \in Call : Enqueue(c))
    PROVE  Moves
<1>1. CASE Connected
  <2>1. CASE activeCancellation
    <3>1. /\ Health \in Calls /\ status[Health] = "idle" /\ conn' = "handshake"
          /\ status' = [status EXCEPT ![Health] = "queued"] /\ UNCHANGED <<outcome, pending>>
      BY <1>1, <2>1, CallsApart DEF Connected, Enqueued, ClientInv, ConnectShape
    <3> QED BY <3>1 DEF Moves, CallQueued
  <2>2. CASE ~activeCancellation
    BY <1>1, <2>2 DEF Connected, Moves, CallsStay
  <2> QED BY <2>1, <2>2
<1>2. CASE ConnectFails \/ HandshakeOk
  BY <1>2 DEF ConnectFails, HandshakeOk, clientVars, Moves, CallsStay
<1>3. ASSUME NEW c \in Call, Enqueue(c)
      PROVE  Moves
  <2>1. /\ c \in Calls /\ status[c] = "idle" /\ conn' # "connecting"
        /\ status' = [status EXCEPT ![c] = "queued"] /\ UNCHANGED <<outcome, pending>>
    BY <1>3, CallsApart DEF Enqueue, Enqueued
  <2> QED BY <2>1 DEF Moves, CallQueued
<1> QED BY <1>1, <1>2, <1>3

\* At its turn no other call is active, so no request can be pending.
LEMMA TurnMoves ==
    ASSUME ClientInv, NEW c \in Calls, Turn(c)
    PROVE  Moves
<1>1. /\ \A d \in Calls : status[d] # "active"
      /\ ~CloseGoesOn
      /\ UNCHANGED closed
  BY DEF Turn, SkipExpired, RefuseAtTurn, RoundTripThrows, RoundTrip, TurnOf, closeVars
<1>2. pending = None
  BY <1>1 DEF ClientInv, PendingShape
<1>3. CASE SkipExpired(c)
  BY <1>3 DEF SkipExpired, Moves, CallsStay
<1>4. CASE RefuseAtTurn(c)
  <2> DEFINE e == IF closed THEN "client_closed" ELSE terminalError
  <2>1. e \in Refusals
    BY <1>4, CallsApart DEF RefuseAtTurn, RefusedAtTurn, ClientInv, OutcomeShape
  <2>2. status[c] = "queued" /\ Settle(c, "rejected", e) /\ pending' = pending
    BY <1>4 DEF RefuseAtTurn, EnsureBoundary
  <2>3. pending' # c
    BY <1>2, <2>2, CallsApart
  <2> HIDE DEF e
  <2> QED BY <2>1, <2>2, <2>3, RejectEnds
<1>5. CASE RoundTripThrows(c)
  <2>1. status[c] = "queued" /\ Settle(c, "rejected", "invalid_argument") /\ pending' = pending
    BY <1>2, <1>5 DEF RoundTripThrows, EnsureBoundary
  <2>2. pending' # c /\ "invalid_argument" \in Refusals
    BY <1>2, <2>1, CallsApart
  <2> QED BY <2>1, <2>2, RejectEnds
<1>6. CASE RoundTrip(c)
  <2>1. /\ status[c] = "queued" /\ status' = [status EXCEPT ![c] = "active"]
        /\ ~closed /\ terminalError = None /\ pending' = c /\ UNCHANGED outcome
    BY <1>6 DEF RoundTrip, EnsureBoundary, RefusedAtTurn
  <2>2. closing # "grace"
    BY <1>1, <1>2 DEF CloseGoesOn, ClientInv, GraceShape
  <2> QED BY <1>1, <2>1, <2>2 DEF Moves, CallStarts
<1> QED BY <1>3, <1>4, <1>5, <1>6 DEF Turn

LEMMA BoundaryMoves ==
    ASSUME ClientInv, NEW c \in Calls,
           Unacknowledged(c) \/ (\E why \in Boundaries : Boundary(c, why))
    PROVE  Moves
<1>1. CASE Unacknowledged(c)
  <2>1. status[c] = "active" /\ TerminateAnd(c, "cancellation_unacknowledged")
    BY <1>1 DEF Unacknowledged, GiveUp
  <2>2. "cancellation_unacknowledged" \in Refusals
    BY CallsApart
  <2> QED BY <2>1, <2>2, TerminateMoves
<1>2. ASSUME NEW why \in Boundaries, QueuedBoundary(c, why)
      PROVE  Moves
  <2>1. status[c] = "queued" /\ Settle(c, "rejected", why) /\ pending' = pending
    BY <1>2 DEF QueuedBoundary
  <2>2. pending' # c
    BY <2>1, CallsApart DEF ClientInv, PendingShape
  <2>3. why \in Refusals
    BY CallsApart
  <2> QED BY <2>1, <2>2, <2>3, RejectEnds
<1>3. CASE BeginCancellation(c)
  BY <1>3 DEF BeginCancellation, Moves, CallsStay
<1>4. ASSUME NEW why \in Boundaries, ActiveBoundary(c, why)
      PROVE  Moves
  <2>1. status[c] = "active" /\ TerminateAnd(c, why)
    BY <1>4 DEF ActiveBoundary, GiveUp
  <2>2. why \in Refusals
    BY CallsApart
  <2> QED BY <2>1, <2>2, TerminateMoves
<1> QED BY <1>1, <1>2, <1>3, <1>4 DEF Boundary

\* A frame settles the pending call or none.
LEMMA DataMoves ==
    ASSUME ClientInv, OnData \/ SocketFails
    PROVE  Moves
<1>1. pending \in Calls \cup {None} /\ (pending # None => status[pending] = "active")
  BY DEF ClientInv, PendingShape
<1>2. "protocol_violation" \in Refusals /\ "socket_closed" \in Refusals /\ "daemon_error" \in Refusals
  BY CallsApart
<1>3. CASE SocketFails
  <2>1. TerminateAnd(pending, "socket_closed")
    BY <1>3 DEF SocketFails
  <2> QED BY <1>1, <1>2, <2>1, TerminateMoves
<1>4. CASE OnData /\ UNCHANGED <<status, outcome, pending>>
  BY <1>4 DEF Moves, CallsStay
<1>5. ASSUME NEW f, HandleFrame(f)
      PROVE  Moves
  <2>1. CASE TerminateAnd(pending, "protocol_violation")
    BY <1>1, <1>2, <2>1, TerminateMoves
  <2>2. CASE pending # None /\ Settle(pending, "rejected", "daemon_error") /\ pending' = None
    <3>1. pending \in Calls
      BY <1>1, <2>2
    <3> QED BY <1>1, <1>2, <2>2, <3>1, RejectEnds
  <2>3. CASE pending # None /\ Settle(pending, "resolved", f.requestId) /\ pending' = None
             /\ f.requestId = pending
    <3>1. pending \in Calls /\ "resolved" \in Settled /\ pending' \in {pending, None} \ {pending}
      BY <1>1, <2>3 DEF Settled
    <3>2. Verdict(pending, "resolved", pending)
      BY DEF Verdict
    <3>3. CallEnds
      BY <1>1, <2>3, <3>1, <3>2 DEF CallEnds
    <3> QED BY <3>3 DEF Moves
  <2> QED BY <1>5, <2>1, <2>2, <2>3 DEF HandleFrame, ValidEnvelope
<1> QED BY <1>3, <1>4, <1>5 DEF OnData

LEMMA CloseMoves ==
    ASSUME ClientInv, Close \/ CloseStep
    PROVE  Moves
<1>1. pending \in Calls \cup {None} /\ (pending # None => status[pending] = "active")
  BY DEF ClientInv, PendingShape
<1>2. "client_closed" \in Refusals /\ "cancellation_unacknowledged" \in Refusals
  BY CallsApart
<1>3. CASE CloseAtOnce
  <2>1. pending' = None /\ Rejecting(pending, "client_closed")
    BY <1>3 DEF CloseAtOnce
  <2>2. CASE pending = None
    BY <2>1, <2>2 DEF Rejecting, Moves, CallsStay
  <2>3. CASE pending # None
    <3>1. pending \in Calls /\ Settle(pending, "rejected", "client_closed")
      BY <1>1, <2>1, <2>3 DEF Rejecting
    <3> QED BY <1>1, <1>2, <2>1, <2>3, <3>1, RejectEnds
  <2> QED BY <2>2, <2>3
<1>4. CASE CloseGraceEnds
  <2>1. TerminateAnd(pending, "cancellation_unacknowledged")
    BY <1>4 DEF CloseGraceEnds
  <2> QED BY <1>1, <1>2, <2>1, TerminateMoves
<1>5. CASE CloseWaits \/ CloseAcknowledged \/ DestroyAfterEnd \/ CloseReturns
  BY <1>5 DEF CloseWaits, CloseAcknowledged, DestroyAfterEnd, CloseReturns, clientVars, Moves,
             CallsStay
<1> QED BY <1>3, <1>4, <1>5 DEF Close, CloseStep

LEMMA DaemonMoves ==
    ASSUME (\E kind \in {"ok", "error", "invalid"} : Answer(kind)) \/ Misbehave
           \/ (\E c \in Calls : ControlArrives(c))
    PROVE  Moves
<1>1. UNCHANGED clientVars
  BY DEF Answer, Misbehave, ControlArrives
<1> QED BY <1>1 DEF clientVars, Moves, CallsStay

LEMMA StepMoves == ClientInv /\ Step => Moves
BY ConnectMoves, TurnMoves, BoundaryMoves, DataMoves, CloseMoves, DaemonMoves DEF Step

----------------------------------------------------------------------------
(* The calls                                                               *)

CallsTyped ==
    /\ status \in [Calls -> Settled \cup {"idle", "queued", "active"}]
    /\ outcome \in [Calls -> Errors \cup Calls \cup {None}]
    /\ \A c \in Calls : (outcome[c] = None) = (status[c] \notin Settled)

LEMMA CallsTypedStep == ClientInv /\ Moves => CallsTyped'
<1> SUFFICES ASSUME ClientInv, Moves PROVE CallsTyped'
  OBVIOUS
<1>1. /\ status \in [Calls -> Settled \cup {"idle", "queued", "active"}]
      /\ outcome \in [Calls -> Errors \cup Calls \cup {None}]
      /\ \A c \in Calls : (outcome[c] = None) <=> (status[c] \notin Settled)
  BY DEF ClientInv, ClientTypeOK
<1>2. CASE CallsStay
  BY <1>1, <1>2 DEF CallsStay, CallsTyped
<1>3. CASE CallQueued
  <2>1. PICK c \in Calls : /\ status[c] = "idle" /\ status' = [status EXCEPT ![c] = "queued"]
                           /\ UNCHANGED outcome
    BY <1>3 DEF CallQueued
  <2>2. \A d \in Calls : status'[d] \in Settled <=> status[d] \in Settled
    BY <1>1, <2>1 DEF Settled
  <2>3. status' \in [Calls -> Settled \cup {"idle", "queued", "active"}]
    BY <1>1, <2>1
  <2> QED BY <1>1, <2>1, <2>2, <2>3 DEF CallsTyped
<1>4. CASE CallStarts
  <2>1. PICK c \in Calls : /\ status[c] = "queued" /\ status' = [status EXCEPT ![c] = "active"]
                           /\ UNCHANGED outcome
    BY <1>4 DEF CallStarts
  <2>2. \A d \in Calls : status'[d] \in Settled <=> status[d] \in Settled
    BY <1>1, <2>1 DEF Settled
  <2>3. status' \in [Calls -> Settled \cup {"idle", "queued", "active"}]
    BY <1>1, <2>1
  <2> QED BY <1>1, <2>1, <2>2, <2>3 DEF CallsTyped
<1>5. CASE CallEnds
  <2>1. PICK c \in Calls, how \in Settled, with \in Errors \cup Calls :
           status' = [status EXCEPT ![c] = how] /\ outcome' = [outcome EXCEPT ![c] = with]
    BY <1>5 DEF CallEnds, Settle
  <2>2. with # None
    BY <2>1, CallsApart
  <2>3. \A d \in Calls : /\ status'[d] = (IF d = c THEN how ELSE status[d])
                         /\ outcome'[d] = (IF d = c THEN with ELSE outcome[d])
    BY <1>1, <2>1
  <2>4. \A d \in Calls : (outcome'[d] = None) <=> (status'[d] \notin Settled)
    BY <1>1, <2>1, <2>2, <2>3
  <2>5. /\ status' \in [Calls -> Settled \cup {"idle", "queued", "active"}]
        /\ outcome' \in [Calls -> Errors \cup Calls \cup {None}]
    BY <1>1, <2>1
  <2> QED BY <2>4, <2>5 DEF CallsTyped
<1> QED BY <1>2, <1>3, <1>4, <1>5 DEF Moves

\* The status and the outcome of every call after the step.
LEMMA CallAfter ==
    ASSUME ClientInv, Moves, NEW c \in Calls
    PROVE  \/ status'[c] = status[c] /\ outcome'[c] = outcome[c]
           \/ status[c] \notin Settled /\ status'[c] \notin Settled /\ outcome'[c] = outcome[c]
           \/ /\ status[c] \notin Settled
              /\ Verdict(c, status'[c], outcome'[c])
<1>1. /\ status \in [Calls -> Settled \cup {"idle", "queued", "active"}]
      /\ outcome \in [Calls -> Errors \cup Calls \cup {None}]
  BY DEF ClientInv, ClientTypeOK
<1>2. CASE CallsStay
  BY <1>2 DEF CallsStay
<1>3. CASE CallQueued
  BY <1>1, <1>3 DEF CallQueued, Settled
<1>4. CASE CallStarts
  BY <1>1, <1>4 DEF CallStarts, Settled
<1>5. CASE CallEnds
  <2>1. PICK d \in Calls, how \in Settled, with \in Errors \cup Calls :
           /\ status' = [status EXCEPT ![d] = how] /\ outcome' = [outcome EXCEPT ![d] = with]
           /\ Verdict(d, how, with) /\ status[d] \in {"queued", "active"}
    BY <1>5 DEF CallEnds, Settle
  <2>2. CASE c = d
    BY <1>1, <2>1, <2>2 DEF Settled
  <2>3. CASE c # d
    BY <1>1, <2>1, <2>3
  <2> QED BY <2>2, <2>3
<1> QED BY <1>2, <1>3, <1>4, <1>5 DEF Moves

\* A request that is pending is the active call.
LEMMA PendingActive ==
    ASSUME ClientInv, Moves
    PROVE  /\ pending' \in Calls \cup {None}
           /\ pending' # None => status'[pending'] = "active"
<1>1. /\ status \in [Calls -> Settled \cup {"idle", "queued", "active"}]
      /\ pending \in Calls \cup {None} /\ (pending # None => status[pending] = "active")
  BY DEF ClientInv, ClientTypeOK, PendingShape
<1>2. CASE CallsStay
  BY <1>1, <1>2 DEF CallsStay
<1>3. CASE CallQueued
  BY <1>1, <1>3 DEF CallQueued
<1>4. CASE CallStarts
  BY <1>1, <1>4 DEF CallStarts
<1>5. CASE CallEnds
  BY <1>1, <1>5 DEF CallEnds, Settle
<1> QED BY <1>2, <1>3, <1>4, <1>5 DEF Moves

\* An error or a closed client leaves nothing pending, and nothing starts then.
LEMMA PendingGone ==
    ASSUME ClientInv, Moves, Step
    PROVE  /\ terminalError' # None => pending' = None
           /\ closed' => pending' = None
<1>1. /\ terminalError # None => pending = None
      /\ closed => pending = None
      /\ closing = "grace" => waitsFor # None /\ pending \in {waitsFor, None}
  BY DEF ClientInv, PendingShape, GraceShape
<1>2. terminalError' # terminalError => pending' = None
  BY DEF Step, Connected, ConnectFails, HandshakeOk, Enqueue, Turn, SkipExpired, RefuseAtTurn,
         RoundTripThrows, RoundTrip, TurnOf, Unacknowledged, ControlArrives, Boundary,
         QueuedBoundary, BeginCancellation, ActiveBoundary, GiveUp, TerminateAnd, Terminate, OnData,
         HandleFrame, SocketFails, Close, CloseStep, CloseWaits, CloseAtOnce, CloseAcknowledged,
         CloseGraceEnds, DestroyAfterEnd, CloseReturns, Answer, Misbehave, clientVars
<1>3. closed' # closed => pending' = None
  <2>1. \/ UNCHANGED closed
        \/ CloseAtOnce \/ CloseAcknowledged \/ CloseGraceEnds
    BY DEF Step, Connected, ConnectFails, HandshakeOk, Enqueue, Turn, SkipExpired, RefuseAtTurn,
         RoundTripThrows, RoundTrip, TurnOf, Unacknowledged, ControlArrives, Boundary,
         QueuedBoundary, BeginCancellation, ActiveBoundary, OnData,
         SocketFails, Close, CloseStep, CloseWaits,
         DestroyAfterEnd, CloseReturns, Answer, Misbehave, closeVars
  <2>2. CASE CloseAtOnce
    BY <2>2 DEF CloseAtOnce
  <2>3. CASE CloseAcknowledged
    BY <1>1, <2>3 DEF CloseAcknowledged, CloseGoesOn, clientVars
  <2>4. CASE CloseGraceEnds
    BY <1>1, <2>4 DEF CloseGraceEnds, TerminateAnd, Terminate
  <2> QED BY <2>1, <2>2, <2>3, <2>4
<1>4. CASE pending' \in {pending, None}
  BY <1>1, <1>2, <1>3, <1>4
<1>5. CASE CallStarts
  <2>1. terminalError = None /\ ~closed
    BY <1>5 DEF CallStarts
  <2>2. pending' # None
    BY <1>5, CallsApart DEF CallStarts
  <2>3. closed \in BOOLEAN /\ closed' \in BOOLEAN
    <3>1. closed \in BOOLEAN
      BY DEF ClientInv, ClientTypeOK
    <3>2. closed' \in {closed, TRUE}
      BY DEF Step, Connected, ConnectFails, HandshakeOk, Enqueue, Turn, SkipExpired, RefuseAtTurn,
         RoundTripThrows, RoundTrip, TurnOf, Unacknowledged, ControlArrives, Boundary,
         QueuedBoundary, BeginCancellation, ActiveBoundary, OnData, CloseAtOnce, CloseAcknowledged,
         CloseGraceEnds, SocketFails, Close, CloseStep, CloseWaits,
         DestroyAfterEnd, CloseReturns, Answer, Misbehave, closeVars
    <3> QED BY <3>1, <3>2
  <2> QED BY <1>2, <1>3, <2>1, <2>2, <2>3
<1> QED BY <1>4, <1>5 DEF Moves, CallsStay, CallQueued, CallEnds

----------------------------------------------------------------------------
(* The other variables                                                     *)

\* conn, socket, closing, closed and what close() waits for.
LEMMA ConnectionStep ==
    ASSUME ClientInv, Step
    PROVE  /\ conn' \in {"connecting", "handshake", "ready", "failed"}
           /\ conn' = "connecting" => conn = "connecting"
           /\ socket' \in {"none", "open", "ended", "destroyed"}
           /\ closed' \in BOOLEAN /\ closing' \in {"no", "grace", "socket", "done"}
           /\ waitsFor' \in Calls \cup {None}
           /\ closing' = "grace" => \/ closing = "grace" /\ waitsFor' = waitsFor
                                    \/ waitsFor' = pending /\ pending # None /\ UNCHANGED pending
<1>1. /\ conn \in {"connecting", "handshake", "ready", "failed"}
      /\ socket \in {"none", "open", "ended", "destroyed"}
      /\ closed \in BOOLEAN /\ closing \in {"no", "grace", "socket", "done"}
      /\ waitsFor \in Calls \cup {None} /\ pending \in Calls \cup {None}
  BY DEF ClientInv, ClientTypeOK, PendingShape, GraceShape
<1>2. CASE Connected \/ ConnectFails \/ HandshakeOk \/ (\E c \in Call : Enqueue(c))
  BY <1>1, <1>2 DEF Connected, ConnectFails, HandshakeOk, Enqueue, closeVars
<1>3. CASE \E c \in Calls : Turn(c) \/ Unacknowledged(c) \/ ControlArrives(c)
  BY <1>1, <1>3 DEF Turn, SkipExpired, RefuseAtTurn, RoundTripThrows, RoundTrip, TurnOf,
                    Unacknowledged, GiveUp, TerminateAnd, Terminate, ControlArrives, closeVars
<1>4. CASE \E c \in Calls, why \in Boundaries : Boundary(c, why)
  BY <1>1, <1>4 DEF Boundary, QueuedBoundary, BeginCancellation, ActiveBoundary, GiveUp,
                    TerminateAnd, Terminate, closeVars
<1>5. CASE OnData \/ SocketFails
  BY <1>1, <1>5 DEF OnData, HandleFrame, SocketFails, TerminateAnd, Terminate, closeVars
<1>6. CASE Close
  BY <1>1, <1>6 DEF Close, CloseWaits, CloseAtOnce, SocketEnd, clientVars
<1>7. CASE CloseStep
  BY <1>1, <1>7 DEF CloseStep, CloseAcknowledged, CloseGraceEnds, DestroyAfterEnd, CloseReturns,
                    SocketEnd, TerminateAnd, Terminate, closeVars
<1>8. CASE (\E kind \in {"ok", "error", "invalid"} : Answer(kind)) \/ Misbehave
  BY <1>1, <1>8 DEF Answer, Misbehave, closeVars
<1> QED BY <1>2, <1>3, <1>4, <1>5, <1>6, <1>7, <1>8 DEF Step

LEMMA QueueStep == ClientInv /\ Step => queue' \in Seq(Calls)
<1> SUFFICES ASSUME ClientInv, Step PROVE queue' \in Seq(Calls)
  OBVIOUS
<1>1. queue \in Seq(Calls)
  BY DEF ClientInv, ClientTypeOK
<1>2. \/ UNCHANGED queue
      \/ \E c \in Calls : queue' = Append(queue, c)
      \/ queue # <<>> /\ queue' = Tail(queue)
  BY CallsApart DEF Step, Connected, ConnectFails, HandshakeOk, Enqueue, Enqueued, Turn, SkipExpired,
         RefuseAtTurn, RoundTripThrows, RoundTrip, TurnOf, Unacknowledged, ControlArrives, Boundary,
         QueuedBoundary, BeginCancellation, ActiveBoundary, OnData, SocketFails, Close, CloseStep,
         CloseWaits, CloseAtOnce, CloseAcknowledged, CloseGraceEnds, DestroyAfterEnd, CloseReturns,
         Answer, Misbehave, clientVars
<1>3. queue # <<>> => Tail(queue) \in Seq(Calls)
  BY <1>1, HeadTailProperties
<1>4. \A c \in Calls : Append(queue, c) \in Seq(Calls)
  BY <1>1, AppendProperties
<1> QED BY <1>1, <1>2, <1>3, <1>4

\* The daemon answers what was sent, so a frame names a call.
LEMMA DaemonStep ==
    ASSUME ClientInv, Step
    PROVE  /\ sent' \in Seq(Calls) /\ frames' \in Seq(Frame) /\ taken' \in 0..Len(sent')
           /\ cancelling' \cup controls' \cup cancelled' \subseteq Calls /\ faults' \in 0..MaxFaults
<1>1. /\ sent \in Seq(Calls) /\ frames \in Seq(Frame) /\ taken \in 0..Len(sent)
      /\ cancelling \subseteq Calls /\ controls \subseteq Calls /\ cancelled \subseteq Calls
      /\ faults \in 0..MaxFaults /\ pending \in Calls \cup {None}
      /\ Len(sent) \in Nat /\ MaxFaults \in Nat
  BY LenProperties, ClientAssumption DEF ClientInv, ClientTypeOK, PendingShape
<1>2. sent' \in Seq(Calls) /\ taken' \in 0..Len(sent')
  <2>1. \/ UNCHANGED <<sent, taken>>
        \/ UNCHANGED taken /\ \E c \in Calls : sent' = Append(sent, c)
        \/ UNCHANGED sent /\ taken < Len(sent) /\ taken' = taken + 1
    BY DEF Step, Connected, ConnectFails, HandshakeOk, Enqueue, Turn, SkipExpired,
         RefuseAtTurn, RoundTripThrows, RoundTrip, TurnOf, Unacknowledged, ControlArrives, Boundary,
         QueuedBoundary, BeginCancellation, ActiveBoundary, OnData, SocketFails, Close, CloseStep,
         CloseWaits, CloseAtOnce, CloseAcknowledged, CloseGraceEnds, DestroyAfterEnd, CloseReturns,
         Answer, Serving, Misbehave, daemonVars
  <2>2. CASE UNCHANGED <<sent, taken>>
    BY <1>1, <2>2
  <2>3. ASSUME NEW c \in Calls, sent' = Append(sent, c), UNCHANGED taken
        PROVE  sent' \in Seq(Calls) /\ taken' \in 0..Len(sent')
    <3>1. sent' \in Seq(Calls) /\ Len(sent') = Len(sent) + 1
      BY <1>1, <2>3, AppendProperties
    <3> QED BY <1>1, <2>3, <3>1
  <2>4. CASE UNCHANGED sent /\ taken < Len(sent) /\ taken' = taken + 1
    BY <1>1, <2>4
  <2> QED BY <2>1, <2>2, <2>3, <2>4
<1>3. frames' \in Seq(Frame)
  <2>1. \/ UNCHANGED frames
        \/ frames # <<>> /\ frames' = Tail(frames)
        \/ \E kind \in {"ok", "error", "invalid"} : Answer(kind)
        \/ Misbehave
    BY DEF Step, Connected, ConnectFails, HandshakeOk, Enqueue, Turn, SkipExpired,
         RefuseAtTurn, RoundTripThrows, RoundTrip, TurnOf, Unacknowledged, ControlArrives, Boundary,
         QueuedBoundary, BeginCancellation, ActiveBoundary, OnData, SocketFails, Close, CloseStep,
         CloseWaits, CloseAtOnce, CloseAcknowledged, CloseGraceEnds, DestroyAfterEnd, CloseReturns,
         daemonVars
  <2>2. frames # <<>> => Tail(frames) \in Seq(Frame)
    BY <1>1, HeadTailProperties
  <2>3. \A i \in 1..Len(sent), kind \in Kinds : [requestId |-> sent[i], kind |-> kind] \in Frame
    BY <1>1, ElementOfSeq DEF Frame
  <2>4. \A f \in Frame : Append(frames, f) \in Seq(Frame)
    BY <1>1, AppendProperties
  <2>5. ASSUME NEW kind \in {"ok", "error", "invalid"}, Answer(kind)
        PROVE  frames' \in Seq(Frame)
    <3>1. taken + 1 \in 1..Len(sent)
      BY <1>1, <2>5 DEF Answer, Serving
    <3>2. kind \in Kinds
      BY DEF Kinds
    <3> QED BY <2>3, <2>4, <2>5, <3>1, <3>2 DEF Answer
  <2>6. CASE Misbehave
    <3>1. Len(sent) \in 1..Len(sent) /\ 1..taken \subseteq 1..Len(sent)
      BY <1>1, <2>6, EmptySeq DEF Misbehave
    <3>2. "ok" \in Kinds /\ "garbage" \in Kinds
      BY DEF Kinds
    <3> QED BY <2>3, <2>4, <2>6, <3>1, <3>2 DEF Misbehave
  <2> QED BY <1>1, <2>1, <2>2, <2>5, <2>6
<1>4. cancelling' \subseteq Calls /\ controls' \subseteq Calls /\ cancelled' \subseteq Calls
  <2>1. \/ UNCHANGED <<cancelling, controls, cancelled>>
        \/ \E c \in Calls : BeginCancellation(c) \/ ControlArrives(c)
        \/ CloseWaits
    BY DEF Step, Connected, ConnectFails, HandshakeOk, Enqueue, Turn, SkipExpired,
         RefuseAtTurn, RoundTripThrows, RoundTrip, TurnOf, Unacknowledged, Boundary,
         QueuedBoundary, ActiveBoundary, OnData, SocketFails, Close, CloseStep,
         CloseAtOnce, CloseAcknowledged, CloseGraceEnds, DestroyAfterEnd, CloseReturns,
         Answer, Misbehave, clientVars, daemonVars
  <2> QED BY <1>1, <2>1 DEF BeginCancellation, ControlArrives, CloseWaits, clientVars
<1>5. faults' \in 0..MaxFaults
  <2>1. UNCHANGED faults \/ (faults < MaxFaults /\ faults' = faults + 1)
    BY DEF Step, Connected, ConnectFails, HandshakeOk, Enqueue, Turn, SkipExpired,
         RefuseAtTurn, RoundTripThrows, RoundTrip, TurnOf, Unacknowledged, ControlArrives, Boundary,
         QueuedBoundary, BeginCancellation, ActiveBoundary, OnData, SocketFails, Close, CloseStep,
         CloseWaits, CloseAtOnce, CloseAcknowledged, CloseGraceEnds, DestroyAfterEnd, CloseReturns,
         Answer, Misbehave, daemonVars
  <2> QED BY <1>1, <2>1
<1> QED BY <1>2, <1>3, <1>4, <1>5

LEMMA ErrorStep == ClientInv /\ Step => terminalError' \in Refusals \cup {None}
<1> SUFFICES ASSUME ClientInv, Step PROVE terminalError' \in Refusals \cup {None}
  OBVIOUS
<1>1. terminalError \in Refusals \cup {None}
  BY DEF ClientInv, OutcomeShape
<1>2. UNCHANGED terminalError \/ \E e \in Refusals : Terminate(e)
  BY CallsApart DEF Step, Connected, ConnectFails, HandshakeOk, Enqueue, Turn, SkipExpired,
         RefuseAtTurn, RoundTripThrows, RoundTrip, TurnOf, Unacknowledged, ControlArrives, Boundary,
         QueuedBoundary, BeginCancellation, ActiveBoundary, GiveUp, TerminateAnd, OnData, HandleFrame,
         SocketFails, Close, CloseStep, CloseWaits, CloseAtOnce, CloseAcknowledged, CloseGraceEnds,
         DestroyAfterEnd, CloseReturns, Answer, Misbehave, clientVars
<1> QED BY <1>1, <1>2 DEF Terminate

----------------------------------------------------------------------------
(* The inductive invariant                                                 *)

LEMMA ClientInvInit == Init => ClientInv
<1> SUFFICES ASSUME Init PROVE ClientInv
  OBVIOUS
<1>1. <<>> \in Seq(Calls) /\ <<>> \in Seq(Frame) /\ Len(<<>>) = 0
  BY EmptySeq
<1>2. status = [c \in Calls |-> "idle"] /\ outcome = [c \in Calls |-> None]
  BY DEF Init
<1>3. ClientTypeOK
  <2>1. /\ activeCancellation \in BOOLEAN /\ oversized \subseteq MayExceed
        /\ conn \in {"connecting", "handshake", "ready", "failed"}
        /\ socket \in {"none", "open", "ended", "destroyed"}
        /\ pending = None /\ terminalError = None
        /\ cancelling \cup controls \cup cancelled \subseteq Calls
        /\ closed \in BOOLEAN /\ closing \in {"no", "grace", "socket", "done"}
    BY DEF Init
  <2>2. queue \in Seq(Calls) /\ sent \in Seq(Calls) /\ frames \in Seq(Frame)
    BY <1>1 DEF Init
  <2>3. taken \in 0..Len(sent) /\ faults \in 0..MaxFaults
    BY <1>1, ClientAssumption DEF Init
  <2>4. /\ status \in [Calls -> Settled \cup {"idle", "queued", "active"}]
        /\ outcome \in [Calls -> Errors \cup Calls \cup {None}]
    BY <1>2
  <2>5. \A c \in Calls : (outcome[c] = None) = (status[c] \notin Settled)
    BY <1>2 DEF Settled
  <2> QED BY <2>1, <2>2, <2>3, <2>4, <2>5 DEF ClientTypeOK
<1>4. PendingShape /\ GraceShape /\ ConnectShape
  BY <1>2 DEF Init, PendingShape, GraceShape, ConnectShape
<1>5. OutcomeShape
  BY <1>2 DEF Init, OutcomeShape, AnswerIsOwn
<1> QED BY <1>3, <1>4, <1>5 DEF ClientInv

LEMMA ClientInvNext == ClientInv /\ [Next]_vars => ClientInv'
<1> SUFFICES ASSUME ClientInv, [Next]_vars PROVE ClientInv'
  OBVIOUS
<1>1. CASE UNCHANGED vars
  BY <1>1 DEF ClientInv, ClientTypeOK, PendingShape, GraceShape, ConnectShape, OutcomeShape,
              AnswerIsOwn, vars, options, clientVars, closeVars, daemonVars
<1>2. CASE Next
  <2>1. Step /\ Moves /\ UNCHANGED options
    BY <1>2, StepMoves DEF Next
  <2>2. CallsTyped'
    BY <2>1, CallsTypedStep
  <2>3. PendingShape'
    BY <2>1, PendingActive, PendingGone DEF PendingShape
  <2>4. GraceShape'
    <3>1. waitsFor' \in Calls \cup {None}
      BY <2>1, ConnectionStep
    <3>2. ASSUME closing' = "grace"
          PROVE  waitsFor' # None /\ pending' \in {waitsFor', None}
      <4>1. \/ closing = "grace" /\ waitsFor' = waitsFor
            \/ waitsFor' = pending /\ pending # None /\ UNCHANGED pending
        BY <2>1, <3>2, ConnectionStep
      <4>2. closing = "grace" => waitsFor # None /\ pending \in {waitsFor, None}
        BY DEF ClientInv, GraceShape
      <4>3. closing = "grace" => pending' \in {pending, None}
        BY <2>1 DEF Moves, CallsStay, CallQueued, CallStarts, CallEnds
      <4> QED BY <4>1, <4>2, <4>3
    <3> QED BY <3>1, <3>2 DEF GraceShape
  <2>5. ConnectShape'
    <3>1. conn' = "connecting" => conn = "connecting"
      BY <2>1, ConnectionStep
    <3>2. conn = "connecting" => \A c \in Calls : status[c] = "idle"
      BY DEF ClientInv, ConnectShape
    <3>3. conn' = "connecting" => UNCHANGED status
      BY <2>1, <3>1, <3>2 DEF Moves, CallsStay, CallQueued, CallStarts, CallEnds
    <3> QED BY <3>1, <3>2, <3>3 DEF ConnectShape
  <2>6. OutcomeShape'
    <3>1. terminalError' \in Refusals \cup {None}
      BY <2>1, ErrorStep
    <3>2. ASSUME NEW c \in Calls
          PROVE  /\ status'[c] = "rejected" => outcome'[c] \in Refusals
                 /\ status'[c] = "resolved" => outcome'[c] = c
      <4>1. /\ status[c] = "rejected" => outcome[c] \in Refusals
            /\ status[c] = "resolved" => outcome[c] = c
        BY DEF ClientInv, OutcomeShape, AnswerIsOwn
      <4> QED BY <2>1, <4>1, CallAfter DEF Verdict, Settled
    <3> QED BY <3>1, <3>2 DEF OutcomeShape, AnswerIsOwn
  <2>7. ClientTypeOK'
    <3>1. activeCancellation' \in BOOLEAN /\ oversized' \subseteq MayExceed
      BY <2>1 DEF ClientInv, ClientTypeOK, options
    <3>2. terminalError' \in Errors \cup {None}
      BY <2>6 DEF OutcomeShape, Refusals
    <3>3. queue' \in Seq(Calls)
      BY <2>1, QueueStep
    <3>4. pending' # None => status'[pending'] = "active"
      BY <2>3 DEF PendingShape
    <3> QED BY <2>1, <2>2, <3>1, <3>2, <3>3, <3>4, ConnectionStep, DaemonStep DEF CallsTyped, ClientTypeOK
  <2> QED BY <2>3, <2>4, <2>5, <2>6, <2>7 DEF ClientInv
<1> QED BY <1>1, <1>2

\* The invariant of a client, its connection and its daemon.
THEOREM ClientInvariant == Spec => []ClientInv
<1> QED BY ClientInvInit, ClientInvNext, PTL DEF Spec

----------------------------------------------------------------------------
(* The theorems                                                            *)

\* Types; a call has an outcome exactly when it is settled, and the pending
\* request is the active call.
THEOREM ClientTypeCorrect == Spec => []ClientTypeOK
<1>1. ClientInv => ClientTypeOK
  BY DEF ClientInv
<1> QED BY <1>1, ClientInvariant, PTL

\* #roundTrip never throws its "concurrent request" error.
THEOREM NothingIsConcurrent == Spec => []NeverConcurrent
<1>1. ClientInv => NeverConcurrent
  <2> SUFFICES ASSUME ClientInv, NEW c \in Calls PROVE outcome[c] # "concurrent_request"
    BY DEF NeverConcurrent
  <2>1. status[c] = "rejected" => outcome[c] \in Refusals
    BY DEF ClientInv, OutcomeShape
  <2>2. status[c] = "resolved" => outcome[c] = c
    BY DEF ClientInv, OutcomeShape, AnswerIsOwn
  <2>3. status[c] \notin Settled => outcome[c] = None
    BY DEF ClientInv, ClientTypeOK
  <2>4. "concurrent_request" \in Errors
    BY DEF Errors
  <2> QED BY <2>1, <2>2, <2>3, <2>4, ClientAssumption DEF Refusals, Settled
<1> QED BY <1>1, ClientInvariant, PTL

\* A call resolves with the answer to its own request.
THEOREM AnswersAreOwn == Spec => []AnswerIsOwn
<1>1. ClientInv => AnswerIsOwn
  BY DEF ClientInv, OutcomeShape
<1> QED BY <1>1, ClientInvariant, PTL

\* close() leaves no request pending.
THEOREM ClosedClientIsEmpty == Spec => []ClosedHasNothingPending
<1>1. ClientInv => ClosedHasNothingPending
  BY DEF ClientInv, PendingShape, ClosedHasNothingPending
<1> QED BY <1>1, ClientInvariant, PTL

\* A settled call is neither settled again nor sent.
THEOREM CallsSettleOnce == Spec => SettledForGood
<1>1. ASSUME ClientInv, [Next]_vars
      PROVE  [\A c \in Calls : status[c] \in Settled =>
                 status'[c] = status[c] /\ outcome'[c] = outcome[c] /\ pending' # c]_vars
  <2>1. CASE UNCHANGED vars
    BY <2>1
  <2>2. CASE Next
    <3>1. Moves
      BY <1>1, <2>2, StepMoves DEF Next
    <3>2. ASSUME NEW c \in Calls, status[c] \in Settled
          PROVE  status'[c] = status[c] /\ outcome'[c] = outcome[c] /\ pending' # c
      <4>1. status'[c] = status[c] /\ outcome'[c] = outcome[c]
        BY <1>1, <3>1, <3>2, CallAfter
      <4>2. pending' # None => status'[pending'] = "active"
        BY <1>1, <3>1, PendingActive
      <4>3. c # None /\ status'[c] # "active"
        BY <3>2, <4>1, CallsApart DEF Settled
      <4> QED BY <4>1, <4>2, <4>3
    <3> QED BY <3>2
  <2> QED BY <1>1, <2>1, <2>2
<1> QED BY <1>1, ClientInvariant, PTL DEF Spec, SettledForGood
=============================================================================
