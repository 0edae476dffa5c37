---------------------------- MODULE IndexRuntime ----------------------------
(***************************************************************************)
(* SessionIndexRuntime of session-index-runtime.mjs under the plugin that  *)
(* mounts it: binding to a session query service, reattaching a source,    *)
(* the monitor and backoff timer, short-lived client operations, disposal. *)
(*                                                                         *)
(* An action is what runs between two awaits.  Every continuation of       *)
(* #reattach, of a probe or of an operation may find another binding, a    *)
(* new source or a disposed runtime when it goes on.  Delays are left out: *)
(* an armed timer fires at some time, whatever its delay.                  *)
(***************************************************************************)
EXTENDS Naturals

CONSTANTS
    HealthOp, SearchOp, ViewOp,  \* calls of health, searchBatch and queryView
    MaxBindings,    \* bound: services mounted
    MaxRestarts,    \* bound: calls of restart
    MaxFaults       \* bound: failed connects, starts, probes, requests and sources

Op == HealthOp \cup SearchOp \cup ViewOp
Token == 1..MaxBindings
None == 0  \* no binding

ASSUME RuntimeAssumption == MaxBindings \in Nat /\ MaxRestarts \in Nat /\ MaxFaults \in Nat

VARIABLES
    mounted,    \* services mounted and not taken away again
    issued,     \* binding tokens handed out
    binding,    \* #binding
    source,     \* #source: "none", "live" or "dead"
    sourceOf,   \* the binding it was created for
    retiring,   \* sources in #sourceClosePromise that are not closed yet
    timer,      \* #timer is armed
    probes,     \* ticks that await source.health
    attach,     \* where #reattach stands, its binding and its own source
    ready, validated, phase, failing,  \* #ready, #capabilityValidated, #phase, #consecutiveFailures > 0
    disposed,   \* #disposed
    op,         \* operation -> "off", "connecting", "request", "closing"
    awaited,    \* operations whose clients dispose() waits for
    restarts, faults

sourceVars == <<source, sourceOf, retiring>>
flags == <<ready, validated, phase, failing>>
opVars == <<op, awaited>>
vars == <<mounted, issued, binding, sourceVars, timer, probes, attach, flags, disposed, opVars,
          restarts, faults>>

NoAttach == [step |-> "none", of |-> None, source |-> FALSE]

Init ==
    /\ mounted = {} /\ issued = 0 /\ binding = None
    /\ source = "none" /\ sourceOf = None /\ retiring = 0
    /\ timer = FALSE /\ probes = 0 /\ attach = NoAttach
    /\ ready = FALSE /\ validated = FALSE /\ phase = "waiting" /\ failing = FALSE
    /\ disposed = FALSE
    /\ op = [o \in Op |-> "off"] /\ awaited = {}
    /\ restarts = 0 /\ faults = 0

Fault == faults < MaxFaults /\ faults' = faults + 1

----------------------------------------------------------------------------
(* Helpers of the class.                                                   *)

\* #schedule
Schedule == timer' = (timer \/ (binding # None /\ ~ disposed))

\* #retireSource of #source
RetireSource ==
    /\ source' = "none" /\ sourceOf' = None
    /\ retiring' = IF source = "none" THEN retiring ELSE retiring + 1

\* #markOutage: whoever calls it, whatever binding the failed call belonged to.
MarkOutage ==
    IF disposed \/ binding = None
    THEN UNCHANGED <<flags, timer>>
    ELSE /\ ready' = FALSE /\ validated' = FALSE /\ phase' = "recovering" /\ failing' = failing
         /\ timer' = TRUE

\* #requireEnabledAndBound(true)
Admitted ==
    /\ ~ disposed /\ binding # None
    /\ ready /\ validated /\ source = "live"

SourceCloses ==
    /\ retiring > 0 /\ retiring' = retiring - 1
    /\ UNCHANGED <<mounted, issued, binding, source, sourceOf, timer, probes, attach, flags, disposed,
                   opVars, restarts, faults>>

SourceDies ==
    /\ Fault /\ source = "live" /\ source' = "dead"
    /\ UNCHANGED <<mounted, issued, binding, sourceOf, retiring, timer, probes, attach, flags, disposed,
                   opVars, restarts>>

----------------------------------------------------------------------------
(* bind, unbind and the plugin that calls them                             *)

Bind(t) ==
    /\ ~ disposed
    /\ binding' = t
    /\ ready' = FALSE /\ validated' = FALSE /\ phase' = "starting" /\ failing' = failing
    /\ timer' = TRUE

\* apply: the injected service is mounted; its holder unbinds it later.
Mount ==
    /\ issued < MaxBindings /\ issued' = issued + 1
    /\ mounted' = mounted \cup {issued'}
    /\ Bind(issued')
    /\ UNCHANGED <<sourceVars, probes, attach, disposed, opVars, restarts, faults>>

Detach ==
    /\ binding' = None /\ timer' = FALSE
    /\ ready' = FALSE /\ validated' = FALSE
    /\ phase' = (IF disposed THEN "disposed" ELSE "waiting") /\ failing' = failing
    /\ RetireSource

\* Only the current binding is removed; a late unbind of an earlier one is ignored.
Unbind(t) == IF binding = t THEN Detach ELSE UNCHANGED <<binding, timer, flags, sourceVars>>

Unmount(t) ==
    /\ t \in mounted /\ mounted' = mounted \ {t}
    /\ Unbind(t)
    /\ UNCHANGED <<issued, probes, attach, disposed, opVars, restarts, faults>>

----------------------------------------------------------------------------
(* restart, #reattach and its continuations                                *)

BeginReattach ==
    /\ attach' = [step |-> "retire", of |-> binding, source |-> FALSE]
    /\ phase' = (IF failing THEN "recovering" ELSE "starting") /\ failing' = failing
    /\ ready' = FALSE /\ validated' = FALSE
    /\ RetireSource

Restart ==
    /\ restarts < MaxRestarts /\ restarts' = restarts + 1
    /\ binding # None /\ ~ disposed /\ attach.step = "none"
    /\ timer' = FALSE
    /\ BeginReattach
    /\ UNCHANGED <<mounted, issued, binding, probes, disposed, opVars, faults>>

\* Mutant: the new source is started while the old one is being closed.
NoWait == TRUE

PreviousClosed == retiring = 0

AttachMoves(step) == attach' = [attach EXCEPT !.step = step]

AttachConnects ==
    /\ attach.step = "retire" /\ PreviousClosed
    /\ AttachMoves("connect")
    /\ UNCHANGED <<mounted, issued, binding, sourceVars, timer, probes, flags, disposed, opVars,
                   restarts, faults>>

AttachValidates ==
    /\ attach.step = "connect"
    /\ validated' = TRUE /\ AttachMoves("close_client")
    /\ UNCHANGED <<mounted, issued, binding, sourceVars, timer, probes, ready, phase, failing, disposed,
                   opVars, restarts, faults>>

\* connect, health or start rejects, or the source is not live after its start.
AttachFails ==
    /\ attach.step \in {"connect", "start"} /\ Fault
    /\ AttachMoves("cleanup")
    /\ UNCHANGED <<mounted, issued, binding, sourceVars, timer, probes, flags, disposed, opVars, restarts>>

\* Mutant: the binding that is current now counts, whichever it was at the beginning.
AssertBound == binding # None /\ ~ disposed

\* #assertBinding
AssertBinding == binding = attach.of /\ ~ disposed

AttachStarts ==
    /\ attach.step = "close_client"
    /\ attach' = IF AssertBinding THEN [attach EXCEPT !.step = "start", !.source = TRUE]
                                  ELSE [attach EXCEPT !.step = "cleanup"]
    /\ UNCHANGED <<mounted, issued, binding, sourceVars, timer, probes, flags, disposed, opVars,
                   restarts, faults>>

AttachReplaced ==
    /\ attach.step = "start" /\ ~ AssertBinding
    /\ AttachMoves("cleanup")
    /\ UNCHANGED <<mounted, issued, binding, sourceVars, timer, probes, flags, disposed, opVars,
                   restarts, faults>>

AttachSucceeds ==
    /\ attach.step = "start" /\ AssertBinding
    /\ source' = "live" /\ sourceOf' = attach.of /\ retiring' = retiring
    /\ ready' = TRUE /\ phase' = "live" /\ failing' = FALSE /\ validated' = validated
    /\ attach' = NoAttach /\ Schedule
    /\ UNCHANGED <<mounted, issued, binding, probes, disposed, opVars, restarts, faults>>

\* Mutant: a replaced attachment ends without looking for its successor.
RearmNothing == timer' = timer

\* restart's finally: the successor's own timer met the promise of this attachment.
RearmForSuccessor == Schedule

AttachCleanedUp ==
    /\ attach.step = "cleanup"
    /\ attach' = NoAttach
    /\ ready' = FALSE /\ validated' = FALSE
    /\ IF AssertBinding
       THEN phase' = "recovering" /\ failing' = TRUE /\ timer' = TRUE
       ELSE UNCHANGED <<phase, failing>> /\ RearmForSuccessor
    /\ UNCHANGED <<mounted, issued, binding, sourceVars, probes, disposed, opVars, restarts, faults>>

Attach ==
    \/ AttachConnects \/ AttachValidates \/ AttachStarts
    \/ AttachReplaced \/ AttachSucceeds \/ AttachCleanedUp

----------------------------------------------------------------------------
(* #tick                                                                   *)

TickRestarts ==
    /\ timer /\ (~ ready \/ source = "none")
    /\ timer' = FALSE
    /\ IF attach.step = "none" THEN BeginReattach ELSE UNCHANGED <<attach, flags, sourceVars>>
    /\ UNCHANGED <<mounted, issued, binding, probes, disposed, opVars, restarts, faults>>

TickProbes ==
    /\ timer /\ ready /\ source = "live"
    /\ timer' = FALSE /\ probes' = probes + 1
    /\ UNCHANGED <<mounted, issued, binding, sourceVars, attach, flags, disposed, opVars, restarts, faults>>

TickFindsDeadSource ==
    /\ timer /\ ready /\ source = "dead"
    /\ MarkOutage
    /\ UNCHANGED <<mounted, issued, binding, sourceVars, probes, attach, disposed, opVars, restarts, faults>>

ProbeSucceeds ==
    /\ probes > 0 /\ probes' = probes - 1
    /\ Schedule
    /\ UNCHANGED <<mounted, issued, binding, sourceVars, attach, flags, disposed, opVars, restarts, faults>>

ProbeFails ==
    /\ probes > 0 /\ probes' = probes - 1
    /\ IF source = "live" THEN Fault ELSE UNCHANGED faults
    /\ MarkOutage
    /\ UNCHANGED <<mounted, issued, binding, sourceVars, attach, disposed, opVars, restarts>>

Tick == TickRestarts \/ TickProbes \/ TickFindsDeadSource

----------------------------------------------------------------------------
(* health, searchBatch and queryView through a client of their own         *)

MayCall(o) ==
    CASE o \in SearchOp -> Admitted
      [] o \in HealthOp -> binding # None /\ ~ disposed
      [] OTHER -> ~ disposed

OpMoves(o, from, to) ==
    /\ op[o] = from
    /\ op' = [op EXCEPT ![o] = to]

OpBegins(o) ==
    /\ MayCall(o) /\ OpMoves(o, "off", "connecting")
    /\ UNCHANGED <<mounted, issued, binding, sourceVars, timer, probes, attach, flags, disposed, awaited,
                   restarts, faults>>

\* The connection attempt fails; no outage is noted for it.
OpConnectFails(o) ==
    /\ Fault /\ OpMoves(o, "connecting", "off")
    /\ UNCHANGED <<mounted, issued, binding, sourceVars, timer, probes, attach, flags, disposed, awaited,
                   restarts>>

\* searchBatch and queryView check again after the connect, health does not.
OpConnected(o) ==
    /\ OpMoves(o, "connecting", IF o \in HealthOp \/ MayCall(o) THEN "request" ELSE "closing")
    /\ UNCHANGED <<mounted, issued, binding, sourceVars, timer, probes, attach, flags, disposed, awaited,
                   restarts, faults>>

OpAnswered(o) ==
    /\ OpMoves(o, "request", "closing")
    /\ UNCHANGED <<mounted, issued, binding, sourceVars, timer, probes, attach, flags, disposed, awaited,
                   restarts, faults>>

OpFails(o) ==
    /\ Fault /\ OpMoves(o, "request", "closing")
    /\ MarkOutage
    /\ UNCHANGED <<mounted, issued, binding, sourceVars, probes, attach, disposed, awaited, restarts>>

OpClosed(o) ==
    /\ OpMoves(o, "closing", "off") /\ awaited' = awaited \ {o}
    /\ UNCHANGED <<mounted, issued, binding, sourceVars, timer, probes, attach, flags, disposed,
                   restarts, faults>>

Operation(o) ==
    OpBegins(o) \/ OpConnectFails(o) \/ OpConnected(o) \/ OpAnswered(o) \/ OpFails(o) \/ OpClosed(o)

----------------------------------------------------------------------------
(* dispose                                                                 *)

\* The clients in #activeClients
ActiveClients == {o \in Op : op[o] = "request"}

Dispose ==
    /\ ~ disposed /\ disposed' = TRUE
    /\ phase' = "disposing" /\ ready' = FALSE /\ validated' = FALSE /\ failing' = failing
    /\ binding' = None /\ timer' = FALSE
    /\ RetireSource
    /\ awaited' = ActiveClients
    /\ UNCHANGED <<mounted, issued, probes, attach, op, restarts, faults>>

\* Mutant: dispose waits for the source it knows and not for the restart under way.
SourcesClosed == retiring = 0 /\ awaited = {}

EverythingClosed == retiring = 0 /\ awaited = {} /\ attach.step = "none"

DisposeEnds ==
    /\ phase = "disposing" /\ EverythingClosed
    /\ phase' = "disposed"
    /\ UNCHANGED <<mounted, issued, binding, sourceVars, timer, probes, attach, ready, validated, failing,
                   disposed, opVars, restarts, faults>>

----------------------------------------------------------------------------

Next ==
    \/ Mount \/ (\E t \in Token : Unmount(t)) \/ Restart \/ Dispose \/ DisposeEnds
    \/ Attach \/ AttachFails
    \/ Tick \/ ProbeSucceeds \/ ProbeFails
    \/ SourceCloses \/ SourceDies
    \/ \E o \in Op : Operation(o)

Spec == Init /\ [][Next]_vars

\* Timers fire, sources close, requests of the runtime itself are bounded by a
\* timeout, a client that was opened is closed.
Fairness ==
    /\ WF_vars(Attach) /\ WF_vars(Tick) /\ WF_vars(ProbeSucceeds \/ ProbeFails)
    /\ WF_vars(SourceCloses) /\ WF_vars(DisposeEnds)
    /\ \A o \in Op : WF_vars(OpConnected(o)) /\ WF_vars(OpAnswered(o)) /\ WF_vars(OpClosed(o))

LiveSpec == Spec /\ Fairness

----------------------------------------------------------------------------
(* Properties                                                              *)

\* Types; the phase says live exactly when the runtime is ready.
RuntimeTypeOK ==
    /\ mounted \subseteq 1..issued /\ issued \in 0..MaxBindings /\ binding \in 0..issued
    /\ source \in {"none", "live", "dead"} /\ sourceOf \in 0..issued /\ retiring \in Nat
    /\ timer \in BOOLEAN /\ probes \in Nat
    /\ attach \in [step : {"none", "retire", "connect", "close_client", "start", "cleanup"},
                   of : 0..issued, source : BOOLEAN]
    /\ validated \in BOOLEAN /\ failing \in BOOLEAN /\ disposed \in BOOLEAN
    /\ phase \in {"waiting", "starting", "recovering", "live", "disposing", "disposed"}
    /\ ready \in BOOLEAN /\ (ready <=> phase = "live")
    /\ op \in [Op -> {"off", "connecting", "request", "closing"}] /\ awaited \subseteq Op
    /\ restarts \in 0..MaxRestarts /\ faults \in 0..MaxFaults

OpenSources == retiring + (IF source = "none" THEN 0 ELSE 1) + (IF attach.source THEN 1 ELSE 0)

\* Two sources never feed the daemon at the same time: a new one is created only
\* after every earlier one, of any binding, is closed.
OneSource == OpenSources <= 1

\* While the runtime is ready, its source is that of the service now mounted,
\* whatever was mounted or taken away during the awaits of #reattach.
ReadyIsCurrent == ready => source # "none" /\ sourceOf = binding

\* The service mounted last and still mounted is the one bound; the late unbind
\* of an earlier one does not detach it.
MountedIsBound == (issued \in mounted /\ ~ disposed) => binding = issued

\* A bound runtime is never stranded: a timer is armed, a probe under way, or an
\* attachment that will arm one.
NeverStranded == binding # None => timer \/ probes > 0 \/ attach.step # "none"

\* Once dispose has returned there is no source, no timer and no attachment left.
DisposedHoldsNothing == phase = "disposed" => OpenSources = 0 /\ attach.step = "none" /\ ~ timer

\* A service that stays mounted gets a live source again after any failures, and
\* dispose returns.
Recovers == \A t \in Token : (binding = t) ~> (ready \/ binding # t)
DisposeReturns == (phase = "disposing") ~> (phase = "disposed")

\* "ready() ... is true only after daemon protocol/schema/capability validation":
\* a runtime that reports itself ready counts as validated, so searches are admitted.
ReadyIsValidated == ready => validated
=============================================================================
