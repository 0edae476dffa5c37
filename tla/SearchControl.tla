--------------------------- MODULE SearchControl ----------------------------
(***************************************************************************)
(* The cancellation protocol of the daemon's coordinator: one              *)
(* SearchControl per request, the bounded registry that maps request ids   *)
(* to controls, and cancel_exact, which several threads run at once.       *)
(*                                                                         *)
(* A process is anything that runs cancel_exact: the caller of a request   *)
(* (its deadline), a reader worker (a job that expired in the queue) or a  *)
(* client thread that handles `cancel'.  Its run is the record cx[x]; one  *)
(* action is one atomic load, store or critical section.  The phase load   *)
(* and the compare-exchange after it are one step: when the exchange fails *)
(* the code loads again.                                                   *)
(***************************************************************************)
EXTENDS Integers, FiniteSets

CONSTANTS
    Request,        \* requests; each has a SearchControl of its own
    RequestId,      \* request ids as clients choose them
    IdOf,           \* IdOf[c]: the id of request c; requests may share one
    Deadline,       \* Deadline[c]: its absolute deadline
    Process,        \* the threads that may run cancel_exact
    Connection,     \* SQLite connections
    RegistryBound,  \* reader_count + queue_capacity
    MaxTime,        \* bound on the model's clock
    None            \* no request, no connection, no answer

Terminals == {"cancelled", "deadline_exceeded", "ok", "storage", "interrupted", "no_reason"}

ASSUME NoneAssumption == None \notin Request \cup Connection \cup Terminals
ASSUME IdOfAssumption == IdOf \in [Request -> RequestId]
ASSUME DeadlineAssumption == Deadline \in [Request -> Nat]
ASSUME BoundAssumption == RegistryBound \in Nat \ {0}
ASSUME MaxTimeAssumption == MaxTime \in Nat \ {0}

VARIABLES
    now,          \* now_unix_ms(); starts at 1 because 0 encodes "not cancelled"
    registry,     \* request id -> the control registered under it
    control,      \* request -> its SearchControl
    mailbox,      \* request -> what its completion channel holds
    cx,           \* process -> its run of cancel_exact
    running,      \* connections with a statement running
    interrupted   \* connections whose running statement was interrupted

controlVars == <<now, registry, control, mailbox, cx, running, interrupted>>

Phases == {"queued", "active", "terminal"}
\* A cancel by the caller and one by a disconnect end the same way.
Reasons == {"none", "caller", "deadline"}
Steps == {"off", "reason", "flag", "phase", "interrupt", "send", "remove"}

SearchControl == [phase : Phases, reason : Reasons, cancelled : BOOLEAN,
                  cancelled_at : 0..MaxTime, active_interrupt : Connection \cup {None},
                  completion : BOOLEAN]

NewControl == [phase |-> "queued", reason |-> "none", cancelled |-> FALSE,
               cancelled_at |-> 0, active_interrupt |-> None, completion |-> TRUE]

CancelRuns == [step : Steps, target : Request \cup {None}, reason : Reasons]
Off == [step |-> "off", target |-> None, reason |-> "none"]

ControlInit ==
    /\ now = 1
    /\ registry = [i \in RequestId |-> None]
    /\ control = [c \in Request |-> NewControl]
    /\ mailbox = [c \in Request |-> None]
    /\ cx = [x \in Process |-> Off]
    /\ running = {}
    /\ interrupted = {}

Expired(c) == now >= Deadline[c]

Tick == /\ now < MaxTime
        /\ now' = now + 1
        /\ UNCHANGED <<registry, control, mailbox, cx, running, interrupted>>

----------------------------------------------------------------------------
(* The registry.                                                           *)

Registered == {i \in RequestId : registry[i] # None}

\* The admission checks made under the registry lock.
IsDuplicate(c) == registry[IdOf[c]] # None
RegistryFull == Cardinality(Registered) >= RegistryBound

Register(c) == registry' = [registry EXCEPT ![IdOf[c]] = c]

\* Mutant: whatever is registered under the id is removed.
RemoveById(c) == registry' = [registry EXCEPT ![IdOf[c]] = None]

\* remove_control: only the very control that is registered is removed.
RemoveControl(c) ==
    registry' = IF registry[IdOf[c]] = c THEN [registry EXCEPT ![IdOf[c]] = None]
                                         ELSE registry

----------------------------------------------------------------------------
(* SearchControl.                                                          *)

TerminalFromReason(c) ==
    CASE control[c].reason = "deadline" -> "deadline_exceeded"
      [] control[c].reason = "caller" -> "cancelled"
      [] OTHER -> "no_reason"

\* send: the completion channel is taken by the first sender.
SendCompletion(c, result) ==
    IF control[c].completion
    THEN /\ control' = [control EXCEPT ![c].completion = FALSE]
         /\ mailbox' = [mailbox EXCEPT ![c] = result]
    ELSE UNCHANGED <<control, mailbox>>

\* sqlite3_interrupt: it reaches the statement that is running on the connection
\* and is a no-op when none is.
InterruptConnection(k) == interrupted' = interrupted \cup ({k} \cap running)

----------------------------------------------------------------------------
(* cancel_exact, one step at a time.                                       *)

CancelRun(c, r) == [step |-> "reason", target |-> c, reason |-> r]
GoTo(x, step) == cx' = [cx EXCEPT ![x].step = step]
Return(x) == cx' = [cx EXCEPT ![x] = Off]

\* Mutant: the last reason wins.
CxReasonReplaced(x) ==
    /\ cx[x].step = "reason"
    /\ control' = [control EXCEPT ![cx[x].target].reason = cx[x].reason]
    /\ GoTo(x, "flag")
    /\ UNCHANGED <<now, registry, mailbox, running, interrupted>>

\* The first reason wins.
CxReason(x) ==
    LET c == cx[x].target IN
    /\ cx[x].step = "reason"
    /\ control' = IF control[c].reason = "none"
                  THEN [control EXCEPT ![c].reason = cx[x].reason] ELSE control
    /\ GoTo(x, "flag")
    /\ UNCHANGED <<now, registry, mailbox, running, interrupted>>

\* Mutant: the progress callback is never told.
CxFlagForgotten(x) ==
    /\ cx[x].step = "flag"
    /\ control' = [control EXCEPT ![cx[x].target].cancelled_at = IF @ = 0 THEN now ELSE @]
    /\ GoTo(x, "phase")
    /\ UNCHANGED <<now, registry, mailbox, running, interrupted>>

\* The flag and, the first time, the moment it was set; only the decision to retire
\* a reader looks at the latter, after the search has ended.
CxFlag(x) ==
    LET c == cx[x].target IN
    /\ cx[x].step = "flag"
    /\ control' = [control EXCEPT ![c].cancelled = TRUE,
                                  ![c].cancelled_at = IF @ = 0 THEN now ELSE @]
    /\ GoTo(x, "phase")
    /\ UNCHANGED <<now, registry, mailbox, running, interrupted>>

\* Mutant: the phase is loaded and stored without a compare-exchange.
CxQueuedUnchecked(x) ==
    LET c == cx[x].target IN
    /\ cx[x].step = "phase" /\ control[c].phase # "terminal"
    /\ control' = [control EXCEPT ![c].phase = "terminal"]
    /\ GoTo(x, "send")
    /\ UNCHANGED <<now, registry, mailbox, running, interrupted>>

\* A queued request becomes terminal here; the winner of the exchange answers it.
CxQueued(x) ==
    LET c == cx[x].target IN
    /\ cx[x].step = "phase" /\ control[c].phase = "queued"
    /\ control' = [control EXCEPT ![c].phase = "terminal"]
    /\ GoTo(x, "send")
    /\ UNCHANGED <<now, registry, mailbox, running, interrupted>>

CxActive(x) ==
    /\ cx[x].step = "phase" /\ control[cx[x].target].phase = "active"
    /\ GoTo(x, "interrupt")
    /\ UNCHANGED <<now, registry, control, mailbox, running, interrupted>>

CxAlreadyTerminal(x) ==
    /\ cx[x].step = "phase" /\ control[cx[x].target].phase = "terminal"
    /\ Return(x)
    /\ UNCHANGED <<now, registry, control, mailbox, running, interrupted>>

\* The handle is read and used under the active_interrupt mutex.
CxInterrupt(x) ==
    /\ cx[x].step = "interrupt"
    /\ InterruptConnection(control[cx[x].target].active_interrupt)
    /\ Return(x)
    /\ UNCHANGED <<now, registry, control, mailbox, running>>

CxSend(x) ==
    LET c == cx[x].target IN
    /\ cx[x].step = "send"
    /\ SendCompletion(c, TerminalFromReason(c))
    /\ GoTo(x, "remove")
    /\ UNCHANGED <<now, registry, running, interrupted>>

CxRemove(x) ==
    /\ cx[x].step = "remove"
    /\ RemoveControl(cx[x].target)
    /\ Return(x)
    /\ UNCHANGED <<now, control, mailbox, running, interrupted>>

CancelExact(x) ==
    \/ CxReason(x) \/ CxFlag(x)
    \/ CxQueued(x) \/ CxActive(x) \/ CxAlreadyTerminal(x)
    \/ CxInterrupt(x) \/ CxSend(x) \/ CxRemove(x)

\* The type of the protocol's state; only a running statement is ever interrupted.
ControlTypeOK ==
    /\ now \in 1..MaxTime
    /\ registry \in [RequestId -> Request \cup {None}]
    /\ control \in [Request -> SearchControl]
    /\ mailbox \in [Request -> Terminals \cup {None}]
    /\ cx \in [Process -> CancelRuns]
    /\ \A x \in Process : cx[x].target = None <=> cx[x].step = "off"
    /\ running \subseteq Connection
    /\ interrupted \subseteq running
=============================================================================
