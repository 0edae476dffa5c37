-------------------------- MODULE ReaderPoolProofs --------------------------
(***************************************************************************)
(* Proofs about ReaderPool: who may end a request, what a published handle *)
(* points at, and what the registry holds.                                 *)
(***************************************************************************)
EXTENDS ReaderPool, FiniteSetTheorems, TLAPS

\* A worker has a job from the moment it takes one to the decision about its
\* connection, runs its own cancellations only between jobs, and has a statement
\* running only where it says so.
WorkerShape ==
    \A w \in Worker :
        /\ job[w] = None <=> worker[w] \in {"recv", "reopen", "swap", "exited"}
        /\ cx[w].step # "off" => worker[w] = "recv"
        /\ w \in running <=> worker[w] = "running"
        /\ worker[w] = "running" => statements[w] > 0
        /\ connections[w] = CASE worker[w] = "swap" -> 2
                              [] worker[w] = "exited" -> 0
                              [] OTHER -> 1

\* cancel_exact records the reason before the flag and the flag before it acts; the
\* one that found the request queued has made it terminal.
CancelShape ==
    \A x \in Process : cx[x].step # "off" =>
        LET c == control[cx[x].target] IN
        /\ cx[x].reason # "none"
        /\ cx[x].step # "reason" => c.reason # "none"
        /\ cx[x].step \notin {"reason", "flag"} => c.cancelled
        /\ cx[x].step \in {"send", "remove"} => c.phase = "terminal"

Cancelled == \A c \in Request : control[c].cancelled => control[c].reason # "none"

\* A control shows the handle of a worker only while that worker has its job.
HandleShape ==
    \A c \in Request : control[c].active_interrupt # None =>
        /\ control[c].active_interrupt \in Worker
        /\ job[control[c].active_interrupt] = c
        /\ worker[control[c].active_interrupt] \in {"recheck", "between", "running", "clear"}

\* The phase of a job says how far its worker has got.
PhaseShape ==
    \A w \in Worker :
        /\ worker[w] \in {"publish", "recheck", "between", "running", "clear", "judge", "send"}
               => control[job[w]].phase = "active"
        /\ worker[w] \in {"remove", "retire"} => control[job[w]].phase = "terminal"

\* SQLite reports an interruption only to a worker whose job has a reason for it, and
\* the result to be sent is judged by that reason.
ResponseShape ==
    \A w \in Worker :
        /\ response[w] # "no_reason"
        /\ worker[w] \in {"clear", "judge"} /\ response[w] = "interrupted"
               => control[job[w]].reason # "none"
        /\ worker[w] = "send" => response[w] # "interrupted"

\* The callers whose request has not reached the channel, or never will.
Outside(c) == caller[c] \in {"idle", "try_send", "undo", "refused"}

\* What has not reached the channel is nobody's job.
OutsideShape ==
    \A c \in Request : Outside(c) =>
        /\ control[c].phase # "active"
        /\ \A n \in 1..Len(queue) : queue[n] # c
        /\ \A w \in Worker : job[w] # c

\* Nobody knows a request before its caller has registered it.
IdleShape ==
    \A c \in Request : caller[c] = "idle" =>
        /\ control[c].phase = "queued" /\ mailbox[c] = None
        /\ \A i \in RequestId : registry[i] # c
        /\ \A x \in Process : cx[x].target # c

\* A call of search between its start and its end; an answer comes with the end.
CallerShape ==
    \A c \in Request :
        /\ mailbox[c] # None => control[c].phase = "terminal"
        /\ caller[c] \in {"grace", "returned", "abandoned"} => control[c].phase # "queued"
        /\ cx[c].step # "off" => caller[c] = "cancel" /\ cx[c].target = c
        /\ caller[c] = "cancel" /\ control[c].phase = "queued"
               => cx[c].step \in {"reason", "flag", "phase"}

\* A worker runs or answers request c, or a process answers it.
Serves(w, c) == Runs(w) /\ job[w] = c /\ worker[w] # "retire"
Answers(x, c) == cx[x].target = c /\ cx[x].step \in {"send", "remove"}

\* Whoever runs or answers a request has taken it out of the phase "queued", and
\* there is one such process.
SoleFinisher ==
    \A c \in Request :
        /\ control[c].phase = "queued" =>
               /\ \A w \in Worker : ~ Serves(w, c)
               /\ \A x \in Process : ~ Answers(x, c)
        /\ \A w, v \in Worker : Serves(w, c) /\ Serves(v, c) => w = v
        /\ \A w \in Worker, x \in Process : ~ (Serves(w, c) /\ Answers(x, c))
        /\ \A x, y \in Process : Answers(x, c) /\ Answers(y, c) => x = y

\* What is in the pool's care is registered, and under the id it was sent with.
CareShape == \A c \in Request : InCare(c) => registry[IdOf[c]] = c
RegisteredById == \A i \in RequestId : registry[i] # None => IdOf[registry[i]] = i

\* A registered control has somebody who will remove it.
RemoverShape ==
    \A i \in RequestId : registry[i] # None =>
        LET c == registry[i] IN
        \/ \E w \in Worker : Serves(w, c)
        \/ \E x \in Process : Answers(x, c)
        \/ control[c].phase = "queued" /\ caller[c] \in {"try_send", "undo", "recv", "cancel"}

PoolInv ==
    /\ PoolTypeOK
    /\ WorkerShape /\ CancelShape /\ Cancelled
    /\ HandleShape /\ PhaseShape /\ ResponseShape
    /\ OutsideShape /\ IdleShape /\ CallerShape
    /\ SoleFinisher /\ CareShape /\ RegisteredById /\ RemoverShape
    /\ InterruptHitsItsRequest /\ InterruptionHasReason

----------------------------------------------------------------------------
(* What the actions that write a SearchControl leave of it.  Each lemma    *)
(* restates one action field by field, which is how the proofs use it.     *)

\* Only request c's control is written; it stays a control.
Writes(c) == /\ control' \in [Request -> SearchControl]
             /\ \A d \in Request : d # c => control'[d] = control[d]

KeepsPhase == \A d \in Request : control'[d].phase = control[d].phase
KeepsReason == \A d \in Request : control'[d].reason = control[d].reason
KeepsFlag == \A d \in Request : control'[d].cancelled = control[d].cancelled
KeepsHandle == \A d \in Request : control'[d].active_interrupt = control[d].active_interrupt

\* A cancellation that is under way has a target.
LEMMA TargetIsRequest ==
    ASSUME ControlTypeOK, NEW x \in Process, cx[x].step # "off"
    PROVE  cx[x].target \in Request /\ cx[x].reason \in Reasons
BY NoneAssumption DEF ControlTypeOK, CancelRuns

\* A worker at work has a job.
LEMMA JobIsRequest ==
    ASSUME PoolTypeOK, WorkerShape, NEW w \in Worker,
           worker[w] \notin {"recv", "reopen", "swap", "exited"}
    PROVE  job[w] \in Request
BY NoneAssumption DEF PoolTypeOK, WorkerShape

\* The threads are different, a cancellation under way has a target and a worker
\* at work a job.
LEMMA Threads ==
    ASSUME PoolInv
    PROVE  /\ Request \subseteq Process /\ Worker \subseteq Process /\ Canceller \subseteq Process
           /\ Request \cap Worker = {} /\ Request \cap Canceller = {} /\ Worker \cap Canceller = {}
           /\ \A y \in Process : cx[y].step # "off" => cx[y].target \in Request
           /\ \A v \in Worker : worker[v] \notin {"recv", "reopen", "swap", "exited"}
                                 => job[v] \in Request
<1>1. ControlTypeOK /\ PoolTypeOK /\ WorkerShape
  BY DEF PoolInv, PoolTypeOK
<1>2. \A y \in Process : cx[y].step # "off" => cx[y].target \in Request
  BY <1>1, TargetIsRequest
<1>3. \A v \in Worker : worker[v] \notin {"recv", "reopen", "swap", "exited"} => job[v] \in Request
  BY <1>1, JobIsRequest
<1> QED BY <1>2, <1>3, PoolAssumption

\* The first reason is recorded and never replaced.
ReasonDoes(x) ==
    /\ cx[x].target \in Request
    /\ Writes(cx[x].target) /\ KeepsPhase /\ KeepsFlag /\ KeepsHandle
    /\ control'[cx[x].target].reason # "none"
    /\ \A d \in Request : control[d].reason # "none" => control'[d] = control[d]

LEMMA ReasonEffect ==
    ASSUME PoolInv, NEW x \in Process, CxReason(x)
    PROVE  ReasonDoes(x)
<1>0. ControlTypeOK /\ PoolTypeOK /\ WorkerShape
  BY DEF PoolInv, PoolTypeOK
<1>1. cx[x].target \in Request /\ cx[x].reason \in Reasons /\ cx[x].reason # "none"
  BY <1>0, TargetIsRequest DEF CxReason, PoolInv, CancelShape
<1>2. CASE control[cx[x].target].reason = "none"
  BY <1>0, <1>1, <1>2 DEF CxReason, ControlTypeOK, SearchControl, Writes, KeepsPhase, KeepsFlag,
     KeepsHandle, ReasonDoes
<1>3. CASE control[cx[x].target].reason # "none"
  BY <1>0, <1>1, <1>3 DEF CxReason, ControlTypeOK, Writes, KeepsPhase, KeepsFlag, KeepsHandle,
     ReasonDoes
<1> QED BY <1>2, <1>3

\* The flag is set, and the first moment of a cancellation kept.
FlagDoes(x) ==
    /\ cx[x].target \in Request
    /\ Writes(cx[x].target) /\ KeepsPhase /\ KeepsReason /\ KeepsHandle
    /\ control'[cx[x].target].cancelled
    /\ cx[x].step = "flag" /\ GoTo(x, "phase")
    /\ UNCHANGED <<now, registry, mailbox, running, interrupted>>

LEMMA FlagEffect ==
    ASSUME PoolInv, NEW x \in Process, CxFlag(x)
    PROVE  FlagDoes(x)
<1>0. ControlTypeOK /\ PoolTypeOK /\ WorkerShape
  BY DEF PoolInv, PoolTypeOK
<1> DEFINE c == cx[x].target
           new == [control[c] EXCEPT !.cancelled = TRUE,
                                     !.cancelled_at = IF @ = 0 THEN now ELSE @]
<1>1. c \in Request
  BY <1>0, TargetIsRequest DEF CxFlag
<1>2. control[c] \in SearchControl /\ now \in 0..MaxTime
  BY <1>0, <1>1, MaxTimeAssumption DEF ControlTypeOK
<1>3. /\ new \in SearchControl /\ new.cancelled = TRUE /\ new.phase = control[c].phase
      /\ new.reason = control[c].reason
      /\ new.active_interrupt = control[c].active_interrupt
  BY <1>2 DEF SearchControl
<1>4. control' = [control EXCEPT ![c] = new]
  BY <1>0, <1>1 DEF CxFlag, ControlTypeOK
<1>5. /\ cx[x].step = "flag" /\ GoTo(x, "phase")
      /\ UNCHANGED <<now, registry, mailbox, running, interrupted>>
  BY DEF CxFlag
<1> HIDE DEF new
<1> QED BY <1>0, <1>1, <1>3, <1>4, <1>5 DEF FlagDoes, ControlTypeOK, Writes, KeepsPhase, KeepsReason,
           KeepsHandle

\* The winner of the exchange makes a queued request terminal.
QueuedDoes(x) ==
    /\ cx[x].target \in Request
    /\ Writes(cx[x].target) /\ KeepsReason /\ KeepsFlag /\ KeepsHandle
    /\ control[cx[x].target].phase = "queued" /\ control'[cx[x].target].phase = "terminal"
    /\ cx[x].step = "phase" /\ GoTo(x, "send")
    /\ UNCHANGED <<now, registry, mailbox, running, interrupted>>

LEMMA QueuedEffect ==
    ASSUME PoolInv, NEW x \in Process, CxQueued(x)
    PROVE  QueuedDoes(x)
<1>0. ControlTypeOK /\ PoolTypeOK /\ WorkerShape
  BY DEF PoolInv, PoolTypeOK
<1>1. cx[x].target \in Request
  BY <1>0, TargetIsRequest DEF CxQueued
<1> QED BY <1>0, <1>1 DEF QueuedDoes, CxQueued, ControlTypeOK, SearchControl, Phases, Writes,
           KeepsReason, KeepsFlag, KeepsHandle

\* The completion is sent once; what a mailbox holds was sent with its reason.
SendDoes(x) ==
    /\ cx[x].target \in Request
    /\ Writes(cx[x].target) /\ KeepsPhase /\ KeepsReason /\ KeepsFlag /\ KeepsHandle
    /\ cx[x].step = "send" /\ GoTo(x, "remove")
    /\ \/ mailbox' = mailbox
       \/ mailbox' = [mailbox EXCEPT ![cx[x].target] = TerminalFromReason(cx[x].target)]
    /\ UNCHANGED <<now, registry, running, interrupted>>

LEMMA SendEffect ==
    ASSUME PoolInv, NEW x \in Process, CxSend(x)
    PROVE  SendDoes(x)
<1>0. ControlTypeOK /\ PoolTypeOK /\ WorkerShape
  BY DEF PoolInv, PoolTypeOK
<1>1. cx[x].target \in Request
  BY <1>0, TargetIsRequest DEF CxSend
<1>2. control' = control \/ control' = [control EXCEPT ![cx[x].target].completion = FALSE]
  BY DEF CxSend, SendCompletion
<1>3. Writes(cx[x].target) /\ KeepsPhase /\ KeepsReason /\ KeepsFlag /\ KeepsHandle
  <2>1. CASE control' = [control EXCEPT ![cx[x].target].completion = FALSE]
    BY <1>0, <1>1, <2>1 DEF ControlTypeOK, SearchControl, Writes, KeepsPhase, KeepsReason,
       KeepsFlag, KeepsHandle
  <2>2. CASE control' = control
    BY <1>0, <2>2 DEF ControlTypeOK, Writes, KeepsPhase, KeepsReason, KeepsFlag, KeepsHandle
  <2> QED BY <1>2, <2>1, <2>2
<1>4. /\ cx[x].step = "send" /\ GoTo(x, "remove")
      /\ \/ mailbox' = mailbox
         \/ mailbox' = [mailbox EXCEPT ![cx[x].target] = TerminalFromReason(cx[x].target)]
      /\ UNCHANGED <<now, registry, running, interrupted>>
  BY DEF CxSend, SendCompletion
<1> QED BY <1>1, <1>3, <1>4 DEF SendDoes

\* Activation wins the request from the queue or drops the job.
ActivateDoes(w) ==
    /\ job[w] \in Request
    /\ Writes(job[w]) /\ KeepsReason /\ KeepsFlag /\ KeepsHandle
    /\ worker[w] = "activate"
    /\ \/ /\ control[job[w]].phase = "queued" /\ control'[job[w]].phase = "active"
          /\ WorkerGoes(w, "publish") /\ job' = job
       \/ /\ control[job[w]].phase # "queued" /\ control' = control
          /\ WorkerGoes(w, "recv") /\ job' = [job EXCEPT ![w] = None]
    /\ UNCHANGED <<now, registry, mailbox, cx, running, interrupted, callerVars, queue,
                   response, statements, connections, cancels>>

LEMMA ActivateEffect ==
    ASSUME PoolInv, NEW w \in Worker, Activate(w)
    PROVE  ActivateDoes(w)
<1>0. ControlTypeOK /\ PoolTypeOK /\ WorkerShape
  BY DEF PoolInv, PoolTypeOK
<1>3. job[w] \in Request
  BY <1>0, JobIsRequest DEF Activate
<1>1. CASE control[job[w]].phase = "queued"
  <2>1. /\ control' = [control EXCEPT ![job[w]].phase = "active"]
        /\ WorkerGoes(w, "publish") /\ job' = job
    BY <1>1 DEF Activate
  <2>2. /\ Writes(job[w]) /\ KeepsReason /\ KeepsFlag /\ KeepsHandle
        /\ control'[job[w]].phase = "active"
    BY <1>0, <1>3, <2>1 DEF ControlTypeOK, SearchControl, Phases, Writes, KeepsReason, KeepsFlag,
       KeepsHandle
  <2> QED BY <1>1, <1>3, <2>1, <2>2 DEF ActivateDoes, Activate
<1>2. CASE control[job[w]].phase # "queued"
  BY <1>0, <1>2, <1>3 DEF ActivateDoes, Activate, ControlTypeOK, Writes, KeepsReason, KeepsFlag,
     KeepsHandle
<1> QED BY <1>1, <1>2

\* The end of a search: terminal, and its result sent unless it was answered.
FinishDoes(w) ==
    /\ job[w] \in Request
    /\ Writes(job[w]) /\ KeepsReason /\ KeepsFlag /\ KeepsHandle
    /\ control'[job[w]].phase = "terminal"
    /\ worker[w] = "send" /\ WorkerGoes(w, "remove")
    /\ mailbox' = mailbox \/ mailbox' = [mailbox EXCEPT ![job[w]] = response[w]]
    /\ UNCHANGED <<now, registry, cx, running, interrupted, callerVars, queue, job,
                   response, statements, connections, cancels>>

LEMMA FinishEffect ==
    ASSUME PoolInv, NEW w \in Worker, FinishSearch(w)
    PROVE  FinishDoes(w)
<1>0. ControlTypeOK /\ PoolTypeOK /\ WorkerShape
  BY DEF PoolInv, PoolTypeOK
<1>3. job[w] \in Request
  BY <1>0, JobIsRequest DEF FinishSearch
<1>1. /\ Writes(job[w]) /\ KeepsReason /\ KeepsFlag /\ KeepsHandle
      /\ control'[job[w]].phase = "terminal"
  BY <1>0, <1>3 DEF FinishSearch, ControlTypeOK, SearchControl, Phases, Writes, KeepsReason, KeepsFlag,
     KeepsHandle
<1>2. mailbox' = mailbox \/ mailbox' = [mailbox EXCEPT ![job[w]] = response[w]]
  BY DEF FinishSearch
<1> QED BY <1>1, <1>2, <1>3 DEF FinishDoes, FinishSearch

\* Publishing and clearing the handle change nothing else.
HandleDoes(w) ==
    /\ job[w] \in Request
    /\ Writes(job[w]) /\ KeepsPhase /\ KeepsReason /\ KeepsFlag

LEMMA HandleEffect ==
    ASSUME PoolInv, NEW w \in Worker, Publish(w) \/ ClearHandle(w)
    PROVE  HandleDoes(w)
<1>0. ControlTypeOK /\ PoolTypeOK /\ WorkerShape
  BY DEF PoolInv, PoolTypeOK
<1>3. job[w] \in Request
  BY <1>0, JobIsRequest DEF Publish, ClearHandle
<1> QED BY <1>0, <1>3, PoolAssumption DEF HandleDoes, Publish, ClearHandle, ControlTypeOK, SearchControl, Writes,
           KeepsPhase, KeepsReason, KeepsFlag

----------------------------------------------------------------------------
(* Every step keeps every part of the invariant.  Each lemma has a case for *)
(* each action that touches the state the part is about.                   *)

\* Who writes what: every other step leaves the variable alone.
LEMMA Writers ==
    ASSUME [Next]_vars
    PROVE
        /\ \/ control' = control
           \/ \E w \in Worker : Activate(w) \/ Publish(w) \/ ClearHandle(w) \/ FinishSearch(w)
           \/ \E x \in Process : CancelStep(x) /\ (CxReason(x) \/ CxFlag(x) \/ CxQueued(x) \/
                  CxSend(x))
        /\ \/ mailbox' = mailbox
           \/ \E w \in Worker : FinishSearch(w)
           \/ \E x \in Process : CancelStep(x) /\ CxSend(x)
        /\ \/ registry' = registry
           \/ \E c \in Request : SearchAdmitted(c) \/ UndoAdmission(c)
           \/ \E w \in Worker : RemoveJob(w)
           \/ \E x \in Process : CancelStep(x) /\ CxRemove(x)
        /\ \/ queue' = queue
           \/ \E c \in Request : TrySend(c)
           \/ \E w \in Worker : TakeExpired(w) \/ Take(w)
        /\ \/ job' = job
           \/ \E w \in Worker : Take(w) \/ Activate(w) \/ RetireOrReuse(w)
        /\ \/ interrupted' = interrupted
           \/ \E w \in Worker : Recheck(w) \/ BeginStatement(w) \/ AbortStatement(w) \/
                  EndStatement(w) \/ StorageError(w)
           \/ \E x \in Process : CancelStep(x) /\ CxInterrupt(x)
<1>1. ASSUME NEW c \in Request, Search(c)
      PROVE  /\ UNCHANGED <<control, mailbox, job, interrupted>>
             /\ registry' = registry \/ SearchAdmitted(c) \/ UndoAdmission(c)
             /\ queue' = queue \/ TrySend(c)
  BY <1>1 DEF Search, SearchRefused, SearchAdmitted, TrySend, UndoAdmission, ReceiveAnswer,
     DeadlinePasses, BeginGrace, GraceTimeout, controlVars, workerVars
<1>2. ASSUME NEW k \in Canceller, NEW i \in RequestId, Cancel(k, i)
      PROVE  UNCHANGED <<control, mailbox, registry, queue, job, interrupted>>
  BY <1>2 DEF Cancel, workerVars
<1>3. ASSUME NEW w \in Worker, WorkerStep(w) \/ EndStatement(w) \/ StorageError(w)
      PROVE
        /\ control' = control \/ Activate(w) \/ Publish(w) \/ ClearHandle(w) \/ FinishSearch(w)
        /\ mailbox' = mailbox \/ FinishSearch(w)
        /\ registry' = registry \/ RemoveJob(w)
        /\ queue' = queue \/ TakeExpired(w) \/ Take(w)
        /\ job' = job \/ Take(w) \/ Activate(w) \/ RetireOrReuse(w)
        /\ interrupted' = interrupted \/ Recheck(w) \/ BeginStatement(w) \/ AbortStatement(w) \/
           EndStatement(w) \/ StorageError(w)
  BY <1>3 DEF WorkerStep, TakeExpired, Take, Activate, Publish, Recheck, BeginStatement,
     AbortStatement, SearchDone, ClearHandle, Judge, FinishSearch, RemoveJob, RetireOrReuse,
     Reopen, Swap, EndStatement, StorageError, controlVars, callerVars, workerVars
<1>4. ASSUME NEW x \in Process, CancelStep(x)
      PROVE
        /\ control' = control \/ CxReason(x) \/ CxFlag(x) \/ CxQueued(x) \/ CxSend(x)
        /\ mailbox' = mailbox \/ CxSend(x)
        /\ registry' = registry \/ CxRemove(x)
        /\ queue' = queue
        /\ job' = job
        /\ interrupted' = interrupted \/ CxInterrupt(x)
  BY <1>4 DEF CancelStep, CancelExact, CxReason, CxFlag, CxQueued, CxActive, CxAlreadyTerminal,
     CxInterrupt, CxSend, CxRemove, poolVars, workerVars
<1>5. ASSUME TimePasses \/ Rest \/ UNCHANGED vars
      PROVE  UNCHANGED <<control, mailbox, registry, queue, job, interrupted>>
  BY <1>5 DEF TimePasses, Tick, Rest, vars, controlVars, poolVars, workerVars
<1> QED BY <1>1, <1>2, <1>3, <1>4, <1>5 DEF Next

\* What a cancellation has done before each of its steps stays done.
LEMMA CancelShapeStep ==
    ASSUME PoolInv, [Next]_vars
    PROVE  CancelShape'
<1>inv. ControlTypeOK /\ PoolTypeOK /\ WorkerShape /\ CancelShape
  BY DEF PoolInv, PoolTypeOK
<1>types. cx \in [Process -> CancelRuns]
  BY <1>inv, PoolAssumption DEF PoolTypeOK, ControlTypeOK
<1>1. ASSUME NEW w \in Worker, Activate(w) PROVE CancelShape'
  <2>does. ActivateDoes(w)
    BY <1>1, ActivateEffect
  <2> QED BY <1>1, <1>inv, <1>types, Threads, <2>does DEF ActivateDoes, CancelShape, CancelRuns,
     Off, controlVars, callerVars, Writes, KeepsPhase, KeepsReason, KeepsFlag, KeepsHandle,
     WorkerGoes
<1>2. ASSUME NEW w \in Worker, Publish(w) PROVE CancelShape'
  <2>does. HandleDoes(w)
    BY <1>2, HandleEffect
  <2> QED BY <1>2, <1>inv, <1>types, Threads, <2>does DEF HandleDoes, CancelShape, CancelRuns,
     Off, controlVars, callerVars, Writes, KeepsPhase, KeepsReason, KeepsFlag, KeepsHandle,
     Publish, WorkerGoes
<1>3. ASSUME NEW w \in Worker, ClearHandle(w) PROVE CancelShape'
  <2>does. HandleDoes(w)
    BY <1>3, HandleEffect
  <2> QED BY <1>3, <1>inv, <1>types, Threads, <2>does DEF HandleDoes, CancelShape, CancelRuns,
     Off, controlVars, callerVars, Writes, KeepsPhase, KeepsReason, KeepsFlag, KeepsHandle,
     ClearHandle, WorkerGoes
<1>4. ASSUME NEW w \in Worker, FinishSearch(w) PROVE CancelShape'
  <2>does. FinishDoes(w)
    BY <1>4, FinishEffect
  <2> QED BY <1>4, <1>inv, <1>types, Threads, <2>does DEF FinishDoes, CancelShape, CancelRuns,
     Off, controlVars, callerVars, Writes, KeepsPhase, KeepsReason, KeepsFlag, KeepsHandle,
     WorkerGoes
<1>5. ASSUME NEW x \in Process, CxReason(x), UNCHANGED poolVars PROVE CancelShape'
  <2>does. ReasonDoes(x)
    BY <1>5, ReasonEffect
  <2> QED BY <1>5, <1>inv, <1>types, Threads, <2>does DEF ReasonDoes, CancelShape, CancelRuns,
     Off, poolVars, workerVars, callerVars, Writes, KeepsPhase, KeepsReason, KeepsFlag,
     KeepsHandle, CxReason, GoTo, Return
<1>6. ASSUME NEW x \in Process, CxFlag(x), UNCHANGED poolVars PROVE CancelShape'
  <2>does. FlagDoes(x)
    BY <1>6, FlagEffect
  <2> QED BY <1>6, <1>inv, <1>types, Threads, <2>does DEF FlagDoes, CancelShape, CancelRuns,
     Off, poolVars, workerVars, callerVars, Writes, KeepsPhase, KeepsReason, KeepsFlag,
     KeepsHandle, GoTo
<1>7. ASSUME NEW x \in Process, CxQueued(x), UNCHANGED poolVars PROVE CancelShape'
  <2>does. QueuedDoes(x)
    BY <1>7, QueuedEffect
  <2> QED BY <1>7, <1>inv, <1>types, Threads, <2>does DEF QueuedDoes, CancelShape, CancelRuns,
     Off, poolVars, workerVars, callerVars, Writes, KeepsPhase, KeepsReason, KeepsFlag,
     KeepsHandle, GoTo
<1>8. ASSUME NEW x \in Process, CxSend(x), UNCHANGED poolVars PROVE CancelShape'
  <2>does. SendDoes(x)
    BY <1>8, SendEffect
  <2> QED BY <1>8, <1>inv, <1>types, Threads, <2>does DEF SendDoes, CancelShape, CancelRuns,
     Off, poolVars, workerVars, callerVars, Writes, KeepsPhase, KeepsReason, KeepsFlag,
     KeepsHandle, GoTo
<1>9. ASSUME NEW c \in Request, DeadlinePasses(c) PROVE CancelShape'
  BY <1>9, <1>inv, <1>types, Threads DEF CancelShape, CancelRuns, Off, controlVars, workerVars,
     DeadlinePasses, CallerGoes, CancelRun
<1>10. ASSUME NEW k \in Canceller, NEW i \in RequestId, Cancel(k, i) PROVE CancelShape'
  BY <1>10, <1>inv, <1>types, Threads DEF CancelShape, CancelRuns, Off, workerVars, Cancel,
     CancelRun
<1>11. ASSUME NEW w \in Worker, TakeExpired(w) PROVE CancelShape'
  BY <1>11, <1>inv, <1>types, Threads DEF CancelShape, CancelRuns, Off, controlVars, callerVars,
     TakeExpired, WorkerGoes, CancelRun
<1>12. ASSUME NEW x \in Process, UNCHANGED poolVars, CxActive(x) \/ CxAlreadyTerminal(x) \/
             CxInterrupt(x) \/ CxRemove(x)
      PROVE  CancelShape'
  BY <1>12, <1>inv, <1>types, Threads DEF CancelShape, CancelRuns, Off, poolVars, workerVars,
     callerVars, CxActive, GoTo, Return, CxAlreadyTerminal, CxInterrupt, InterruptConnection,
     CxRemove, RemoveControl
<1>13. CASE UNCHANGED <<cx, control>>
  BY <1>13, <1>inv DEF CancelShape, Runs
<1> QED BY <1>1, <1>2, <1>3, <1>4, <1>5, <1>6, <1>7, <1>8, <1>9, <1>10, <1>11, <1>12, <1>13 DEF
   Next, Search, WorkerStep, CancelStep, CancelExact, Rest, vars, controlVars, SearchRefused,
   workerVars, SearchAdmitted, TrySend, UndoAdmission, ReceiveAnswer, BeginGrace, GraceTimeout,
   Take, callerVars, Recheck, BeginStatement, AbortStatement, SearchDone, Judge, RemoveJob,
   RetireOrReuse, Reopen, Swap, EndStatement, StorageError, TimePasses, poolVars, Tick

\* The flag never comes before the reason.
LEMMA CancelledStep ==
    ASSUME PoolInv, [Next]_vars
    PROVE  Cancelled'
<1>inv. ControlTypeOK /\ PoolTypeOK /\ WorkerShape /\ CancelShape /\ Cancelled
  BY DEF PoolInv, PoolTypeOK
<1>types. cx \in [Process -> CancelRuns]
  BY <1>inv, PoolAssumption DEF PoolTypeOK, ControlTypeOK
<1>1. ASSUME NEW w \in Worker, Activate(w) PROVE Cancelled'
  <2>does. ActivateDoes(w)
    BY <1>1, ActivateEffect
  <2> QED BY <1>1, <1>inv, <1>types, Threads, <2>does DEF ActivateDoes, CancelShape, Cancelled,
     controlVars, callerVars, Writes, KeepsPhase, KeepsReason, KeepsFlag, KeepsHandle,
     WorkerGoes
<1>2. ASSUME NEW w \in Worker, Publish(w) PROVE Cancelled'
  <2>does. HandleDoes(w)
    BY <1>2, HandleEffect
  <2> QED BY <1>2, <1>inv, <1>types, Threads, <2>does DEF HandleDoes, CancelShape, Cancelled,
     controlVars, callerVars, Writes, KeepsPhase, KeepsReason, KeepsFlag, KeepsHandle, Publish,
     WorkerGoes
<1>3. ASSUME NEW w \in Worker, ClearHandle(w) PROVE Cancelled'
  <2>does. HandleDoes(w)
    BY <1>3, HandleEffect
  <2> QED BY <1>3, <1>inv, <1>types, Threads, <2>does DEF HandleDoes, CancelShape, Cancelled,
     controlVars, callerVars, Writes, KeepsPhase, KeepsReason, KeepsFlag, KeepsHandle,
     ClearHandle, WorkerGoes
<1>4. ASSUME NEW w \in Worker, FinishSearch(w) PROVE Cancelled'
  <2>does. FinishDoes(w)
    BY <1>4, FinishEffect
  <2> QED BY <1>4, <1>inv, <1>types, Threads, <2>does DEF FinishDoes, CancelShape, Cancelled,
     controlVars, callerVars, Writes, KeepsPhase, KeepsReason, KeepsFlag, KeepsHandle,
     WorkerGoes
<1>5. ASSUME NEW x \in Process, CxReason(x), UNCHANGED poolVars PROVE Cancelled'
  <2>does. ReasonDoes(x)
    BY <1>5, ReasonEffect
  <2> QED BY <1>5, <1>inv, <1>types, Threads, <2>does DEF ReasonDoes, CancelShape, Cancelled,
     poolVars, workerVars, callerVars, Writes, KeepsPhase, KeepsReason, KeepsFlag, KeepsHandle,
     CxReason, GoTo, Return
<1>6. ASSUME NEW x \in Process, CxFlag(x), UNCHANGED poolVars PROVE Cancelled'
  <2>does. FlagDoes(x)
    BY <1>6, FlagEffect
  <2> QED BY <1>6, <1>inv, <1>types, Threads, <2>does DEF FlagDoes, CancelShape, Cancelled,
     poolVars, workerVars, callerVars, Writes, KeepsPhase, KeepsReason, KeepsFlag, KeepsHandle,
     GoTo
<1>7. ASSUME NEW x \in Process, CxQueued(x), UNCHANGED poolVars PROVE Cancelled'
  <2>does. QueuedDoes(x)
    BY <1>7, QueuedEffect
  <2> QED BY <1>7, <1>inv, <1>types, Threads, <2>does DEF QueuedDoes, CancelShape, Cancelled,
     poolVars, workerVars, callerVars, Writes, KeepsPhase, KeepsReason, KeepsFlag, KeepsHandle,
     GoTo
<1>8. ASSUME NEW x \in Process, CxSend(x), UNCHANGED poolVars PROVE Cancelled'
  <2>does. SendDoes(x)
    BY <1>8, SendEffect
  <2> QED BY <1>8, <1>inv, <1>types, Threads, <2>does DEF SendDoes, CancelShape, Cancelled,
     poolVars, workerVars, callerVars, Writes, KeepsPhase, KeepsReason, KeepsFlag, KeepsHandle,
     GoTo
<1>9. CASE UNCHANGED <<control>>
  BY <1>9, <1>inv DEF Cancelled
<1> QED BY <1>1, <1>2, <1>3, <1>4, <1>5, <1>6, <1>7, <1>8, <1>9, Writers DEF CancelStep

\* A published handle is that of the worker at work on the request.
LEMMA HandleShapeStep ==
    ASSUME PoolInv, [Next]_vars
    PROVE  HandleShape'
<1>inv. ControlTypeOK /\ PoolTypeOK /\ WorkerShape /\ HandleShape
  BY DEF PoolInv, PoolTypeOK
<1>types. /\ worker \in [Worker -> WorkerSteps] /\ job \in [Worker -> Request \cup {None}]
  BY <1>inv, PoolAssumption DEF PoolTypeOK, ControlTypeOK
<1>1. ASSUME NEW w \in Worker, Activate(w) PROVE HandleShape'
  <2>does. ActivateDoes(w)
    BY <1>1, ActivateEffect
  <2>7. \A v \in Worker : v # w => worker'[v] = worker[v] /\ job'[v] = job[v] 
        /\ response'[v] = response[v]
    BY <2>does, <1>1, <1>types DEF ActivateDoes, WorkerGoes
  <2> QED BY <2>does, <1>1, <1>inv, <2>7 DEF ActivateDoes, HandleShape, KeepsHandle
<1>2. ASSUME NEW w \in Worker, Publish(w) PROVE HandleShape'
  <2>does. HandleDoes(w)
    BY <1>2, HandleEffect
  <2> QED BY <1>2, <1>inv, <1>types, Threads, <2>does DEF HandleDoes, HandleShape, controlVars,
     callerVars, Writes, KeepsPhase, KeepsReason, KeepsFlag, KeepsHandle, Publish, WorkerGoes
<1>3. ASSUME NEW w \in Worker, ClearHandle(w) PROVE HandleShape'
  <2>does. HandleDoes(w)
    BY <1>3, HandleEffect
  <2> QED BY <1>3, <1>inv, <1>types, Threads, <2>does DEF HandleDoes, HandleShape, controlVars,
     callerVars, Writes, KeepsPhase, KeepsReason, KeepsFlag, KeepsHandle, ClearHandle,
     WorkerGoes
<1>4. ASSUME NEW w \in Worker, FinishSearch(w) PROVE HandleShape'
  <2>does. FinishDoes(w)
    BY <1>4, FinishEffect
  <2> QED BY <1>4, <1>inv, <1>types, Threads, <2>does DEF FinishDoes, HandleShape, controlVars,
     callerVars, Writes, KeepsPhase, KeepsReason, KeepsFlag, KeepsHandle, WorkerGoes
<1>5. ASSUME NEW w \in Worker, Reopen(w) PROVE HandleShape'
  <2>7. \A v \in Worker : v # w => worker'[v] = worker[v] /\ job'[v] = job[v] 
        /\ response'[v] = response[v]
    BY <1>5, <1>types DEF Reopen, WorkerGoes, callerVars
  <2>8. worker[w] = "reopen" /\ control' = control
    BY <1>5 DEF Reopen, controlVars
  <2> QED BY <1>5, <1>inv, <2>8, <2>7 DEF HandleShape
<1>6. ASSUME NEW x \in Process, CxReason(x), UNCHANGED poolVars PROVE HandleShape'
  <2>does. ReasonDoes(x)
    BY <1>6, ReasonEffect
  <2> QED BY <1>6, <1>inv, <1>types, Threads, <2>does DEF ReasonDoes, HandleShape, poolVars,
     workerVars, callerVars, Writes, KeepsPhase, KeepsReason, KeepsFlag, KeepsHandle, CxReason,
     GoTo, Return
<1>7. ASSUME NEW x \in Process, CxFlag(x), UNCHANGED poolVars PROVE HandleShape'
  <2>does. FlagDoes(x)
    BY <1>7, FlagEffect
  <2> QED BY <1>7, <1>inv, <1>types, Threads, <2>does DEF FlagDoes, HandleShape, poolVars,
     workerVars, callerVars, Writes, KeepsPhase, KeepsReason, KeepsFlag, KeepsHandle, GoTo
<1>8. ASSUME NEW x \in Process, CxQueued(x), UNCHANGED poolVars PROVE HandleShape'
  <2>does. QueuedDoes(x)
    BY <1>8, QueuedEffect
  <2> QED BY <1>8, <1>inv, <1>types, Threads, <2>does DEF QueuedDoes, HandleShape, poolVars,
     workerVars, callerVars, Writes, KeepsPhase, KeepsReason, KeepsFlag, KeepsHandle, GoTo
<1>9. ASSUME NEW x \in Process, CxSend(x), UNCHANGED poolVars PROVE HandleShape'
  <2>does. SendDoes(x)
    BY <1>9, SendEffect
  <2> QED BY <1>9, <1>inv, <1>types, Threads, <2>does DEF SendDoes, HandleShape, poolVars,
     workerVars, callerVars, Writes, KeepsPhase, KeepsReason, KeepsFlag, KeepsHandle, GoTo
<1>10. ASSUME NEW w \in Worker, Take(w) \/ Recheck(w) \/ BeginStatement(w) \/ AbortStatement(w)
             \/ SearchDone(w) \/ Judge(w) \/ RemoveJob(w) \/ RetireOrReuse(w) \/ Swap(w) \/
             EndStatement(w) \/ StorageError(w)
      PROVE  HandleShape'
  BY <1>10, <1>inv, <1>types, Threads DEF HandleShape, controlVars, callerVars, Take,
     WorkerGoes, Recheck, InterruptConnection, BeginStatement, AbortStatement, StatementStops,
     MustStop, SearchDone, Judge, JudgedResult, TerminalFromReason, RemoveJob, RemoveControl,
     RetireOrReuse, Swap, EndStatement, StorageError
<1>11. CASE UNCHANGED <<control, job, worker>>
  BY <1>11, <1>inv DEF HandleShape
<1> QED BY <1>1, <1>2, <1>3, <1>4, <1>5, <1>6, <1>7, <1>8, <1>9, <1>10, <1>11 DEF Next, Search,
   WorkerStep, CancelStep, CancelExact, Rest, vars, controlVars, SearchRefused, workerVars,
   SearchAdmitted, TrySend, UndoAdmission, ReceiveAnswer, DeadlinePasses, BeginGrace,
   GraceTimeout, Cancel, TakeExpired, callerVars, CxActive, poolVars, CxAlreadyTerminal,
   CxInterrupt, CxRemove, TimePasses, Tick

\* The phase of a job and the step of its worker go together.
LEMMA PhaseShapeStep ==
    ASSUME PoolInv, [Next]_vars
    PROVE  PhaseShape'
<1>inv. ControlTypeOK /\ PoolTypeOK /\ WorkerShape /\ PhaseShape
  BY DEF PoolInv, PoolTypeOK
<1>types. /\ worker \in [Worker -> WorkerSteps] /\ job \in [Worker -> Request \cup {None}]
         /\ cx \in [Process -> CancelRuns]
  BY <1>inv, PoolAssumption DEF PoolTypeOK, ControlTypeOK
<1>1. ASSUME NEW w \in Worker, Activate(w) PROVE PhaseShape'
  <2>does. ActivateDoes(w)
    BY <1>1, ActivateEffect
  <2> QED BY <1>1, <1>inv, <1>types, Threads, <2>does DEF ActivateDoes, PhaseShape, CancelRuns,
     controlVars, callerVars, Writes, KeepsPhase, KeepsReason, KeepsFlag, KeepsHandle,
     WorkerGoes
<1>2. ASSUME NEW w \in Worker, Publish(w) PROVE PhaseShape'
  <2>does. HandleDoes(w)
    BY <1>2, HandleEffect
  <2> QED BY <1>2, <1>inv, <1>types, Threads, <2>does DEF HandleDoes, PhaseShape, CancelRuns,
     controlVars, callerVars, Writes, KeepsPhase, KeepsReason, KeepsFlag, KeepsHandle, Publish,
     WorkerGoes
<1>3. ASSUME NEW w \in Worker, ClearHandle(w) PROVE PhaseShape'
  <2>does. HandleDoes(w)
    BY <1>3, HandleEffect
  <2> QED BY <1>3, <1>inv, <1>types, Threads, <2>does DEF HandleDoes, PhaseShape, CancelRuns,
     controlVars, callerVars, Writes, KeepsPhase, KeepsReason, KeepsFlag, KeepsHandle,
     ClearHandle, WorkerGoes
<1>4. ASSUME NEW w \in Worker, FinishSearch(w) PROVE PhaseShape'
  <2>does. FinishDoes(w)
    BY <1>4, FinishEffect
  <2>7. \A v \in Worker : v # w => worker'[v] = worker[v] /\ job'[v] = job[v]
    BY <2>does, <1>4, <1>types DEF FinishDoes, WorkerGoes
  <2>8. worker'[w] = "remove" /\ job'[w] = job[w]
    BY <2>does, <1>4, <1>types DEF FinishDoes, WorkerGoes
  <2>9. \A v \in Worker : v # w /\ job[v] = job[w] => ~ Serves(v, job[w])
    BY <2>does, <1>4 DEF FinishDoes, PoolInv, SoleFinisher, Serves, Runs
  <2> QED BY <2>does, <1>4, <1>inv, <1>types, Threads, <2>7, <2>8, <2>9 DEF FinishDoes,
       PhaseShape, Writes, Serves, Runs
<1>5. ASSUME NEW x \in Process, CxReason(x), UNCHANGED poolVars PROVE PhaseShape'
  <2>does. ReasonDoes(x)
    BY <1>5, ReasonEffect
  <2> QED BY <1>5, <1>inv, <1>types, Threads, <2>does DEF ReasonDoes, PhaseShape, CancelRuns,
     poolVars, workerVars, callerVars, Writes, KeepsPhase, KeepsReason, KeepsFlag, KeepsHandle,
     CxReason, GoTo, Return
<1>6. ASSUME NEW x \in Process, CxFlag(x), UNCHANGED poolVars PROVE PhaseShape'
  <2>does. FlagDoes(x)
    BY <1>6, FlagEffect
  <2> QED BY <1>6, <1>inv, <1>types, Threads, <2>does DEF FlagDoes, PhaseShape, CancelRuns,
     poolVars, workerVars, callerVars, Writes, KeepsPhase, KeepsReason, KeepsFlag, KeepsHandle,
     GoTo
<1>7. ASSUME NEW x \in Process, CxQueued(x), UNCHANGED poolVars PROVE PhaseShape'
  <2>does. QueuedDoes(x)
    BY <1>7, QueuedEffect
  <2> QED BY <1>7, <1>inv, <1>types, Threads, <2>does DEF QueuedDoes, PhaseShape, CancelRuns,
     poolVars, workerVars, callerVars, Writes, KeepsPhase, KeepsReason, KeepsFlag, KeepsHandle,
     GoTo
<1>8. ASSUME NEW x \in Process, CxSend(x), UNCHANGED poolVars PROVE PhaseShape'
  <2>does. SendDoes(x)
    BY <1>8, SendEffect
  <2> QED BY <1>8, <1>inv, <1>types, Threads, <2>does DEF SendDoes, PhaseShape, CancelRuns,
     poolVars, workerVars, callerVars, Writes, KeepsPhase, KeepsReason, KeepsFlag, KeepsHandle,
     GoTo
<1>9. ASSUME NEW w \in Worker, Take(w) \/ Recheck(w) \/ BeginStatement(w) \/ AbortStatement(w)
             \/ SearchDone(w) \/ Judge(w) \/ RemoveJob(w) \/ RetireOrReuse(w) \/ Reopen(w) \/
             Swap(w) \/ EndStatement(w) \/ StorageError(w)
      PROVE  PhaseShape'
  BY <1>9, <1>inv, <1>types, Threads DEF PhaseShape, CancelRuns, controlVars, callerVars, Take,
     WorkerGoes, Recheck, InterruptConnection, BeginStatement, AbortStatement, StatementStops,
     MustStop, SearchDone, Judge, JudgedResult, TerminalFromReason, RemoveJob, RemoveControl,
     RetireOrReuse, Reopen, Swap, EndStatement, StorageError
<1>10. CASE UNCHANGED <<worker, job, control>>
  BY <1>10, <1>inv DEF PhaseShape, Runs
<1> QED BY <1>1, <1>2, <1>3, <1>4, <1>5, <1>6, <1>7, <1>8, <1>9, <1>10 DEF Next, Search,
   WorkerStep, CancelStep, CancelExact, Rest, vars, controlVars, SearchRefused, workerVars,
   SearchAdmitted, TrySend, UndoAdmission, ReceiveAnswer, DeadlinePasses, BeginGrace,
   GraceTimeout, Cancel, TakeExpired, callerVars, CxActive, poolVars, CxAlreadyTerminal,
   CxInterrupt, CxRemove, TimePasses, Tick

\* A worker that was interrupted has a reason, and judges its result by it.
LEMMA ResponseShapeStep ==
    ASSUME PoolInv, [Next]_vars
    PROVE  ResponseShape'
<1>inv. ControlTypeOK /\ PoolTypeOK /\ WorkerShape /\ ResponseShape /\ Cancelled /\
      InterruptHitsItsRequest
  BY DEF PoolInv, PoolTypeOK
<1>types. /\ worker \in [Worker -> WorkerSteps] /\ job \in [Worker -> Request \cup {None}]
         /\ response \in [Worker -> Terminals \cup {None}]
  BY <1>inv, PoolAssumption DEF PoolTypeOK, ControlTypeOK
<1>1. ASSUME NEW w \in Worker, Activate(w) PROVE ResponseShape'
  <2>does. ActivateDoes(w)
    BY <1>1, ActivateEffect
  <2> QED BY <1>1, <1>inv, <1>types, Threads, <2>does DEF ActivateDoes, ResponseShape,
     Cancelled, InterruptHitsItsRequest, controlVars, callerVars, Writes, KeepsPhase,
     KeepsReason, KeepsFlag, KeepsHandle, WorkerGoes
<1>2. ASSUME NEW w \in Worker, Publish(w) PROVE ResponseShape'
  <2>does. HandleDoes(w)
    BY <1>2, HandleEffect
  <2> QED BY <1>2, <1>inv, <1>types, Threads, <2>does DEF HandleDoes, ResponseShape, Cancelled,
     InterruptHitsItsRequest, controlVars, callerVars, Writes, KeepsPhase, KeepsReason,
     KeepsFlag, KeepsHandle, Publish, WorkerGoes
<1>3. ASSUME NEW w \in Worker, ClearHandle(w) PROVE ResponseShape'
  <2>does. HandleDoes(w)
    BY <1>3, HandleEffect
  <2> QED BY <1>3, <1>inv, <1>types, Threads, <2>does DEF HandleDoes, ResponseShape, Cancelled,
     InterruptHitsItsRequest, controlVars, callerVars, Writes, KeepsPhase, KeepsReason,
     KeepsFlag, KeepsHandle, ClearHandle, WorkerGoes
<1>4. ASSUME NEW w \in Worker, Judge(w) PROVE ResponseShape'
  <2>7. control[job[w]] \in SearchControl /\ response[w] \in Terminals \cup {None}
    BY <1>4, <1>inv, <1>types, Threads DEF ControlTypeOK, Judge
  <2>8. JudgedResult(w) \notin {"no_reason", "interrupted"}
    BY <1>4, <1>inv, <2>7 DEF Judge, JudgedResult, TerminalFromReason, ResponseShape,
       SearchControl, Reasons
  <2>9. /\ worker' = [worker EXCEPT ![w] = "send"] /\ response' = [response EXCEPT ![w] = JudgedResult(w)]
        /\ control' = control /\ job' = job
    BY <1>4 DEF Judge, WorkerGoes, controlVars
  <2> QED BY <1>4, <1>inv, <1>types, <2>8, <2>9 DEF ResponseShape
<1>5. ASSUME NEW w \in Worker, FinishSearch(w) PROVE ResponseShape'
  <2>does. FinishDoes(w)
    BY <1>5, FinishEffect
  <2> QED BY <1>5, <1>inv, <1>types, Threads, <2>does DEF FinishDoes, ResponseShape, Cancelled,
     InterruptHitsItsRequest, controlVars, callerVars, Writes, KeepsPhase, KeepsReason,
     KeepsFlag, KeepsHandle, WorkerGoes
<1>6. ASSUME NEW w \in Worker, RetireOrReuse(w) PROVE ResponseShape'
  <2>7. /\ worker'[w] \notin {"clear", "judge", "send"} /\ response'[w] = None /\ control' = control
        /\ \A v \in Worker : v # w => worker'[v] = worker[v] /\ job'[v] = job[v] 
              /\ response'[v] = response[v]
    BY <1>6, <1>types DEF RetireOrReuse, WorkerGoes, controlVars
  <2> QED BY <1>6, <1>inv, <2>7, NoneAssumption DEF ResponseShape, Terminals
<1>7. ASSUME NEW x \in Process, CxReason(x), UNCHANGED poolVars PROVE ResponseShape'
  <2>does. ReasonDoes(x)
    BY <1>7, ReasonEffect
  <2> QED BY <1>7, <1>inv, <1>types, Threads, <2>does DEF ReasonDoes, ResponseShape, Cancelled,
     InterruptHitsItsRequest, poolVars, workerVars, callerVars, Writes, KeepsPhase, KeepsReason,
     KeepsFlag, KeepsHandle, CxReason, GoTo, Return
<1>8. ASSUME NEW x \in Process, CxFlag(x), UNCHANGED poolVars PROVE ResponseShape'
  <2>does. FlagDoes(x)
    BY <1>8, FlagEffect
  <2> QED BY <1>8, <1>inv, <1>types, Threads, <2>does DEF FlagDoes, ResponseShape, Cancelled,
     InterruptHitsItsRequest, poolVars, workerVars, callerVars, Writes, KeepsPhase, KeepsReason,
     KeepsFlag, KeepsHandle, GoTo
<1>9. ASSUME NEW x \in Process, CxQueued(x), UNCHANGED poolVars PROVE ResponseShape'
  <2>does. QueuedDoes(x)
    BY <1>9, QueuedEffect
  <2> QED BY <1>9, <1>inv, <1>types, Threads, <2>does DEF QueuedDoes, ResponseShape, Cancelled,
     InterruptHitsItsRequest, poolVars, workerVars, callerVars, Writes, KeepsPhase, KeepsReason,
     KeepsFlag, KeepsHandle, GoTo
<1>10. ASSUME NEW x \in Process, CxSend(x), UNCHANGED poolVars PROVE ResponseShape'
  <2>does. SendDoes(x)
    BY <1>10, SendEffect
  <2> QED BY <1>10, <1>inv, <1>types, Threads, <2>does DEF SendDoes, ResponseShape, Cancelled,
     InterruptHitsItsRequest, poolVars, workerVars, callerVars, Writes, KeepsPhase, KeepsReason,
     KeepsFlag, KeepsHandle, GoTo
<1>11. ASSUME NEW w \in Worker, Take(w) \/ Recheck(w) \/ BeginStatement(w) \/ AbortStatement(w)
             \/ SearchDone(w) \/ RemoveJob(w) \/ Reopen(w) \/ Swap(w) \/ EndStatement(w) \/
             StorageError(w)
      PROVE  ResponseShape'
  BY <1>11, <1>inv, <1>types, Threads DEF ResponseShape, Cancelled, InterruptHitsItsRequest,
     controlVars, callerVars, Take, WorkerGoes, Recheck, InterruptConnection, BeginStatement,
     AbortStatement, StatementStops, MustStop, SearchDone, RemoveJob, RemoveControl, Reopen,
     Swap, EndStatement, StorageError
<1>12. CASE UNCHANGED <<worker, response, job, control>>
  BY <1>12, <1>inv DEF ResponseShape
<1> QED BY <1>1, <1>2, <1>3, <1>4, <1>5, <1>6, <1>7, <1>8, <1>9, <1>10, <1>11, <1>12 DEF Next,
   Search, WorkerStep, CancelStep, CancelExact, Rest, vars, controlVars, SearchRefused,
   workerVars, SearchAdmitted, TrySend, UndoAdmission, ReceiveAnswer, DeadlinePasses,
   BeginGrace, GraceTimeout, Cancel, TakeExpired, callerVars, CxActive, poolVars,
   CxAlreadyTerminal, CxInterrupt, CxRemove, TimePasses, Tick

\* A request that was not sent to the channel is nobody's job.
LEMMA OutsideShapeStep ==
    ASSUME PoolInv, [Next]_vars
    PROVE  OutsideShape'
<1>inv. ControlTypeOK /\ PoolTypeOK /\ WorkerShape /\ OutsideShape
  BY DEF PoolInv, PoolTypeOK
<1>types. /\ worker \in [Worker -> WorkerSteps] /\ job \in [Worker -> Request \cup {None}]
         /\ caller \in [Request -> CallerSteps]
         /\ queue \in Seq(Request)
  BY <1>inv, PoolAssumption DEF PoolTypeOK, ControlTypeOK
<1>1. ASSUME NEW w \in Worker, TakeExpired(w) PROVE OutsideShape'
  <2>7. queue \in Seq(Request) /\ queue # <<>> /\ queue' = Tail(queue)
    BY <1>1, <1>types DEF TakeExpired
  <2>8. \A n \in 1..Len(queue') : n + 1 \in 1..Len(queue) /\ queue'[n] = queue[n + 1]
    BY <1>1, <2>7
  <2>9. caller' = caller /\ control' = control /\ job' = job
    BY <1>1 DEF TakeExpired, callerVars, workerVars
  <2> QED BY <1>1, <1>inv, <2>8, <2>9 DEF OutsideShape, Outside
<1>2. ASSUME NEW w \in Worker, Take(w) PROVE OutsideShape'
  <2>7. queue \in Seq(Request) /\ queue # <<>> /\ queue' = Tail(queue)
    BY <1>2, <1>types DEF Take
  <2>8. /\ 1 \in 1..Len(queue) /\ Head(queue) = queue[1]
        /\ \A n \in 1..Len(queue') : n + 1 \in 1..Len(queue) /\ queue'[n] = queue[n + 1]
    BY <1>2, <2>7
  <2>9. caller' = caller /\ control' = control /\ \A v \in Worker : job'[v] \in {job[v], queue[1]}
    BY <1>2, <1>types, <2>8 DEF Take, callerVars, controlVars
  <2> QED BY <1>2, <1>inv, <2>8, <2>9 DEF OutsideShape, Outside
<1>3. ASSUME NEW w \in Worker, Activate(w) PROVE OutsideShape'
  <2>does. ActivateDoes(w)
    BY <1>3, ActivateEffect
  <2>7. \A v \in Worker : job'[v] \in {job[v], None}
    BY <2>does, <1>3, <1>types DEF ActivateDoes
  <2>8. ~ Outside(job[w])
    BY <2>does, <1>3, <1>inv DEF ActivateDoes, OutsideShape
  <2>9. caller' = caller /\ queue' = queue
    BY <2>does, <1>3 DEF ActivateDoes, callerVars
  <2>10. \A d \in Request : Outside(d)' => Outside(d)
    BY <1>3, <2>9 DEF Outside
  <2> QED BY <2>does, <1>3, <1>inv, <2>7, <2>8, <2>9, <2>10, NoneAssumption DEF ActivateDoes,
       OutsideShape, Writes
<1>4. ASSUME NEW w \in Worker, Publish(w) PROVE OutsideShape'
  <2>does. HandleDoes(w)
    BY <1>4, HandleEffect
  <2> QED BY <1>4, <1>inv, <1>types, Threads, <2>does DEF HandleDoes, OutsideShape, Outside,
     controlVars, callerVars, Writes, KeepsPhase, KeepsReason, KeepsFlag, KeepsHandle, Publish,
     WorkerGoes
<1>5. ASSUME NEW w \in Worker, ClearHandle(w) PROVE OutsideShape'
  <2>does. HandleDoes(w)
    BY <1>5, HandleEffect
  <2> QED BY <1>5, <1>inv, <1>types, Threads, <2>does DEF HandleDoes, OutsideShape, Outside,
     controlVars, callerVars, Writes, KeepsPhase, KeepsReason, KeepsFlag, KeepsHandle,
     ClearHandle, WorkerGoes
<1>6. ASSUME NEW w \in Worker, FinishSearch(w) PROVE OutsideShape'
  <2>does. FinishDoes(w)
    BY <1>6, FinishEffect
  <2> QED BY <1>6, <1>inv, <1>types, Threads, <2>does DEF FinishDoes, OutsideShape, Outside,
     controlVars, callerVars, Writes, KeepsPhase, KeepsReason, KeepsFlag, KeepsHandle,
     WorkerGoes
<1>7. ASSUME NEW w \in Worker, RetireOrReuse(w) PROVE OutsideShape'
  <2>7. \A v \in Worker : job'[v] \in {job[v], None}
    BY <1>7, <1>types DEF RetireOrReuse
  <2>9. caller' = caller /\ queue' = queue /\ control' = control
    BY <1>7 DEF RetireOrReuse, callerVars, controlVars
  <2>10. \A d \in Request : Outside(d)' => Outside(d)
    BY <1>7, <2>9 DEF Outside
  <2> QED BY <1>7, <1>inv, <2>7, <2>9, <2>10, NoneAssumption DEF OutsideShape
<1>8. ASSUME NEW x \in Process, CxReason(x), UNCHANGED poolVars PROVE OutsideShape'
  <2>does. ReasonDoes(x)
    BY <1>8, ReasonEffect
  <2> QED BY <1>8, <1>inv, <1>types, Threads, <2>does DEF ReasonDoes, OutsideShape, Outside,
     poolVars, workerVars, callerVars, Writes, KeepsPhase, KeepsReason, KeepsFlag, KeepsHandle,
     CxReason, GoTo, Return
<1>9. ASSUME NEW x \in Process, CxFlag(x), UNCHANGED poolVars PROVE OutsideShape'
  <2>does. FlagDoes(x)
    BY <1>9, FlagEffect
  <2> QED BY <1>9, <1>inv, <1>types, Threads, <2>does DEF FlagDoes, OutsideShape, Outside,
     poolVars, workerVars, callerVars, Writes, KeepsPhase, KeepsReason, KeepsFlag, KeepsHandle,
     GoTo
<1>10. ASSUME NEW x \in Process, CxQueued(x), UNCHANGED poolVars PROVE OutsideShape'
  <2>does. QueuedDoes(x)
    BY <1>10, QueuedEffect
  <2> QED BY <1>10, <1>inv, <1>types, Threads, <2>does DEF QueuedDoes, OutsideShape, Outside,
     poolVars, workerVars, callerVars, Writes, KeepsPhase, KeepsReason, KeepsFlag, KeepsHandle,
     GoTo
<1>11. ASSUME NEW x \in Process, CxSend(x), UNCHANGED poolVars PROVE OutsideShape'
  <2>does. SendDoes(x)
    BY <1>11, SendEffect
  <2> QED BY <1>11, <1>inv, <1>types, Threads, <2>does DEF SendDoes, OutsideShape, Outside,
     poolVars, workerVars, callerVars, Writes, KeepsPhase, KeepsReason, KeepsFlag, KeepsHandle,
     GoTo
<1>12. ASSUME NEW c \in Request, SearchRefused(c) \/ SearchAdmitted(c) \/ TrySend(c) \/
             UndoAdmission(c) \/ ReceiveAnswer(c) \/ DeadlinePasses(c) \/ BeginGrace(c) \/
             GraceTimeout(c)
      PROVE  OutsideShape'
  BY <1>12, <1>inv, <1>types, Threads DEF OutsideShape, Outside, controlVars, workerVars,
     SearchRefused, CallerGoes, SearchAdmitted, Register, IsDuplicate, TrySend, UndoAdmission,
     RemoveControl, ReceiveAnswer, DeadlinePasses, CancelRun, BeginGrace, GraceTimeout, GivesUp
<1>13. CASE UNCHANGED <<caller, control, queue, job>>
  BY <1>13, <1>inv DEF OutsideShape, Outside
<1> QED BY <1>1, <1>2, <1>3, <1>4, <1>5, <1>6, <1>7, <1>8, <1>9, <1>10, <1>11, <1>12, <1>13 DEF
   Next, Search, WorkerStep, CancelStep, CancelExact, Rest, vars, controlVars, Cancel,
   workerVars, Recheck, callerVars, BeginStatement, AbortStatement, SearchDone, Judge,
   RemoveJob, Reopen, Swap, EndStatement, StorageError, CxActive, poolVars, CxAlreadyTerminal,
   CxInterrupt, CxRemove, TimePasses, Tick

\* A request that was not registered is unknown.
LEMMA IdleShapeStep ==
    ASSUME PoolInv, [Next]_vars
    PROVE  IdleShape'
<1>inv. ControlTypeOK /\ PoolTypeOK /\ WorkerShape /\ IdleShape /\ OutsideShape
  BY DEF PoolInv, PoolTypeOK
<1>types. /\ caller \in [Request -> CallerSteps]
         /\ cx \in [Process -> CancelRuns]
         /\ mailbox \in [Request -> Terminals \cup {None}]
         /\ registry \in [RequestId -> Request \cup {None}]
         /\ worker \in [Worker -> WorkerSteps] /\ job \in [Worker -> Request \cup {None}]
         /\ queue \in Seq(Request)
  BY <1>inv, PoolAssumption DEF PoolTypeOK, ControlTypeOK
<1>none. None \notin Request
  BY NoneAssumption
<1>1. ASSUME NEW w \in Worker, Activate(w) PROVE IdleShape'
  <2>does. ActivateDoes(w)
    BY <1>1, ActivateEffect
  <2> QED BY <1>1, <1>inv, <1>types, Threads, <1>none, <2>does DEF ActivateDoes, IdleShape,
     OutsideShape, Outside, CancelRuns, Off, controlVars, callerVars, Writes, KeepsPhase,
     KeepsReason, KeepsFlag, KeepsHandle, WorkerGoes
<1>2. ASSUME NEW w \in Worker, Publish(w) PROVE IdleShape'
  <2>does. HandleDoes(w)
    BY <1>2, HandleEffect
  <2> QED BY <1>2, <1>inv, <1>types, Threads, <1>none, <2>does DEF HandleDoes, IdleShape,
     OutsideShape, Outside, CancelRuns, Off, controlVars, callerVars, Writes, KeepsPhase,
     KeepsReason, KeepsFlag, KeepsHandle, Publish, WorkerGoes
<1>3. ASSUME NEW w \in Worker, ClearHandle(w) PROVE IdleShape'
  <2>does. HandleDoes(w)
    BY <1>3, HandleEffect
  <2> QED BY <1>3, <1>inv, <1>types, Threads, <1>none, <2>does DEF HandleDoes, IdleShape,
     OutsideShape, Outside, CancelRuns, Off, controlVars, callerVars, Writes, KeepsPhase,
     KeepsReason, KeepsFlag, KeepsHandle, ClearHandle, WorkerGoes
<1>4. ASSUME NEW w \in Worker, FinishSearch(w) PROVE IdleShape'
  <2>does. FinishDoes(w)
    BY <1>4, FinishEffect
  <2> QED BY <1>4, <1>inv, <1>types, Threads, <1>none, <2>does DEF FinishDoes, IdleShape,
     OutsideShape, Outside, CancelRuns, Off, controlVars, callerVars, Writes, KeepsPhase,
     KeepsReason, KeepsFlag, KeepsHandle, WorkerGoes
<1>5. ASSUME NEW x \in Process, CxReason(x), UNCHANGED poolVars PROVE IdleShape'
  <2>does. ReasonDoes(x)
    BY <1>5, ReasonEffect
  <2> QED BY <1>5, <1>inv, <1>types, Threads, <1>none, <2>does DEF ReasonDoes, IdleShape,
     OutsideShape, Outside, CancelRuns, Off, poolVars, workerVars, callerVars, Writes,
     KeepsPhase, KeepsReason, KeepsFlag, KeepsHandle, CxReason, GoTo, Return
<1>6. ASSUME NEW x \in Process, CxFlag(x), UNCHANGED poolVars PROVE IdleShape'
  <2>does. FlagDoes(x)
    BY <1>6, FlagEffect
  <2> QED BY <1>6, <1>inv, <1>types, Threads, <1>none, <2>does DEF FlagDoes, IdleShape,
     OutsideShape, Outside, CancelRuns, Off, poolVars, workerVars, callerVars, Writes,
     KeepsPhase, KeepsReason, KeepsFlag, KeepsHandle, GoTo
<1>7. ASSUME NEW x \in Process, CxQueued(x), UNCHANGED poolVars PROVE IdleShape'
  <2>does. QueuedDoes(x)
    BY <1>7, QueuedEffect
  <2> QED BY <1>7, <1>inv, <1>types, Threads, <1>none, <2>does DEF QueuedDoes, IdleShape,
     OutsideShape, Outside, CancelRuns, Off, poolVars, workerVars, callerVars, Writes,
     KeepsPhase, KeepsReason, KeepsFlag, KeepsHandle, GoTo
<1>8. ASSUME NEW x \in Process, CxSend(x), UNCHANGED poolVars PROVE IdleShape'
  <2>does. SendDoes(x)
    BY <1>8, SendEffect
  <2> QED BY <1>8, <1>inv, <1>types, Threads, <1>none, <2>does DEF SendDoes, IdleShape,
     OutsideShape, Outside, CancelRuns, Off, poolVars, workerVars, callerVars, Writes,
     KeepsPhase, KeepsReason, KeepsFlag, KeepsHandle, GoTo
<1>9. ASSUME NEW c \in Request, SearchRefused(c) \/ TrySend(c) \/ ReceiveAnswer(c) \/
             DeadlinePasses(c) \/ BeginGrace(c) \/ GraceTimeout(c)
      PROVE  IdleShape'
  BY <1>9, <1>inv, <1>types, Threads, <1>none DEF IdleShape, OutsideShape, Outside, CancelRuns,
     Off, controlVars, workerVars, SearchRefused, CallerGoes, TrySend, ReceiveAnswer,
     DeadlinePasses, CancelRun, BeginGrace, GraceTimeout, GivesUp
<1>10. ASSUME NEW c \in Request, SearchAdmitted(c) PROVE IdleShape'
  BY <1>10, <1>inv, <1>types, Threads, <1>none DEF IdleShape, OutsideShape, Outside, CancelRuns,
     Off, controlVars, workerVars, SearchAdmitted, CallerGoes, Register, IsDuplicate
<1>11. ASSUME NEW c \in Request, UndoAdmission(c) PROVE IdleShape'
  BY <1>11, <1>inv, <1>types, Threads, <1>none DEF IdleShape, OutsideShape, Outside, CancelRuns,
     Off, controlVars, workerVars, UndoAdmission, CallerGoes, RemoveControl
<1>12. ASSUME NEW k \in Canceller, NEW i \in RequestId, Cancel(k, i) PROVE IdleShape'
  BY <1>12, <1>inv, <1>types, Threads, <1>none DEF IdleShape, OutsideShape, Outside, CancelRuns,
     Off, workerVars, Cancel, CancelRun
<1>13. ASSUME NEW w \in Worker, TakeExpired(w) PROVE IdleShape'
  BY <1>13, <1>inv, <1>types, Threads, <1>none DEF IdleShape, OutsideShape, Outside, CancelRuns,
     Off, controlVars, callerVars, TakeExpired, WorkerGoes, CancelRun
<1>14. ASSUME NEW w \in Worker, RemoveJob(w) PROVE IdleShape'
  BY <1>14, <1>inv, <1>types, Threads, <1>none DEF IdleShape, OutsideShape, Outside, CancelRuns,
     Off, controlVars, callerVars, RemoveJob, WorkerGoes, RemoveControl
<1>15. ASSUME NEW x \in Process, CxActive(x), UNCHANGED poolVars PROVE IdleShape'
  BY <1>15, <1>inv, <1>types, Threads, <1>none DEF IdleShape, OutsideShape, Outside, CancelRuns,
     Off, poolVars, workerVars, callerVars, CxActive, GoTo, Return
<1>16. ASSUME NEW x \in Process, CxAlreadyTerminal(x), UNCHANGED poolVars PROVE IdleShape'
  BY <1>16, <1>inv, <1>types, Threads, <1>none DEF IdleShape, OutsideShape, Outside, CancelRuns,
     Off, poolVars, workerVars, callerVars, CxAlreadyTerminal, GoTo, Return
<1>17. ASSUME NEW x \in Process, CxInterrupt(x), UNCHANGED poolVars PROVE IdleShape'
  BY <1>17, <1>inv, <1>types, Threads, <1>none DEF IdleShape, OutsideShape, Outside, CancelRuns,
     Off, poolVars, workerVars, callerVars, CxInterrupt, GoTo, Return, InterruptConnection
<1>18. ASSUME NEW x \in Process, CxRemove(x), UNCHANGED poolVars PROVE IdleShape'
  BY <1>18, <1>inv, <1>types, Threads, <1>none DEF IdleShape, OutsideShape, Outside, CancelRuns,
     Off, poolVars, workerVars, callerVars, CxRemove, GoTo, Return, RemoveControl
<1>19. CASE UNCHANGED <<caller, control, mailbox, registry, cx>>
  BY <1>19, <1>inv DEF IdleShape, Outside, Runs
<1> QED BY <1>1, <1>2, <1>3, <1>4, <1>5, <1>6, <1>7, <1>8, <1>9, <1>10, <1>11, <1>12, <1>13,
   <1>14, <1>15, <1>16, <1>17, <1>18, <1>19 DEF Next, Search, WorkerStep, CancelStep,
   CancelExact, Rest, vars, controlVars, Take, callerVars, Recheck, BeginStatement,
   AbortStatement, SearchDone, Judge, RetireOrReuse, Reopen, Swap, EndStatement, StorageError,
   TimePasses, poolVars, workerVars, Tick

\* The caller leaves its call only when the request is no longer queued.
LEMMA CallerShapeStep ==
    ASSUME PoolInv, [Next]_vars
    PROVE  CallerShape'
<1>inv. ControlTypeOK /\ PoolTypeOK /\ WorkerShape /\ CallerShape /\ OutsideShape
  BY DEF PoolInv, PoolTypeOK
<1>types. /\ caller \in [Request -> CallerSteps]
         /\ cx \in [Process -> CancelRuns]
         /\ mailbox \in [Request -> Terminals \cup {None}]
  BY <1>inv, PoolAssumption DEF PoolTypeOK, ControlTypeOK
<1>1. ASSUME NEW w \in Worker, Activate(w) PROVE CallerShape'
  <2>does. ActivateDoes(w)
    BY <1>1, ActivateEffect
  <2> QED BY <1>1, <1>inv, <1>types, Threads, <2>does DEF ActivateDoes, CallerShape,
     OutsideShape, Outside, CancelRuns, Off, controlVars, callerVars, Writes, KeepsPhase,
     KeepsReason, KeepsFlag, KeepsHandle, WorkerGoes
<1>2. ASSUME NEW w \in Worker, Publish(w) PROVE CallerShape'
  <2>does. HandleDoes(w)
    BY <1>2, HandleEffect
  <2> QED BY <1>2, <1>inv, <1>types, Threads, <2>does DEF HandleDoes, CallerShape, OutsideShape,
     Outside, CancelRuns, Off, controlVars, callerVars, Writes, KeepsPhase, KeepsReason,
     KeepsFlag, KeepsHandle, Publish, WorkerGoes
<1>3. ASSUME NEW w \in Worker, ClearHandle(w) PROVE CallerShape'
  <2>does. HandleDoes(w)
    BY <1>3, HandleEffect
  <2> QED BY <1>3, <1>inv, <1>types, Threads, <2>does DEF HandleDoes, CallerShape, OutsideShape,
     Outside, CancelRuns, Off, controlVars, callerVars, Writes, KeepsPhase, KeepsReason,
     KeepsFlag, KeepsHandle, ClearHandle, WorkerGoes
<1>4. ASSUME NEW w \in Worker, FinishSearch(w) PROVE CallerShape'
  <2>does. FinishDoes(w)
    BY <1>4, FinishEffect
  <2> QED BY <1>4, <1>inv, <1>types, Threads, <2>does DEF FinishDoes, CallerShape, OutsideShape,
     Outside, CancelRuns, Off, controlVars, callerVars, Writes, KeepsPhase, KeepsReason,
     KeepsFlag, KeepsHandle, WorkerGoes
<1>5. ASSUME NEW x \in Process, CxReason(x), UNCHANGED poolVars PROVE CallerShape'
  <2>does. ReasonDoes(x)
    BY <1>5, ReasonEffect
  <2> QED BY <1>5, <1>inv, <1>types, Threads, <2>does DEF ReasonDoes, CallerShape, OutsideShape,
     Outside, CancelRuns, Off, poolVars, workerVars, callerVars, Writes, KeepsPhase,
     KeepsReason, KeepsFlag, KeepsHandle, CxReason, GoTo, Return
<1>6. ASSUME NEW x \in Process, CxFlag(x), UNCHANGED poolVars PROVE CallerShape'
  <2>does. FlagDoes(x)
    BY <1>6, FlagEffect
  <2> QED BY <1>6, <1>inv, <1>types, Threads, <2>does DEF FlagDoes, CallerShape, OutsideShape,
     Outside, CancelRuns, Off, poolVars, workerVars, callerVars, Writes, KeepsPhase,
     KeepsReason, KeepsFlag, KeepsHandle, GoTo
<1>7. ASSUME NEW x \in Process, CxQueued(x), UNCHANGED poolVars PROVE CallerShape'
  <2>does. QueuedDoes(x)
    BY <1>7, QueuedEffect
  <2>7. caller' = caller /\ mailbox' = mailbox
    BY <2>does, <1>7 DEF QueuedDoes, poolVars
  <2>8. \A y \in Process :
        /\ y # x => cx'[y] = cx[y]
        /\ cx'[y].target = cx[y].target
        /\ cx'[y].step # "off" => cx[y].step # "off"
    BY <2>does, <1>7, <1>types DEF QueuedDoes, GoTo, CancelRuns
  <2>10. \A d \in Request :
        /\ control'[d].phase = "queued" => d # cx[x].target /\ control[d].phase = "queued"
        /\ control[d].phase = "terminal" => control'[d].phase = "terminal"
    BY <2>does, <1>7, <1>inv DEF QueuedDoes, Writes
  <2>11. \A d \in Request : d = x => cx[x].target = x
    BY <2>does, <1>7, <1>inv DEF QueuedDoes, CallerShape
  <2>20. ASSUME NEW d \in Request
        PROVE  /\ mailbox'[d] # None => control'[d].phase = "terminal"
               /\ caller'[d] \in {"grace", "returned", "abandoned"} => control'[d].phase # "queued"
    BY <1>7, <1>inv, <2>7, <2>10 DEF CallerShape
  <2>21. ASSUME NEW d \in Request
        PROVE  /\ cx'[d].step # "off" => caller'[d] = "cancel" /\ cx'[d].target = d
               /\ caller'[d] = "cancel" /\ control'[d].phase = "queued"
                      => cx'[d].step \in {"reason", "flag", "phase"}
    BY <1>7, <1>inv, Threads, <2>7, <2>8, <2>10, <2>11 DEF CallerShape
  <2> QED BY <1>7, <2>20, <2>21 DEF CallerShape
<1>8. ASSUME NEW x \in Process, CxSend(x), UNCHANGED poolVars PROVE CallerShape'
  <2>does. SendDoes(x)
    BY <1>8, SendEffect
  <2>7. caller' = caller /\ \A d \in Request : d # cx[x].target => mailbox'[d] = mailbox[d]
    BY <2>does, <1>8, <1>types DEF SendDoes, poolVars, callerVars
  <2>8. \A y \in Process :
        /\ y # x => cx'[y] = cx[y]
        /\ cx'[y].target = cx[y].target
        /\ cx'[y].step # "off" => cx[y].step # "off"
    BY <2>does, <1>8, <1>types DEF SendDoes, GoTo, CancelRuns
  <2>9. control[cx[x].target].phase = "terminal"
    BY <2>does, <1>8 DEF SendDoes, PoolInv, CancelShape
  <2>11. \A d \in Request : d = x => cx[x].target = x
    BY <2>does, <1>8, <1>inv DEF SendDoes, CallerShape
  <2>12. KeepsPhase /\ cx'[x].step = "remove" /\ cx[x].step = "send"
    BY <2>does, <1>8, <1>types DEF SendDoes, GoTo
  <2>13. \A d \in Request : d = x => control[d].phase # "queued"
    BY <1>8, <2>9, <2>11
  <2>20. ASSUME NEW d \in Request
        PROVE  /\ mailbox'[d] # None => control'[d].phase = "terminal"
               /\ caller'[d] \in {"grace", "returned", "abandoned"} => control'[d].phase # "queued"
    BY <2>does, <1>8, <1>inv, <2>7, <2>9 DEF SendDoes, CallerShape, KeepsPhase
  <2>21. ASSUME NEW d \in Request
        PROVE  /\ cx'[d].step # "off" => caller'[d] = "cancel" /\ cx'[d].target = d
               /\ caller'[d] = "cancel" /\ control'[d].phase = "queued"
                      => cx'[d].step \in {"reason", "flag", "phase"}
    BY <1>8, <1>inv, Threads, <2>12, <2>13, <2>7, <2>8, <2>11 DEF CallerShape, KeepsPhase
  <2> QED BY <1>8, <2>20, <2>21 DEF CallerShape
<1>9. ASSUME NEW c \in Request, SearchRefused(c) \/ SearchAdmitted(c) \/ TrySend(c) \/
             UndoAdmission(c) \/ ReceiveAnswer(c) \/ DeadlinePasses(c) \/ BeginGrace(c) \/
             GraceTimeout(c)
      PROVE  CallerShape'
  BY <1>9, <1>inv, <1>types, Threads DEF CallerShape, OutsideShape, Outside, CancelRuns, Off,
     controlVars, workerVars, SearchRefused, CallerGoes, SearchAdmitted, Register, IsDuplicate,
     TrySend, UndoAdmission, RemoveControl, ReceiveAnswer, DeadlinePasses, CancelRun,
     BeginGrace, GraceTimeout, GivesUp
<1>10. ASSUME NEW k \in Canceller, NEW i \in RequestId, Cancel(k, i) PROVE CallerShape'
  BY <1>10, <1>inv, <1>types, Threads DEF CallerShape, OutsideShape, Outside, CancelRuns, Off,
     workerVars, Cancel, CancelRun
<1>11. ASSUME NEW w \in Worker, TakeExpired(w) PROVE CallerShape'
  BY <1>11, <1>inv, <1>types, Threads DEF CallerShape, OutsideShape, Outside, CancelRuns, Off,
     controlVars, callerVars, TakeExpired, WorkerGoes, CancelRun
<1>12. ASSUME NEW x \in Process, UNCHANGED poolVars, CxActive(x) \/ CxAlreadyTerminal(x) \/
             CxInterrupt(x) \/ CxRemove(x)
      PROVE  CallerShape'
  BY <1>12, <1>inv, <1>types, Threads DEF CallerShape, OutsideShape, Outside, CancelRuns, Off,
     poolVars, workerVars, callerVars, CxActive, GoTo, Return, CxAlreadyTerminal, CxInterrupt,
     InterruptConnection, CxRemove, RemoveControl
<1>13. CASE UNCHANGED <<caller, control, mailbox, cx>>
  BY <1>13, <1>inv DEF CallerShape, Outside, Runs
<1> QED BY <1>1, <1>2, <1>3, <1>4, <1>5, <1>6, <1>7, <1>8, <1>9, <1>10, <1>11, <1>12, <1>13 DEF
   Next, Search, WorkerStep, CancelStep, CancelExact, Rest, vars, controlVars, Take, callerVars,
   Recheck, BeginStatement, AbortStatement, SearchDone, Judge, RemoveJob, RetireOrReuse, Reopen,
   Swap, EndStatement, StorageError, TimePasses, poolVars, workerVars, Tick

\* One process runs or answers a request: the exchange of the phase admits one, and
\* only from the phase "queued".
LEMMA SoleFinisherStep ==
    ASSUME PoolInv, [Next]_vars
    PROVE  SoleFinisher'
<1>inv. ControlTypeOK /\ PoolTypeOK /\ WorkerShape /\ SoleFinisher
  BY DEF PoolInv, PoolTypeOK
<1>types. /\ worker \in [Worker -> WorkerSteps] /\ job \in [Worker -> Request \cup {None}]
         /\ cx \in [Process -> CancelRuns]
  BY <1>inv, PoolAssumption DEF PoolTypeOK, ControlTypeOK
<1>1. ASSUME NEW w \in Worker, TakeExpired(w) PROVE SoleFinisher'
  <2>7. \A y \in Process, d \in Request : Answers(y, d)' => Answers(y, d)
    BY <1>1, <1>types, Threads DEF TakeExpired, CancelRun, Answers
  <2>8. control' = control /\ worker' = worker /\ job' = job
    BY <1>1 DEF TakeExpired, workerVars
  <2> QED BY <1>1, <1>inv, <2>7, <2>8 DEF SoleFinisher, Serves, Runs
<1>2. ASSUME NEW w \in Worker, Activate(w) PROVE SoleFinisher'
  <2>does. ActivateDoes(w)
    BY <1>2, ActivateEffect
  <2>7. \A v \in Worker : v # w => worker'[v] = worker[v] /\ job'[v] = job[v]
    BY <2>does, <1>2, <1>types DEF ActivateDoes, WorkerGoes
  <2>8. cx' = cx
    BY <2>does, <1>2 DEF ActivateDoes
  <2>9. CASE control[job[w]].phase = "queued"
    <3>1. job' = job /\ control'[job[w]].phase = "active"
      BY <2>does, <1>2, <2>9 DEF ActivateDoes
    <3> QED BY <2>does, <1>2, <1>inv, <2>7, <2>8, <2>9, <3>1 DEF ActivateDoes, SoleFinisher,
         Serves, Answers, Runs, Writes
  <2>10. CASE control[job[w]].phase # "queued"
    <3>1. control' = control /\ worker'[w] = "recv"
      BY <2>does, <1>2, <1>types, <2>10 DEF ActivateDoes, WorkerGoes
    <3> QED BY <1>2, <1>inv, <2>7, <2>8, <3>1 DEF SoleFinisher, Serves, Answers, Runs
  <2> QED BY <1>2, <2>9, <2>10
<1>3. ASSUME NEW w \in Worker, Publish(w) PROVE SoleFinisher'
  <2>does. HandleDoes(w)
    BY <1>3, HandleEffect
  <2> QED BY <1>3, <1>inv, <1>types, Threads, <2>does DEF HandleDoes, SoleFinisher, Serves,
     Answers, Runs, CancelRuns, Off, controlVars, callerVars, Writes, KeepsPhase, KeepsReason,
     KeepsFlag, KeepsHandle, Publish, WorkerGoes
<1>4. ASSUME NEW w \in Worker, ClearHandle(w) PROVE SoleFinisher'
  <2>does. HandleDoes(w)
    BY <1>4, HandleEffect
  <2> QED BY <1>4, <1>inv, <1>types, Threads, <2>does DEF HandleDoes, SoleFinisher, Serves,
     Answers, Runs, CancelRuns, Off, controlVars, callerVars, Writes, KeepsPhase, KeepsReason,
     KeepsFlag, KeepsHandle, ClearHandle, WorkerGoes
<1>5. ASSUME NEW w \in Worker, FinishSearch(w) PROVE SoleFinisher'
  <2>does. FinishDoes(w)
    BY <1>5, FinishEffect
  <2> QED BY <1>5, <1>inv, <1>types, Threads, <2>does DEF FinishDoes, SoleFinisher, Serves,
     Answers, Runs, CancelRuns, Off, controlVars, callerVars, Writes, KeepsPhase, KeepsReason,
     KeepsFlag, KeepsHandle, WorkerGoes
<1>6. ASSUME NEW w \in Worker, Reopen(w) PROVE SoleFinisher'
  <2>7. \A v \in Worker : v # w => worker'[v] = worker[v] /\ job'[v] = job[v]
    BY <1>6, <1>types DEF Reopen, WorkerGoes
  <2>8. cx' = cx /\ control' = control /\ worker'[w] \in {"swap", "exited"}
    BY <1>6, <1>types DEF Reopen, WorkerGoes, controlVars
  <2> QED BY <1>6, <1>inv, <2>7, <2>8 DEF SoleFinisher, Serves, Answers, Runs
<1>7. ASSUME NEW x \in Process, CxReason(x), UNCHANGED poolVars PROVE SoleFinisher'
  <2>does. ReasonDoes(x)
    BY <1>7, ReasonEffect
  <2> QED BY <1>7, <1>inv, <1>types, Threads, <2>does DEF ReasonDoes, SoleFinisher, Serves,
     Answers, Runs, CancelRuns, Off, poolVars, workerVars, callerVars, Writes, KeepsPhase,
     KeepsReason, KeepsFlag, KeepsHandle, CxReason, GoTo, Return
<1>8. ASSUME NEW x \in Process, CxFlag(x), UNCHANGED poolVars PROVE SoleFinisher'
  <2>does. FlagDoes(x)
    BY <1>8, FlagEffect
  <2> QED BY <1>8, <1>inv, <1>types, Threads, <2>does DEF FlagDoes, SoleFinisher, Serves,
     Answers, Runs, CancelRuns, Off, poolVars, workerVars, callerVars, Writes, KeepsPhase,
     KeepsReason, KeepsFlag, KeepsHandle, GoTo
<1>9. ASSUME NEW x \in Process, CxQueued(x), UNCHANGED poolVars PROVE SoleFinisher'
  <2>does. QueuedDoes(x)
    BY <1>9, QueuedEffect
  <2> QED BY <1>9, <1>inv, <1>types, Threads, <2>does DEF QueuedDoes, SoleFinisher, Serves,
     Answers, Runs, CancelRuns, Off, poolVars, workerVars, callerVars, Writes, KeepsPhase,
     KeepsReason, KeepsFlag, KeepsHandle, GoTo
<1>10. ASSUME NEW x \in Process, CxSend(x), UNCHANGED poolVars PROVE SoleFinisher'
  <2>does. SendDoes(x)
    BY <1>10, SendEffect
  <2> QED BY <1>10, <1>inv, <1>types, Threads, <2>does DEF SendDoes, SoleFinisher, Serves,
     Answers, Runs, CancelRuns, Off, poolVars, workerVars, callerVars, Writes, KeepsPhase,
     KeepsReason, KeepsFlag, KeepsHandle, GoTo
<1>11. ASSUME NEW c \in Request, DeadlinePasses(c) PROVE SoleFinisher'
  BY <1>11, <1>inv, <1>types, Threads DEF SoleFinisher, Serves, Answers, Runs, CancelRuns, Off,
     controlVars, workerVars, DeadlinePasses, CallerGoes, CancelRun
<1>12. ASSUME NEW k \in Canceller, NEW i \in RequestId, Cancel(k, i) PROVE SoleFinisher'
  BY <1>12, <1>inv, <1>types, Threads DEF SoleFinisher, Serves, Answers, Runs, CancelRuns, Off,
     workerVars, Cancel, CancelRun
<1>13. ASSUME NEW w \in Worker, Take(w) PROVE SoleFinisher'
  BY <1>13, <1>inv, <1>types, Threads DEF SoleFinisher, Serves, Answers, Runs, CancelRuns, Off,
     controlVars, callerVars, Take, WorkerGoes
<1>14. ASSUME NEW w \in Worker, Recheck(w) \/ BeginStatement(w) \/ AbortStatement(w) \/
             SearchDone(w) \/ Judge(w) \/ RemoveJob(w) \/ Swap(w) \/ EndStatement(w) \/
             StorageError(w)
      PROVE  SoleFinisher'
  <2>1. \A v \in Worker, d \in Request : Serves(v, d)' => Serves(v, d)
    BY <1>14, <1>types DEF Serves, Runs, Recheck, WorkerGoes, InterruptConnection,
       BeginStatement, AbortStatement, StatementStops, MustStop, SearchDone, Judge,
       JudgedResult, TerminalFromReason, RemoveJob, RemoveControl, Swap, EndStatement,
       StorageError, controlVars, callerVars
  <2>2. control' = control /\ cx' = cx
    BY <1>14 DEF Recheck, WorkerGoes, InterruptConnection, BeginStatement, AbortStatement,
       StatementStops, MustStop, SearchDone, Judge, JudgedResult, TerminalFromReason, RemoveJob,
       RemoveControl, Swap, EndStatement, StorageError, controlVars, callerVars
  <2> QED BY <1>inv, <2>1, <2>2 DEF SoleFinisher, Answers
<1>15. ASSUME NEW w \in Worker, RetireOrReuse(w) PROVE SoleFinisher'
  BY <1>15, <1>inv, <1>types, Threads DEF SoleFinisher, Serves, Answers, Runs, CancelRuns, Off,
     controlVars, callerVars, RetireOrReuse, WorkerGoes
<1>16. ASSUME NEW x \in Process, CxActive(x), UNCHANGED poolVars PROVE SoleFinisher'
  BY <1>16, <1>inv, <1>types, Threads DEF SoleFinisher, Serves, Answers, Runs, CancelRuns, Off,
     poolVars, workerVars, callerVars, CxActive, GoTo, Return
<1>17. ASSUME NEW x \in Process, CxAlreadyTerminal(x), UNCHANGED poolVars PROVE SoleFinisher'
  BY <1>17, <1>inv, <1>types, Threads DEF SoleFinisher, Serves, Answers, Runs, CancelRuns, Off,
     poolVars, workerVars, callerVars, CxAlreadyTerminal, GoTo, Return
<1>18. ASSUME NEW x \in Process, CxInterrupt(x), UNCHANGED poolVars PROVE SoleFinisher'
  BY <1>18, <1>inv, <1>types, Threads DEF SoleFinisher, Serves, Answers, Runs, CancelRuns, Off,
     poolVars, workerVars, callerVars, CxInterrupt, GoTo, Return, InterruptConnection
<1>19. ASSUME NEW x \in Process, CxRemove(x), UNCHANGED poolVars PROVE SoleFinisher'
  BY <1>19, <1>inv, <1>types, Threads DEF SoleFinisher, Serves, Answers, Runs, CancelRuns, Off,
     poolVars, workerVars, callerVars, CxRemove, GoTo, Return, RemoveControl
<1>20. CASE UNCHANGED <<worker, job, cx, control>>
  BY <1>20, <1>inv DEF SoleFinisher, Serves, Answers, Runs
<1> QED BY <1>1, <1>2, <1>3, <1>4, <1>5, <1>6, <1>7, <1>8, <1>9, <1>10, <1>11, <1>12, <1>13,
   <1>14, <1>15, <1>16, <1>17, <1>18, <1>19, <1>20 DEF Next, Search, WorkerStep, CancelStep,
   CancelExact, Rest, vars, controlVars, SearchRefused, workerVars, SearchAdmitted, TrySend,
   UndoAdmission, ReceiveAnswer, BeginGrace, GraceTimeout, TimePasses, poolVars, callerVars,
   Tick

\* The registry keeps what is queued or runs.
LEMMA CareShapeStep ==
    ASSUME PoolInv, [Next]_vars
    PROVE  CareShape'
<1>inv. ControlTypeOK /\ PoolTypeOK /\ WorkerShape /\ CareShape /\ CallerShape /\ OutsideShape
      /\ RegisteredById
  BY DEF PoolInv, PoolTypeOK
<1>types. /\ registry \in [RequestId -> Request \cup {None}]
         /\ caller \in [Request -> CallerSteps]
  BY <1>inv, PoolAssumption DEF PoolTypeOK, ControlTypeOK
<1>ids. IdOf \in [Request -> RequestId]
  BY IdOfAssumption
<1>1. ASSUME NEW c \in Request, SearchAdmitted(c) PROVE CareShape'
  <2>6. /\ registry' = [registry EXCEPT ![IdOf[c]] = c] /\ registry[IdOf[c]] = None
        /\ caller' = [caller EXCEPT ![c] = "try_send"] /\ control' = control
    BY <1>1 DEF SearchAdmitted, Register, IsDuplicate, CallerGoes
  <2>7. \A d \in Request : InCare(d)' => d = c \/ InCare(d)
    BY <1>1, <1>types, <2>6 DEF InCare
  <2> QED BY <1>1, <1>ids, <1>inv, <1>types, <2>6, <2>7, NoneAssumption DEF CareShape
<1>2. ASSUME NEW w \in Worker, Activate(w) PROVE CareShape'
  <2>does. ActivateDoes(w)
    BY <1>2, ActivateEffect
  <2>7. registry' = registry /\ caller' = caller
    BY <2>does, <1>2 DEF ActivateDoes, callerVars
  <2>8. ~ Outside(job[w])
    BY <2>does, <1>2, <1>inv DEF ActivateDoes, PoolInv, OutsideShape
  <2>9. \A d \in Request : InCare(d)' => InCare(d)
    <3>1. control[job[w]].phase = "queued" => caller[job[w]] \in {"recv", "cancel"}
      BY <2>does, <1>2, <1>inv, <1>types, <2>8 DEF ActivateDoes, CallerShape, Outside,
         CallerSteps
    <3> QED BY <2>does, <1>2, <2>7, <3>1 DEF ActivateDoes, InCare, Writes
  <2> QED BY <1>2, <1>inv, <2>7, <2>9 DEF CareShape
<1>3. ASSUME NEW w \in Worker, Publish(w) PROVE CareShape'
  <2>does. HandleDoes(w)
    BY <1>3, HandleEffect
  <2> QED BY <1>3, <1>inv, <1>types, Threads, <1>ids, <2>does DEF HandleDoes, CareShape,
     CallerShape, OutsideShape, RegisteredById, InCare, Outside, Registered, controlVars,
     callerVars, Writes, KeepsPhase, KeepsReason, KeepsFlag, KeepsHandle, Publish, WorkerGoes
<1>4. ASSUME NEW w \in Worker, ClearHandle(w) PROVE CareShape'
  <2>does. HandleDoes(w)
    BY <1>4, HandleEffect
  <2> QED BY <1>4, <1>inv, <1>types, Threads, <1>ids, <2>does DEF HandleDoes, CareShape,
     CallerShape, OutsideShape, RegisteredById, InCare, Outside, Registered, controlVars,
     callerVars, Writes, KeepsPhase, KeepsReason, KeepsFlag, KeepsHandle, ClearHandle,
     WorkerGoes
<1>5. ASSUME NEW w \in Worker, FinishSearch(w) PROVE CareShape'
  <2>does. FinishDoes(w)
    BY <1>5, FinishEffect
  <2> QED BY <1>5, <1>inv, <1>types, Threads, <1>ids, <2>does DEF FinishDoes, CareShape,
     CallerShape, OutsideShape, RegisteredById, InCare, Outside, Registered, controlVars,
     callerVars, Writes, KeepsPhase, KeepsReason, KeepsFlag, KeepsHandle, WorkerGoes
<1>6. ASSUME NEW w \in Worker, RemoveJob(w) PROVE CareShape'
  <2>7. control[job[w]].phase = "terminal" /\ control' = control /\ caller' = caller
    BY <1>6 DEF PoolInv, PhaseShape, RemoveJob, callerVars
  <2>8. \A d \in Request : InCare(d)' => InCare(d) /\ d # job[w]
    BY <1>6, <2>7 DEF InCare
  <2>9. \A d \in Request : d # job[w] /\ registry[IdOf[d]] = d => registry'[IdOf[d]] = d
    BY <1>6, <1>ids, <1>types DEF RemoveJob, RemoveControl
  <2> QED BY <1>6, <1>inv, <2>8, <2>9 DEF CareShape
<1>7. ASSUME NEW x \in Process, CxReason(x), UNCHANGED poolVars PROVE CareShape'
  <2>does. ReasonDoes(x)
    BY <1>7, ReasonEffect
  <2> QED BY <1>7, <1>inv, <1>types, Threads, <1>ids, <2>does DEF ReasonDoes, CareShape,
     CallerShape, OutsideShape, RegisteredById, InCare, Outside, Registered, poolVars,
     workerVars, callerVars, Writes, KeepsPhase, KeepsReason, KeepsFlag, KeepsHandle, CxReason,
     GoTo, Return
<1>8. ASSUME NEW x \in Process, CxFlag(x), UNCHANGED poolVars PROVE CareShape'
  <2>does. FlagDoes(x)
    BY <1>8, FlagEffect
  <2> QED BY <1>8, <1>inv, <1>types, Threads, <1>ids, <2>does DEF FlagDoes, CareShape,
     CallerShape, OutsideShape, RegisteredById, InCare, Outside, Registered, poolVars,
     workerVars, callerVars, Writes, KeepsPhase, KeepsReason, KeepsFlag, KeepsHandle, GoTo
<1>9. ASSUME NEW x \in Process, CxQueued(x), UNCHANGED poolVars PROVE CareShape'
  <2>does. QueuedDoes(x)
    BY <1>9, QueuedEffect
  <2> QED BY <1>9, <1>inv, <1>types, Threads, <1>ids, <2>does DEF QueuedDoes, CareShape,
     CallerShape, OutsideShape, RegisteredById, InCare, Outside, Registered, poolVars,
     workerVars, callerVars, Writes, KeepsPhase, KeepsReason, KeepsFlag, KeepsHandle, GoTo
<1>10. ASSUME NEW x \in Process, CxSend(x), UNCHANGED poolVars PROVE CareShape'
  <2>does. SendDoes(x)
    BY <1>10, SendEffect
  <2> QED BY <1>10, <1>inv, <1>types, Threads, <1>ids, <2>does DEF SendDoes, CareShape,
     CallerShape, OutsideShape, RegisteredById, InCare, Outside, Registered, poolVars,
     workerVars, callerVars, Writes, KeepsPhase, KeepsReason, KeepsFlag, KeepsHandle, GoTo
<1>11. ASSUME NEW x \in Process, CxRemove(x), UNCHANGED poolVars PROVE CareShape'
  <2>7. control[cx[x].target].phase = "terminal" /\ control' = control /\ caller' = caller
    BY <1>11 DEF PoolInv, CancelShape, CxRemove, poolVars, callerVars
  <2>8. \A d \in Request : InCare(d)' => InCare(d) /\ d # cx[x].target
    BY <1>11, <2>7 DEF InCare
  <2>9. \A d \in Request : d # cx[x].target /\ registry[IdOf[d]] = d => registry'[IdOf[d]] = d
    BY <1>11, <1>ids, <1>types DEF CxRemove, RemoveControl
  <2> QED BY <1>11, <1>inv, <2>8, <2>9 DEF CareShape
<1>12. ASSUME NEW c \in Request, SearchRefused(c) \/ TrySend(c) \/ UndoAdmission(c) \/
             ReceiveAnswer(c) \/ DeadlinePasses(c) \/ BeginGrace(c) \/ GraceTimeout(c)
      PROVE  CareShape'
  BY <1>12, <1>inv, <1>types, Threads, <1>ids DEF CareShape, CallerShape, OutsideShape,
     RegisteredById, InCare, Outside, Registered, controlVars, workerVars, SearchRefused,
     CallerGoes, TrySend, UndoAdmission, RemoveControl, ReceiveAnswer, DeadlinePasses,
     CancelRun, BeginGrace, GraceTimeout, GivesUp
<1>13. CASE UNCHANGED <<control, caller, registry>>
  BY <1>13, <1>inv DEF CareShape, Outside, InCare
<1> QED BY <1>1, <1>2, <1>3, <1>4, <1>5, <1>6, <1>7, <1>8, <1>9, <1>10, <1>11, <1>12, <1>13 DEF
   Next, Search, WorkerStep, CancelStep, CancelExact, Rest, vars, controlVars, Cancel,
   workerVars, TakeExpired, callerVars, Take, Recheck, BeginStatement, AbortStatement,
   SearchDone, Judge, RetireOrReuse, Reopen, Swap, EndStatement, StorageError, CxActive,
   poolVars, CxAlreadyTerminal, CxInterrupt, TimePasses, Tick

\* An entry is the control of a request with that id.
LEMMA RegisteredByIdStep ==
    ASSUME PoolInv, [Next]_vars
    PROVE  RegisteredById'
<1>inv. ControlTypeOK /\ PoolTypeOK /\ WorkerShape /\ RegisteredById
  BY DEF PoolInv, PoolTypeOK
<1>types. registry \in [RequestId -> Request \cup {None}]
  BY <1>inv, PoolAssumption DEF PoolTypeOK, ControlTypeOK
<1>1. ASSUME NEW c \in Request, SearchAdmitted(c) \/ UndoAdmission(c)
      PROVE  RegisteredById'
  BY <1>1, <1>inv, <1>types, Threads DEF RegisteredById, controlVars, workerVars,
     SearchAdmitted, CallerGoes, Register, IsDuplicate, UndoAdmission, RemoveControl
<1>2. ASSUME NEW w \in Worker, RemoveJob(w) PROVE RegisteredById'
  BY <1>2, <1>inv, <1>types, Threads DEF RegisteredById, controlVars, callerVars, RemoveJob,
     WorkerGoes, RemoveControl
<1>3. ASSUME NEW x \in Process, CxRemove(x), UNCHANGED poolVars PROVE RegisteredById'
  BY <1>3, <1>inv, <1>types, Threads DEF RegisteredById, poolVars, workerVars, callerVars,
     CxRemove, GoTo, Return, RemoveControl
<1>4. CASE UNCHANGED <<registry>>
  BY <1>4, <1>inv DEF RegisteredById
<1> QED BY <1>1, <1>2, <1>3, <1>4, Writers DEF CancelStep

\* A registered control is in the hands of somebody who will remove it.
LEMMA RemoverShapeStep ==
    ASSUME PoolInv, [Next]_vars
    PROVE  RemoverShape'
<1>inv. ControlTypeOK /\ PoolTypeOK /\ WorkerShape /\ RemoverShape /\ RegisteredById /\
      CallerShape
  BY DEF PoolInv, PoolTypeOK
<1>types. /\ worker \in [Worker -> WorkerSteps] /\ job \in [Worker -> Request \cup {None}]
         /\ cx \in [Process -> CancelRuns]
         /\ registry \in [RequestId -> Request \cup {None}]
         /\ caller \in [Request -> CallerSteps]
  BY <1>inv, PoolAssumption DEF PoolTypeOK, ControlTypeOK
<1>1. ASSUME NEW c \in Request, SearchAdmitted(c) PROVE RemoverShape'
  <2>7. /\ control[c].phase = "queued" /\ control' = control /\ caller' = [caller EXCEPT ![c] = "try_send"]
        /\ registry' = [registry EXCEPT ![IdOf[c]] = c]
        /\ \A i \in RequestId : registry[i] # c
    BY <1>1 DEF PoolInv, IdleShape, SearchAdmitted, Register, CallerGoes
  <2>8. worker' = worker /\ job' = job /\ cx' = cx
    BY <1>1 DEF SearchAdmitted, workerVars
  <2>9. ASSUME NEW i \in RequestId, registry'[i] # None PROVE registry'[i] = c \/ registry'[i] = registry[i]
    BY <1>1, <1>types, <2>7
  <2>10. caller'[c] = "try_send" /\ \A d \in Request : d # c => caller'[d] = caller[d]
    BY <1>1, <1>types, <2>7
  <2> QED BY <1>1, <1>inv, <1>types, <2>7, <2>8, <2>9, <2>10 DEF RemoverShape, Serves, Runs,
       Answers
<1>2. ASSUME NEW w \in Worker, TakeExpired(w) PROVE RemoverShape'
  <2>7. \A y \in Process, d \in Request : Answers(y, d) => Answers(y, d)'
    BY <1>2, <1>types, Threads DEF TakeExpired, CancelRun, Answers
  <2>8. control' = control /\ worker' = worker /\ job' = job /\ registry' = registry /\ caller' = caller
    BY <1>2 DEF TakeExpired, workerVars, callerVars
  <2> QED BY <1>2, <1>inv, <1>types, <2>7, <2>8 DEF RemoverShape, Serves, Runs
<1>3. ASSUME NEW w \in Worker, Activate(w) PROVE RemoverShape'
  <2>does. ActivateDoes(w)
    BY <1>3, ActivateEffect
  <2>7. \A v \in Worker, d \in Request : Serves(v, d) => Serves(v, d)'
    BY <2>does, <1>3, <1>types DEF ActivateDoes, WorkerGoes, Serves, Runs
  <2>8. /\ cx' = cx /\ registry' = registry /\ caller' = caller
        /\ \A y \in Process, d \in Request : Answers(y, d) => Answers(y, d)'
    BY <2>does, <1>3 DEF ActivateDoes, callerVars, Answers
  <2>9. \A d \in Request : d = job[w] /\ control[d].phase = "queued" => Serves(w, d)'
    BY <2>does, <1>3, <1>types DEF ActivateDoes, WorkerGoes, Serves, Runs
  <2>10. \A d \in Request : d # job[w] => control'[d] = control[d]
    BY <2>does, <1>3 DEF ActivateDoes, Writes
  <2>11. ASSUME NEW i \in RequestId, NEW d \in Request, registry[i] = d
         PROVE  \/ \E v \in Worker : Serves(v, d)'
                \/ \E y \in Process : Answers(y, d)'
                \/ control'[d].phase = "queued" /\ caller[d] \in {"try_send", "undo", "recv", "cancel"}
    <3>1. \/ \E v \in Worker : Serves(v, d)
          \/ \E y \in Process : Answers(y, d)
          \/ control[d].phase = "queued" /\ caller[d] \in {"try_send", "undo", "recv", "cancel"}
      BY <1>3, <1>inv, <2>11, NoneAssumption DEF RemoverShape
    <3>2. CASE \E v \in Worker : Serves(v, d)
      BY <1>3, <3>2, <2>7
    <3>3. CASE \E y \in Process : Answers(y, d)
      BY <1>3, <3>3, <2>8
    <3>4. CASE control[d].phase = "queued" /\ caller[d] \in {"try_send", "undo", "recv", "cancel"}
      BY <1>3, <3>4, <2>9, <2>10
    <3> QED BY <1>3, <3>1, <3>2, <3>3, <3>4
  <2> QED BY <1>3, <1>types, <2>8, <2>11 DEF RemoverShape, Answers, Serves, Runs
<1>4. ASSUME NEW w \in Worker, Publish(w) PROVE RemoverShape'
  <2>does. HandleDoes(w)
    BY <1>4, HandleEffect
  <2> QED BY <1>4, <1>inv, <1>types, Threads, <2>does DEF HandleDoes, RemoverShape,
     RegisteredById, CallerShape, Serves, Answers, Runs, CancelRuns, Off, controlVars,
     callerVars, Writes, KeepsPhase, KeepsReason, KeepsFlag, KeepsHandle, Publish, WorkerGoes
<1>5. ASSUME NEW w \in Worker, ClearHandle(w) PROVE RemoverShape'
  <2>does. HandleDoes(w)
    BY <1>5, HandleEffect
  <2> QED BY <1>5, <1>inv, <1>types, Threads, <2>does DEF HandleDoes, RemoverShape,
     RegisteredById, CallerShape, Serves, Answers, Runs, CancelRuns, Off, controlVars,
     callerVars, Writes, KeepsPhase, KeepsReason, KeepsFlag, KeepsHandle, ClearHandle,
     WorkerGoes
<1>6. ASSUME NEW w \in Worker, FinishSearch(w) PROVE RemoverShape'
  <2>does. FinishDoes(w)
    BY <1>6, FinishEffect
  <2> QED BY <1>6, <1>inv, <1>types, Threads, <2>does DEF FinishDoes, RemoverShape,
     RegisteredById, CallerShape, Serves, Answers, Runs, CancelRuns, Off, controlVars,
     callerVars, Writes, KeepsPhase, KeepsReason, KeepsFlag, KeepsHandle, WorkerGoes
<1>7. ASSUME NEW w \in Worker, Reopen(w) PROVE RemoverShape'
  <2>7. \A v \in Worker, d \in Request : Serves(v, d) => Serves(v, d)'
    BY <1>7, <1>types DEF Reopen, WorkerGoes, Serves, Runs
  <2>8. control' = control /\ cx' = cx /\ registry' = registry /\ caller' = caller
    BY <1>7 DEF Reopen, controlVars, callerVars
  <2> QED BY <1>7, <1>inv, <1>types, <2>7, <2>8 DEF RemoverShape, Answers
<1>8. ASSUME NEW x \in Process, CxReason(x), UNCHANGED poolVars PROVE RemoverShape'
  <2>does. ReasonDoes(x)
    BY <1>8, ReasonEffect
  <2> QED BY <1>8, <1>inv, <1>types, Threads, <2>does DEF ReasonDoes, RemoverShape,
     RegisteredById, CallerShape, Serves, Answers, Runs, CancelRuns, Off, poolVars, workerVars,
     callerVars, Writes, KeepsPhase, KeepsReason, KeepsFlag, KeepsHandle, CxReason, GoTo, Return
<1>9. ASSUME NEW x \in Process, CxFlag(x), UNCHANGED poolVars PROVE RemoverShape'
  <2>does. FlagDoes(x)
    BY <1>9, FlagEffect
  <2> QED BY <1>9, <1>inv, <1>types, Threads, <2>does DEF FlagDoes, RemoverShape,
     RegisteredById, CallerShape, Serves, Answers, Runs, CancelRuns, Off, poolVars, workerVars,
     callerVars, Writes, KeepsPhase, KeepsReason, KeepsFlag, KeepsHandle, GoTo
<1>10. ASSUME NEW x \in Process, CxQueued(x), UNCHANGED poolVars PROVE RemoverShape'
  <2>does. QueuedDoes(x)
    BY <1>10, QueuedEffect
  <2> QED BY <1>10, <1>inv, <1>types, Threads, <2>does DEF QueuedDoes, RemoverShape,
     RegisteredById, CallerShape, Serves, Answers, Runs, CancelRuns, Off, poolVars, workerVars,
     callerVars, Writes, KeepsPhase, KeepsReason, KeepsFlag, KeepsHandle, GoTo
<1>11. ASSUME NEW x \in Process, CxSend(x), UNCHANGED poolVars PROVE RemoverShape'
  <2>does. SendDoes(x)
    BY <1>11, SendEffect
  <2> QED BY <1>11, <1>inv, <1>types, Threads, <2>does DEF SendDoes, RemoverShape,
     RegisteredById, CallerShape, Serves, Answers, Runs, CancelRuns, Off, poolVars, workerVars,
     callerVars, Writes, KeepsPhase, KeepsReason, KeepsFlag, KeepsHandle, GoTo
<1>12. ASSUME NEW x \in Process, CxRemove(x), UNCHANGED poolVars PROVE RemoverShape'
  <2>5. cx[x].target \in Request /\ cx[x].step = "remove"
    BY <1>12, Threads DEF CxRemove
  <2>6. registry' = [i \in RequestId |-> IF registry[i] = cx[x].target THEN None ELSE registry[i]]
    BY <1>12, <1>inv, <1>types, <2>5, NoneAssumption, IdOfAssumption DEF CxRemove,
       RemoveControl, RegisteredById
  <2>7. \A y \in Process, d \in Request : d # cx[x].target /\ Answers(y, d) => Answers(y, d)'
    BY <1>12, <1>types, <2>5 DEF Answers, CxRemove, Return
  <2>8. \A v \in Worker, d \in Request : Serves(v, d) => Serves(v, d)'
    BY <1>12 DEF Serves, Runs, poolVars, workerVars
  <2>9. control' = control /\ caller' = caller
    BY <1>12 DEF CxRemove, poolVars
  <2> QED BY <1>12, <1>inv, <1>types, <2>6, <2>7, <2>8, <2>9 DEF RemoverShape
<1>13. ASSUME NEW c \in Request, SearchRefused(c) \/ TrySend(c) \/ UndoAdmission(c)
      PROVE  RemoverShape'
  BY <1>13, <1>inv, <1>types, Threads DEF RemoverShape, RegisteredById, CallerShape, Serves,
     Answers, Runs, CancelRuns, Off, controlVars, workerVars, SearchRefused, CallerGoes,
     TrySend, UndoAdmission, RemoveControl
<1>14. ASSUME NEW c \in Request, ReceiveAnswer(c) \/ DeadlinePasses(c) \/ BeginGrace(c) \/
             GraceTimeout(c)
      PROVE  RemoverShape'
  BY <1>14, <1>inv, <1>types, Threads DEF RemoverShape, RegisteredById, CallerShape, Serves,
     Answers, Runs, CancelRuns, Off, controlVars, workerVars, ReceiveAnswer, CallerGoes,
     DeadlinePasses, CancelRun, BeginGrace, GraceTimeout, GivesUp
<1>15. ASSUME NEW k \in Canceller, NEW i \in RequestId, Cancel(k, i) PROVE RemoverShape'
  BY <1>15, <1>inv, <1>types, Threads DEF RemoverShape, RegisteredById, CallerShape, Serves,
     Answers, Runs, CancelRuns, Off, workerVars, Cancel, CancelRun
<1>16. ASSUME NEW w \in Worker, Take(w) PROVE RemoverShape'
  BY <1>16, <1>inv, <1>types, Threads DEF RemoverShape, RegisteredById, CallerShape, Serves,
     Answers, Runs, CancelRuns, Off, controlVars, callerVars, Take, WorkerGoes
<1>17. ASSUME NEW w \in Worker, Recheck(w) \/ BeginStatement(w) \/ AbortStatement(w) \/
             SearchDone(w) \/ Judge(w) \/ Swap(w) \/ EndStatement(w) \/ StorageError(w)
      PROVE  RemoverShape'
  <2>1. \A v \in Worker, d \in Request : Serves(v, d) => Serves(v, d)'
    BY <1>17, <1>types DEF Serves, Runs, Recheck, WorkerGoes, InterruptConnection,
       BeginStatement, AbortStatement, StatementStops, MustStop, SearchDone, Judge,
       JudgedResult, TerminalFromReason, Swap, EndStatement, StorageError, controlVars,
       callerVars
  <2>2. control' = control /\ cx' = cx /\ registry' = registry /\ caller' = caller
    BY <1>17 DEF Recheck, WorkerGoes, InterruptConnection, BeginStatement, AbortStatement,
       StatementStops, MustStop, SearchDone, Judge, JudgedResult, TerminalFromReason, Swap,
       EndStatement, StorageError, controlVars, callerVars
  <2> QED BY <1>inv, <1>types, <2>1, <2>2 DEF RemoverShape, Answers
<1>18. ASSUME NEW w \in Worker, RemoveJob(w) PROVE RemoverShape'
  BY <1>18, <1>inv, <1>types, Threads DEF RemoverShape, RegisteredById, CallerShape, Serves,
     Answers, Runs, CancelRuns, Off, controlVars, callerVars, RemoveJob, WorkerGoes,
     RemoveControl
<1>19. ASSUME NEW w \in Worker, RetireOrReuse(w) PROVE RemoverShape'
  BY <1>19, <1>inv, <1>types, Threads DEF RemoverShape, RegisteredById, CallerShape, Serves,
     Answers, Runs, CancelRuns, Off, controlVars, callerVars, RetireOrReuse, WorkerGoes
<1>20. ASSUME NEW x \in Process, CxActive(x), UNCHANGED poolVars PROVE RemoverShape'
  BY <1>20, <1>inv, <1>types, Threads DEF RemoverShape, RegisteredById, CallerShape, Serves,
     Answers, Runs, CancelRuns, Off, poolVars, workerVars, callerVars, CxActive, GoTo, Return
<1>21. ASSUME NEW x \in Process, CxAlreadyTerminal(x), UNCHANGED poolVars PROVE RemoverShape'
  BY <1>21, <1>inv, <1>types, Threads DEF RemoverShape, RegisteredById, CallerShape, Serves,
     Answers, Runs, CancelRuns, Off, poolVars, workerVars, callerVars, CxAlreadyTerminal, GoTo,
     Return
<1>22. ASSUME NEW x \in Process, CxInterrupt(x), UNCHANGED poolVars PROVE RemoverShape'
  BY <1>22, <1>inv, <1>types, Threads DEF RemoverShape, RegisteredById, CallerShape, Serves,
     Answers, Runs, CancelRuns, Off, poolVars, workerVars, callerVars, CxInterrupt, GoTo,
     Return, InterruptConnection
<1>23. CASE UNCHANGED <<registry, worker, job, cx, control, caller>>
  BY <1>23, <1>inv DEF RemoverShape, Serves, Answers, Runs
<1> QED BY <1>1, <1>2, <1>3, <1>4, <1>5, <1>6, <1>7, <1>8, <1>9, <1>10, <1>11, <1>12, <1>13,
   <1>14, <1>15, <1>16, <1>17, <1>18, <1>19, <1>20, <1>21, <1>22, <1>23 DEF Next, Search,
   WorkerStep, CancelStep, CancelExact, Rest, vars, controlVars, TimePasses, poolVars,
   workerVars, callerVars, Tick

\* An interrupted statement belongs to a cancelled request.
LEMMA InterruptHitsItsRequestStep ==
    ASSUME PoolInv, [Next]_vars
    PROVE  InterruptHitsItsRequest'
<1>inv. ControlTypeOK /\ PoolTypeOK /\ WorkerShape /\ InterruptHitsItsRequest /\ HandleShape /\
      CancelShape
  BY DEF PoolInv, PoolTypeOK
<1>types. /\ worker \in [Worker -> WorkerSteps] /\ job \in [Worker -> Request \cup {None}]
         /\ interrupted \subseteq running /\ running \subseteq Worker
  BY <1>inv, PoolAssumption DEF PoolTypeOK, ControlTypeOK
<1>statements. \A v \in Worker : v \in running <=> worker[v] = "running"
  BY <1>inv DEF WorkerShape
<1>1. ASSUME NEW w \in Worker, Activate(w) PROVE InterruptHitsItsRequest'
  <2>does. ActivateDoes(w)
    BY <1>1, ActivateEffect
  <2> QED BY <1>1, <1>inv, <1>types, Threads, <1>statements, <2>does DEF ActivateDoes,
     InterruptHitsItsRequest, HandleShape, CancelShape, controlVars, callerVars, Writes,
     KeepsPhase, KeepsReason, KeepsFlag, KeepsHandle, WorkerGoes
<1>2. ASSUME NEW w \in Worker, Publish(w) PROVE InterruptHitsItsRequest'
  <2>does. HandleDoes(w)
    BY <1>2, HandleEffect
  <2> QED BY <1>2, <1>inv, <1>types, Threads, <1>statements, <2>does DEF HandleDoes,
     InterruptHitsItsRequest, HandleShape, CancelShape, controlVars, callerVars, Writes,
     KeepsPhase, KeepsReason, KeepsFlag, KeepsHandle, Publish, WorkerGoes
<1>3. ASSUME NEW w \in Worker, ClearHandle(w) PROVE InterruptHitsItsRequest'
  <2>does. HandleDoes(w)
    BY <1>3, HandleEffect
  <2> QED BY <1>3, <1>inv, <1>types, Threads, <1>statements, <2>does DEF HandleDoes,
     InterruptHitsItsRequest, HandleShape, CancelShape, controlVars, callerVars, Writes,
     KeepsPhase, KeepsReason, KeepsFlag, KeepsHandle, ClearHandle, WorkerGoes
<1>4. ASSUME NEW w \in Worker, FinishSearch(w) PROVE InterruptHitsItsRequest'
  <2>does. FinishDoes(w)
    BY <1>4, FinishEffect
  <2> QED BY <1>4, <1>inv, <1>types, Threads, <1>statements, <2>does DEF FinishDoes,
     InterruptHitsItsRequest, HandleShape, CancelShape, controlVars, callerVars, Writes,
     KeepsPhase, KeepsReason, KeepsFlag, KeepsHandle, WorkerGoes
<1>5. ASSUME NEW x \in Process, CxReason(x), UNCHANGED poolVars PROVE InterruptHitsItsRequest'
  <2>does. ReasonDoes(x)
    BY <1>5, ReasonEffect
  <2> QED BY <1>5, <1>inv, <1>types, Threads, <1>statements, <2>does DEF ReasonDoes,
     InterruptHitsItsRequest, HandleShape, CancelShape, poolVars, workerVars, callerVars,
     Writes, KeepsPhase, KeepsReason, KeepsFlag, KeepsHandle, CxReason, GoTo, Return
<1>6. ASSUME NEW x \in Process, CxFlag(x), UNCHANGED poolVars PROVE InterruptHitsItsRequest'
  <2>does. FlagDoes(x)
    BY <1>6, FlagEffect
  <2> QED BY <1>6, <1>inv, <1>types, Threads, <1>statements, <2>does DEF FlagDoes,
     InterruptHitsItsRequest, HandleShape, CancelShape, poolVars, workerVars, callerVars,
     Writes, KeepsPhase, KeepsReason, KeepsFlag, KeepsHandle, GoTo
<1>7. ASSUME NEW x \in Process, CxQueued(x), UNCHANGED poolVars PROVE InterruptHitsItsRequest'
  <2>does. QueuedDoes(x)
    BY <1>7, QueuedEffect
  <2> QED BY <1>7, <1>inv, <1>types, Threads, <1>statements, <2>does DEF QueuedDoes,
     InterruptHitsItsRequest, HandleShape, CancelShape, poolVars, workerVars, callerVars,
     Writes, KeepsPhase, KeepsReason, KeepsFlag, KeepsHandle, GoTo
<1>8. ASSUME NEW x \in Process, CxInterrupt(x), UNCHANGED poolVars
      PROVE  InterruptHitsItsRequest'
  <2>7. cx[x].target \in Request /\ control[cx[x].target].cancelled
    BY <1>8, <1>inv, Threads DEF CxInterrupt, CancelShape
  <2>8. /\ control' = control /\ job' = job
        /\ \A v \in interrupted' : v \in interrupted \/ v = control[cx[x].target].active_interrupt
        /\ interrupted' \subseteq running
    BY <1>8, <1>types DEF CxInterrupt, InterruptConnection, poolVars, workerVars
  <2>9. \A v \in running : v # None
    BY <1>8, <1>types, PoolAssumption, NoneAssumption
  <2> QED BY <1>8, <1>inv, <2>7, <2>8, <2>9 DEF InterruptHitsItsRequest, HandleShape
<1>9. ASSUME NEW x \in Process, CxSend(x), UNCHANGED poolVars PROVE InterruptHitsItsRequest'
  <2>does. SendDoes(x)
    BY <1>9, SendEffect
  <2> QED BY <1>9, <1>inv, <1>types, Threads, <1>statements, <2>does DEF SendDoes,
     InterruptHitsItsRequest, HandleShape, CancelShape, poolVars, workerVars, callerVars,
     Writes, KeepsPhase, KeepsReason, KeepsFlag, KeepsHandle, GoTo
<1>10. ASSUME NEW w \in Worker, Take(w) \/ Recheck(w) \/ BeginStatement(w) \/ AbortStatement(w)
             \/ RetireOrReuse(w) \/ EndStatement(w) \/ StorageError(w)
      PROVE  InterruptHitsItsRequest'
  BY <1>10, <1>inv, <1>types, Threads, <1>statements DEF InterruptHitsItsRequest, HandleShape,
     CancelShape, controlVars, callerVars, Take, WorkerGoes, Recheck, InterruptConnection,
     BeginStatement, AbortStatement, StatementStops, MustStop, RetireOrReuse, EndStatement,
     StorageError
<1>11. CASE UNCHANGED <<interrupted, control, job>>
  BY <1>11, <1>inv DEF InterruptHitsItsRequest
<1> QED BY <1>1, <1>2, <1>3, <1>4, <1>5, <1>6, <1>7, <1>8, <1>9, <1>10, <1>11, Writers DEF
   CancelStep

\* Only results with their reason are sent.
LEMMA InterruptionHasReasonStep ==
    ASSUME PoolInv, [Next]_vars
    PROVE  InterruptionHasReason'
<1>inv. ControlTypeOK /\ PoolTypeOK /\ WorkerShape /\ InterruptionHasReason /\ ResponseShape /\
      CancelShape
  BY DEF PoolInv, PoolTypeOK
<1>types. /\ mailbox \in [Request -> Terminals \cup {None}]
         /\ response \in [Worker -> Terminals \cup {None}]
  BY <1>inv, PoolAssumption DEF PoolTypeOK, ControlTypeOK
<1>1. ASSUME NEW w \in Worker, FinishSearch(w) PROVE InterruptionHasReason'
  <2>does. FinishDoes(w)
    BY <1>1, FinishEffect
  <2> QED BY <1>1, <1>inv, <1>types, Threads, <2>does DEF FinishDoes, InterruptionHasReason,
     ResponseShape, CancelShape, controlVars, callerVars, Writes, KeepsPhase, KeepsReason,
     KeepsFlag, KeepsHandle, WorkerGoes
<1>2. ASSUME NEW x \in Process, CxSend(x), UNCHANGED poolVars PROVE InterruptionHasReason'
  <2>does. SendDoes(x)
    BY <1>2, SendEffect
  <2>7. control[cx[x].target].reason \in Reasons \ {"none"}
    BY <2>does, <1>2, <1>inv DEF SendDoes, ControlTypeOK, SearchControl, CancelShape
  <2>8. TerminalFromReason(cx[x].target) \in {"cancelled", "deadline_exceeded"}
    BY <1>2, <2>7 DEF TerminalFromReason, Reasons
  <2>9. \A d \in Request : mailbox'[d] \in {mailbox[d], TerminalFromReason(cx[x].target)}
    BY <2>does, <1>2, <1>types DEF SendDoes
  <2> QED BY <1>2, <1>inv, <2>8, <2>9 DEF InterruptionHasReason
<1>3. CASE UNCHANGED <<mailbox>>
  BY <1>3, <1>inv DEF InterruptionHasReason
<1> QED BY <1>1, <1>2, <1>3, Writers DEF CancelStep

\* Each lemma about types deals with the variables of one kind of actor.
LEMMA ControlTyped ==
    ASSUME PoolInv, [Next]_vars
    PROVE  control' \in [Request -> SearchControl]
<1>inv. control \in [Request -> SearchControl]
  BY DEF PoolInv, PoolTypeOK, ControlTypeOK
<1>1. ASSUME NEW w \in Worker, Activate(w) PROVE control' \in [Request -> SearchControl]
  BY <1>1, ActivateEffect DEF ActivateDoes, Writes
<1>2. ASSUME NEW w \in Worker, Publish(w) \/ ClearHandle(w) PROVE control' \in [Request -> SearchControl]
  BY <1>2, HandleEffect DEF HandleDoes, Writes
<1>3. ASSUME NEW w \in Worker, FinishSearch(w) PROVE control' \in [Request -> SearchControl]
  BY <1>3, FinishEffect DEF FinishDoes, Writes
<1>4. ASSUME NEW x \in Process, CxReason(x) PROVE control' \in [Request -> SearchControl]
  BY <1>4, ReasonEffect DEF ReasonDoes, Writes
<1>5. ASSUME NEW x \in Process, CxFlag(x) PROVE control' \in [Request -> SearchControl]
  BY <1>5, FlagEffect DEF FlagDoes, Writes
<1>6. ASSUME NEW x \in Process, CxQueued(x) PROVE control' \in [Request -> SearchControl]
  BY <1>6, QueuedEffect DEF QueuedDoes, Writes
<1>7. ASSUME NEW x \in Process, CxSend(x) PROVE control' \in [Request -> SearchControl]
  BY <1>7, SendEffect DEF SendDoes, Writes
<1> QED BY <1>inv, <1>1, <1>2, <1>3, <1>4, <1>5, <1>6, <1>7, Writers

\* What a worker sends or judges is a terminal result.
LEMMA MailTyped ==
    ASSUME PoolInv, [Next]_vars
    PROVE  mailbox' \in [Request -> Terminals \cup {None}]
<1>inv. /\ mailbox \in [Request -> Terminals \cup {None}]
        /\ response \in [Worker -> Terminals \cup {None}]
  BY DEF PoolInv, PoolTypeOK, ControlTypeOK
<1>1. ASSUME NEW w \in Worker, FinishSearch(w) PROVE mailbox' \in [Request -> Terminals \cup {None}]
  BY <1>inv, <1>1, FinishEffect DEF FinishDoes
<1>2. ASSUME NEW x \in Process, CxSend(x) PROVE mailbox' \in [Request -> Terminals \cup {None}]
  <2>1. TerminalFromReason(cx[x].target) \in Terminals
    BY DEF TerminalFromReason, Terminals
  <2> QED BY <1>inv, <1>2, <2>1, SendEffect DEF SendDoes
<1> QED BY <1>inv, <1>1, <1>2, Writers

\* The registry holds requests.
LEMMA RegistryTyped ==
    ASSUME PoolInv, [Next]_vars
    PROVE  registry' \in [RequestId -> Request \cup {None}]
<1>inv. registry \in [RequestId -> Request \cup {None}]
  BY DEF PoolInv, PoolTypeOK, ControlTypeOK
<1>1. ASSUME NEW c \in Request, SearchAdmitted(c) PROVE registry' \in [RequestId -> Request \cup {None}]
  BY <1>inv, <1>1, IdOfAssumption DEF SearchAdmitted, Register
<1>2. ASSUME NEW c, RemoveControl(c) PROVE registry' \in [RequestId -> Request \cup {None}]
  BY <1>inv, <1>2 DEF RemoveControl
<1> QED BY <1>inv, <1>1, <1>2, Writers DEF UndoAdmission, RemoveJob, CxRemove

\* A run of cancel_exact goes on with its target and its reason, or ends.
LEMMA RunsTyped ==
    ASSUME PoolInv, [Next]_vars
    PROVE  /\ cx' \in [Process -> CancelRuns]
           /\ \A p \in Process : cx'[p].target = None <=> cx'[p].step = "off"
<1>inv. /\ cx \in [Process -> CancelRuns]
        /\ \A p \in Process : cx[p].target = None <=> cx[p].step = "off"
  BY DEF PoolInv, PoolTypeOK, ControlTypeOK
<1> DEFINE Typed == /\ cx' \in [Process -> CancelRuns]
                    /\ \A p \in Process : cx'[p].target = None <=> cx'[p].step = "off"
<1>1. ASSUME NEW x \in Process, NEW s \in Steps \ {"off"}, cx[x].step # "off", GoTo(x, s) PROVE Typed
  BY <1>inv, <1>1 DEF GoTo, CancelRuns
<1>2. ASSUME NEW x \in Process, Return(x) PROVE Typed
  BY <1>inv, <1>2 DEF Return, Off, CancelRuns, Steps, Reasons
<1>3. ASSUME NEW x \in Process, NEW c \in Request, NEW r \in Reasons,
             cx' = [cx EXCEPT ![x] = CancelRun(c, r)]
      PROVE  Typed
  BY <1>inv, <1>3, NoneAssumption DEF CancelRun, CancelRuns, Steps
<1>4. ASSUME NEW c \in Request, DeadlinePasses(c) PROVE Typed
  BY <1>3, <1>4, Threads DEF DeadlinePasses, Reasons
<1>5. ASSUME NEW k \in Canceller, NEW i \in RequestId, Cancel(k, i) PROVE Typed
  <2>1. registry[i] = None \/ registry[i] \in Request
    BY DEF PoolInv, PoolTypeOK, ControlTypeOK
  <2> QED BY <1>inv, <1>3, <1>5, <2>1, Threads DEF Cancel, Reasons
<1>6. ASSUME NEW w \in Worker, TakeExpired(w) PROVE Typed
  <2>1. Head(queue) \in Request
    BY <1>6 DEF PoolInv, PoolTypeOK, TakeExpired
  <2> QED BY <1>3, <1>6, <2>1, Threads DEF TakeExpired, Reasons
<1>7. ASSUME NEW x \in Process, CancelExact(x) PROVE Typed
  BY <1>1, <1>2, <1>7 DEF CancelExact, CxReason, CxFlag, CxQueued, CxActive, CxAlreadyTerminal,
     CxInterrupt, CxSend, CxRemove, Steps
<1>8. CASE cx' = cx
  BY <1>inv, <1>8
<1>9. ASSUME NEW c \in Request, Search(c) PROVE Typed
  <2>1. cx' = cx \/ DeadlinePasses(c)
    BY <1>9 DEF Search, SearchRefused, SearchAdmitted, TrySend, UndoAdmission, ReceiveAnswer,
       BeginGrace, GraceTimeout, controlVars
  <2> QED BY <2>1, <1>4, <1>8
<1>10. ASSUME NEW w \in Worker, WorkerStep(w) \/ EndStatement(w) \/ StorageError(w) PROVE Typed
  <2>1. cx' = cx \/ TakeExpired(w)
    BY <1>10 DEF WorkerStep, Take, Activate, Publish, Recheck, BeginStatement, AbortStatement,
       SearchDone, ClearHandle, Judge, FinishSearch, RemoveJob, RetireOrReuse, Reopen, Swap,
       EndStatement, StorageError, controlVars
  <2> QED BY <2>1, <1>6, <1>8
<1>11. ASSUME TimePasses \/ Rest \/ UNCHANGED vars PROVE Typed
  BY <1>8, <1>11 DEF TimePasses, Tick, Rest, vars, controlVars
<1> HIDE DEF Typed
<1>12. Typed
  BY <1>5, <1>7, <1>9, <1>10, <1>11 DEF Next, CancelStep
<1> QED BY <1>12 DEF Typed

\* Only a statement that runs is interrupted.
LEMMA StatementsTyped ==
    ASSUME PoolInv, [Next]_vars
    PROVE  running' \subseteq Connection /\ interrupted' \subseteq running'
<1>inv. running \subseteq Connection /\ interrupted \subseteq running
  BY DEF PoolInv, PoolTypeOK, ControlTypeOK
<1>1. ASSUME NEW c \in Request, Search(c) PROVE UNCHANGED <<running, interrupted>>
  BY <1>1 DEF Search, SearchRefused, SearchAdmitted, TrySend, UndoAdmission, ReceiveAnswer,
     DeadlinePasses, BeginGrace, GraceTimeout, controlVars
<1>2. ASSUME NEW k \in Canceller, NEW i \in RequestId, Cancel(k, i)
      PROVE  UNCHANGED <<running, interrupted>>
  BY <1>2 DEF Cancel
<1>3. ASSUME NEW w \in Worker, WorkerStep(w) \/ EndStatement(w) \/ StorageError(w)
      PROVE  \/ UNCHANGED <<running, interrupted>>
             \/ Recheck(w) \/ BeginStatement(w)
             \/ running' = running \ {w} /\ interrupted' = interrupted \ {w}
  BY <1>3 DEF WorkerStep, TakeExpired, Take, Activate, Publish, AbortStatement,
     SearchDone, ClearHandle, Judge, FinishSearch, RemoveJob, RetireOrReuse, Reopen, Swap,
     EndStatement, StorageError, StatementStops, controlVars
<1>4. ASSUME NEW x \in Process, CancelExact(x)
      PROVE  UNCHANGED <<running, interrupted>> \/ CxInterrupt(x)
  BY <1>4 DEF CancelExact, CxReason, CxFlag, CxQueued, CxActive, CxAlreadyTerminal, CxSend, CxRemove
<1>5. TimePasses \/ Rest \/ UNCHANGED vars => UNCHANGED <<running, interrupted>>
  BY DEF TimePasses, Tick, Rest, vars, controlVars
<1>6. ASSUME NEW w \in Worker, Recheck(w) \/ BeginStatement(w)
      PROVE  running' \subseteq Connection /\ interrupted' \subseteq running'
  BY <1>inv, <1>6, PoolAssumption DEF Recheck, BeginStatement, InterruptConnection
<1>7. ASSUME NEW x \in Process, CxInterrupt(x)
      PROVE  running' \subseteq Connection /\ interrupted' \subseteq running'
  BY <1>inv, <1>7 DEF CxInterrupt, InterruptConnection
<1> QED BY <1>inv, <1>1, <1>2, <1>3, <1>4, <1>5, <1>6, <1>7 DEF Next, CancelStep

\* The callers' variables and the queue.
LEMMA CallersTyped ==
    ASSUME PoolInv, [Next]_vars
    PROVE  /\ now' \in 1..MaxTime
           /\ caller' \in [Request -> CallerSteps]
           /\ grace_end' \in [Request -> 0..MaxTime + Grace]
           /\ queue' \in Seq(Request) /\ Len(queue') <= QueueCapacity
           /\ cancels' \subseteq Canceller
<1>inv. /\ now \in 1..MaxTime
        /\ caller \in [Request -> CallerSteps]
        /\ grace_end \in [Request -> 0..MaxTime + Grace]
        /\ queue \in Seq(Request) /\ Len(queue) <= QueueCapacity
        /\ cancels \subseteq Canceller
  BY DEF PoolInv, PoolTypeOK, ControlTypeOK
<1>1. ASSUME NEW c \in Request, Search(c) PROVE UNCHANGED <<now, cancels>>
  BY <1>1 DEF Search, SearchRefused, SearchAdmitted, TrySend, UndoAdmission, ReceiveAnswer,
     DeadlinePasses, BeginGrace, GraceTimeout, controlVars
<1>2. ASSUME NEW c \in Request, Search(c) PROVE caller' \in [Request -> CallerSteps]
  BY <1>inv, <1>2 DEF Search, SearchRefused, SearchAdmitted, TrySend, UndoAdmission, ReceiveAnswer,
     DeadlinePasses, BeginGrace, GraceTimeout, CallerSteps, CallerGoes
<1>3. ASSUME NEW c \in Request, Search(c)
      PROVE  \/ grace_end' = grace_end
             \/ \E t \in {0, now + Grace} : grace_end' = [grace_end EXCEPT ![c] = t]
  BY <1>3 DEF Search, SearchRefused, SearchAdmitted, TrySend, UndoAdmission, ReceiveAnswer,
     DeadlinePasses, BeginGrace, GraceTimeout
<1>4. ASSUME NEW w \in Worker, WorkerStep(w) \/ EndStatement(w) \/ StorageError(w)
      PROVE  UNCHANGED <<now, caller, grace_end, cancels>>
  BY <1>4 DEF WorkerStep, TakeExpired, Take, Activate, Publish, Recheck, BeginStatement,
     AbortStatement, SearchDone, ClearHandle, Judge, FinishSearch, RemoveJob, RetireOrReuse, Reopen,
     Swap, EndStatement, StorageError, controlVars, callerVars
<1>5. ASSUME NEW k \in Canceller, NEW i \in RequestId, Cancel(k, i)
      PROVE  UNCHANGED <<now, caller, grace_end>> /\ cancels' = cancels \cup {k}
  BY <1>5 DEF Cancel
<1>6. ASSUME NEW x \in Process, CancelStep(x)
      PROVE  UNCHANGED <<now, caller, grace_end, cancels>>
  BY <1>6 DEF CancelStep, CancelExact, CxReason, CxFlag, CxQueued, CxActive, CxAlreadyTerminal,
     CxInterrupt, CxSend, CxRemove, poolVars
<1>7. ASSUME Rest \/ UNCHANGED vars PROVE UNCHANGED <<now, caller, grace_end, cancels>>
  BY <1>7 DEF Rest, vars, controlVars, poolVars
<1>8. ASSUME TimePasses
      PROVE  UNCHANGED <<caller, grace_end, cancels>> /\ now < MaxTime /\ now' = now + 1
  BY <1>8 DEF TimePasses, Tick, poolVars
<1>9. now' \in 1..MaxTime
  BY <1>inv, <1>1, <1>4, <1>5, <1>6, <1>7, <1>8, MaxTimeAssumption DEF Next
<1>10. caller' \in [Request -> CallerSteps]
  BY <1>inv, <1>2, <1>4, <1>5, <1>6, <1>7, <1>8 DEF Next
<1>11. grace_end' \in [Request -> 0..MaxTime + Grace]
  <2>1. 0 \in 0..MaxTime + Grace /\ now + Grace \in 0..MaxTime + Grace
    BY <1>inv, MaxTimeAssumption, PoolAssumption
  <2>2. ASSUME NEW c \in Request, Search(c) PROVE grace_end' \in [Request -> 0..MaxTime + Grace]
    BY <1>inv, <1>3, <2>1, <2>2
  <2> QED BY <1>inv, <2>2, <1>4, <1>5, <1>6, <1>7, <1>8 DEF Next
<1>12. queue' \in Seq(Request) /\ Len(queue') <= QueueCapacity
  <2>1. ASSUME NEW c \in Request, TrySend(c)
        PROVE  queue' \in Seq(Request) /\ Len(queue') <= QueueCapacity
    <3>1. queue' = queue \/ (Len(queue) < QueueCapacity /\ queue' = Append(queue, c))
      BY <2>1 DEF TrySend
    <3>2. CASE Len(queue) < QueueCapacity /\ queue' = Append(queue, c)
      <4>1. Append(queue, c) \in Seq(Request) /\ Len(Append(queue, c)) = Len(queue) + 1
        BY <1>inv
      <4>2. Len(queue) \in Nat
        BY <1>inv
      <4> QED BY <3>2, <4>1, <4>2, PoolAssumption
    <3>3. CASE queue' = queue
      BY <1>inv, <3>3
    <3> QED BY <3>1, <3>2, <3>3
  <2>2. ASSUME NEW w \in Worker, TakeExpired(w) \/ Take(w)
        PROVE  queue' \in Seq(Request) /\ Len(queue') <= QueueCapacity
    <3>1. queue # <<>> /\ queue' = Tail(queue)
      BY <2>2 DEF TakeExpired, Take
    <3> QED BY <1>inv, <3>1, PoolAssumption
  <2> QED BY <1>inv, <2>1, <2>2, Writers
<1>13. cancels' \subseteq Canceller
  BY <1>inv, <1>1, <1>4, <1>5, <1>6, <1>7, <1>8 DEF Next
<1> QED BY <1>9, <1>10, <1>11, <1>12, <1>13

\* Only the worker's own steps touch its variables.
LEMMA WorkerVarsWriters ==
    ASSUME [Next]_vars
    PROVE  \/ \E w \in Worker : WorkerStep(w) \/ EndStatement(w) \/ StorageError(w)
           \/ /\ UNCHANGED <<workerVars, running>>
              /\ \/ cx' = cx
                 \/ \E c \in Request : DeadlinePasses(c)
                 \/ \E k \in Canceller, i \in RequestId : Cancel(k, i)
                 \/ \E x \in Process : CancelExact(x)
<1>1. ASSUME NEW c \in Request, Search(c)
      PROVE  UNCHANGED <<workerVars, running>> /\ (cx' = cx \/ DeadlinePasses(c))
  BY <1>1 DEF Search, SearchRefused, SearchAdmitted, TrySend, UndoAdmission, ReceiveAnswer,
     DeadlinePasses, BeginGrace, GraceTimeout, controlVars, workerVars
<1>2. ASSUME NEW k \in Canceller, NEW i \in RequestId, Cancel(k, i)
      PROVE  UNCHANGED <<workerVars, running>>
  BY <1>2 DEF Cancel, workerVars
<1>3. ASSUME NEW x \in Process, CancelStep(x)
      PROVE  CancelExact(x) /\ UNCHANGED <<workerVars, running>>
  BY <1>3 DEF CancelStep, CancelExact, CxReason, CxFlag, CxQueued, CxActive, CxAlreadyTerminal,
     CxInterrupt, CxSend, CxRemove, poolVars, workerVars
<1>4. ASSUME TimePasses \/ Rest \/ UNCHANGED vars PROVE UNCHANGED <<workerVars, running, cx>>
  BY <1>4 DEF TimePasses, Tick, Rest, vars, controlVars, poolVars, workerVars
<1> QED BY <1>1, <1>2, <1>3, <1>4 DEF Next

\* The workers' variables.
LEMMA WorkersTyped ==
    ASSUME PoolInv, [Next]_vars
    PROVE  /\ worker' \in [Worker -> WorkerSteps]
           /\ job' \in [Worker -> Request \cup {None}]
           /\ response' \in [Worker -> Terminals \cup {None}]
           /\ statements' \in [Worker -> 0..Statements]
           /\ connections' \in [Worker -> 0..2]
<1>inv. /\ worker \in [Worker -> WorkerSteps]
        /\ job \in [Worker -> Request \cup {None}]
        /\ response \in [Worker -> Terminals \cup {None}]
        /\ statements \in [Worker -> 0..Statements]
        /\ connections \in [Worker -> 0..2]
        /\ queue \in Seq(Request)
        /\ WorkerShape
  BY DEF PoolInv, PoolTypeOK
<1>1. ASSUME NEW w \in Worker, WorkerStep(w) \/ EndStatement(w) \/ StorageError(w)
      PROVE  worker' \in [Worker -> WorkerSteps]
  <2>1. worker' = worker \/ \E s \in WorkerSteps : WorkerGoes(w, s)

    BY <1>1 DEF WorkerStep, TakeExpired, Take, Activate, Publish, Recheck, BeginStatement,
       AbortStatement, SearchDone, ClearHandle, Judge, FinishSearch, RemoveJob, RetireOrReuse,
       Reopen, Swap, EndStatement, StorageError, workerVars, WorkerSteps
  <2> QED BY <1>inv, <2>1 DEF WorkerGoes
<1>2. job' \in [Worker -> Request \cup {None}]
  <2>1. ASSUME NEW w \in Worker, Take(w) PROVE job' \in [Worker -> Request \cup {None}]
    <3>1. Head(queue) \in Request
      BY <1>inv, <2>1 DEF Take
    <3> QED BY <1>inv, <2>1, <3>1 DEF Take
  <2> QED BY <1>inv, <2>1, Writers DEF Activate, RetireOrReuse
<1>3. ASSUME NEW w \in Worker, WorkerStep(w) \/ EndStatement(w) \/ StorageError(w)
      PROVE  response' \in [Worker -> Terminals \cup {None}]
  <2>1. JudgedResult(w) \in Terminals \cup {None}
    BY <1>inv DEF JudgedResult, TerminalFromReason, Terminals
  <2>2. \/ response' = response
        \/ \E r \in {"interrupted", "storage", "ok", JudgedResult(w), None} :
               response' = [response EXCEPT ![w] = r]

    BY <1>3 DEF WorkerStep, TakeExpired, Take, Activate, Publish, Recheck, BeginStatement,
       AbortStatement, SearchDone, ClearHandle, Judge, FinishSearch, RemoveJob, RetireOrReuse,
       Reopen, Swap, EndStatement, StorageError, controlVars, callerVars, workerVars
  <2> QED BY <1>inv, <2>1, <2>2 DEF Terminals
<1>4. ASSUME NEW w \in Worker, WorkerStep(w) \/ EndStatement(w) \/ StorageError(w)
      PROVE  statements' \in [Worker -> 0..Statements]
  <2>1. \/ statements' = statements
        \/ \E n \in {0, Statements} : statements' = [statements EXCEPT ![w] = n]
        \/ worker[w] = "running" /\ statements' = [statements EXCEPT ![w] = @ - 1]

    BY <1>4 DEF WorkerStep, TakeExpired, Take, Activate, Publish, Recheck, BeginStatement,
       AbortStatement, SearchDone, ClearHandle, Judge, FinishSearch, RemoveJob, RetireOrReuse,
       Reopen, Swap, EndStatement, StorageError, StatementStops, controlVars, callerVars,
       workerVars
  <2>2. worker[w] = "running" => statements[w] - 1 \in 0..Statements
    BY <1>inv, PoolAssumption DEF WorkerShape
  <2>3. 0 \in 0..Statements /\ Statements \in 0..Statements
    BY PoolAssumption
  <2> QED BY <1>inv, <2>1, <2>2, <2>3
<1>5. ASSUME NEW w \in Worker, WorkerStep(w) \/ EndStatement(w) \/ StorageError(w)
      PROVE  connections' \in [Worker -> 0..2]
  <2>1. \/ connections' = connections
        \/ Reopen(w) \/ Swap(w)

    BY <1>5 DEF WorkerStep, TakeExpired, Take, Activate, Publish, Recheck, BeginStatement,
       AbortStatement, SearchDone, ClearHandle, Judge, FinishSearch, RemoveJob, RetireOrReuse,
       EndStatement, StorageError, controlVars, callerVars, workerVars
  <2>2. Reopen(w) => connections' \in [Worker -> 0..2]
    BY <1>inv DEF WorkerShape, Reopen
  <2>3. Swap(w) => connections' \in [Worker -> 0..2]
    BY <1>inv DEF WorkerShape, Swap
  <2> QED BY <1>inv, <2>1, <2>2, <2>3
<1>6. ASSUME UNCHANGED workerVars
      PROVE  UNCHANGED <<worker, job, response, statements, connections>>
  BY <1>6 DEF workerVars
<1> QED BY <1>inv, <1>1, <1>2, <1>3, <1>4, <1>5, <1>6, WorkerVarsWriters

\* Where a worker's loop stands says what it holds.
LEMMA WorkerShapeStep ==
    ASSUME PoolInv, [Next]_vars
    PROVE  WorkerShape'
<1>inv. WorkerShape
  BY DEF PoolInv
<1>types. /\ worker \in [Worker -> WorkerSteps]
          /\ job \in [Worker -> Request \cup {None}] /\ cx \in [Process -> CancelRuns]
          /\ statements \in [Worker -> 0..Statements] /\ connections \in [Worker -> 0..2]
  BY DEF PoolInv, PoolTypeOK, ControlTypeOK
<1>1. ASSUME NEW w \in Worker, TakeExpired(w) PROVE WorkerShape'
  BY <1>1, <1>inv, <1>types, NoneAssumption, PoolAssumption, Threads DEF WorkerShape,
     TakeExpired, WorkerGoes, CancelRun, controlVars, callerVars, workerVars
<1>2. ASSUME NEW w \in Worker, Take(w) PROVE WorkerShape'
  <2>1. Head(queue) \in Request
    BY <1>2 DEF PoolInv, PoolTypeOK, Take
  <2> QED BY <1>2, <2>1, <1>inv, <1>types, NoneAssumption DEF Take, WorkerShape, WorkerGoes,
     controlVars
<1>3. ASSUME NEW w \in Worker, Activate(w) PROVE WorkerShape'
  BY <1>3, <1>inv, <1>types, NoneAssumption, PoolAssumption, Threads, ActivateEffect DEF
     ActivateDoes, WorkerShape, WorkerGoes
<1>4. ASSUME NEW w \in Worker, Publish(w) PROVE WorkerShape'
  BY <1>4, <1>inv, <1>types, NoneAssumption, PoolAssumption, Threads DEF WorkerShape, Publish,
     WorkerGoes, controlVars, callerVars, workerVars
<1>5. ASSUME NEW w \in Worker, Recheck(w) PROVE WorkerShape'
  BY <1>5, <1>inv, <1>types, NoneAssumption, PoolAssumption, Threads DEF WorkerShape, Recheck,
     WorkerGoes, InterruptConnection, controlVars, callerVars, workerVars
<1>6. ASSUME NEW w \in Worker, BeginStatement(w) PROVE WorkerShape'
  BY <1>6, <1>inv, <1>types, NoneAssumption, PoolAssumption, Threads DEF WorkerShape,
     BeginStatement, WorkerGoes, controlVars, callerVars, workerVars
<1>7. ASSUME NEW w \in Worker, AbortStatement(w) PROVE WorkerShape'
  BY <1>7, <1>inv, <1>types, NoneAssumption, PoolAssumption, Threads DEF WorkerShape,
     AbortStatement, WorkerGoes, StatementStops, MustStop, controlVars, callerVars, workerVars
<1>8. ASSUME NEW w \in Worker, SearchDone(w) PROVE WorkerShape'
  BY <1>8, <1>inv, <1>types, NoneAssumption, PoolAssumption, Threads DEF WorkerShape,
     SearchDone, WorkerGoes, controlVars, callerVars, workerVars
<1>9. ASSUME NEW w \in Worker, ClearHandle(w) PROVE WorkerShape'
  BY <1>9, <1>inv, <1>types, NoneAssumption, PoolAssumption, Threads DEF WorkerShape,
     ClearHandle, WorkerGoes, controlVars, callerVars, workerVars
<1>10. ASSUME NEW w \in Worker, Judge(w) PROVE WorkerShape'
  BY <1>10, <1>inv, <1>types, NoneAssumption, PoolAssumption, Threads DEF WorkerShape, Judge,
     WorkerGoes, JudgedResult, TerminalFromReason, controlVars, callerVars, workerVars
<1>11. ASSUME NEW w \in Worker, FinishSearch(w) PROVE WorkerShape'
  BY <1>11, <1>inv, <1>types, NoneAssumption, PoolAssumption, Threads DEF WorkerShape,
     FinishSearch, WorkerGoes, controlVars, callerVars, workerVars
<1>12. ASSUME NEW w \in Worker, RemoveJob(w) PROVE WorkerShape'
  BY <1>12, <1>inv, <1>types, NoneAssumption, PoolAssumption, Threads DEF WorkerShape,
     RemoveJob, WorkerGoes, RemoveControl, controlVars, callerVars, workerVars
<1>13. ASSUME NEW w \in Worker, RetireOrReuse(w) PROVE WorkerShape'
  BY <1>13, <1>inv, <1>types, NoneAssumption, PoolAssumption, Threads DEF WorkerShape,
     RetireOrReuse, WorkerGoes, controlVars, callerVars, workerVars
<1>14. ASSUME NEW w \in Worker, Reopen(w) PROVE WorkerShape'
  BY <1>14, <1>inv, <1>types, NoneAssumption, PoolAssumption, Threads DEF WorkerShape, Reopen,
     WorkerGoes, controlVars, callerVars, workerVars
<1>15. ASSUME NEW w \in Worker, Swap(w) PROVE WorkerShape'
  BY <1>15, <1>inv, <1>types, NoneAssumption, PoolAssumption, Threads DEF WorkerShape, Swap,
     WorkerGoes, controlVars, callerVars, workerVars
<1>16. ASSUME NEW w \in Worker, EndStatement(w) PROVE WorkerShape'
  BY <1>16, <1>inv, <1>types, NoneAssumption, PoolAssumption, Threads DEF WorkerShape,
     EndStatement, WorkerGoes, StatementStops, controlVars, callerVars, workerVars
<1>17. ASSUME NEW w \in Worker, StorageError(w) PROVE WorkerShape'
  BY <1>17, <1>inv, <1>types, NoneAssumption, PoolAssumption, Threads DEF WorkerShape,
     StorageError, WorkerGoes, StatementStops, controlVars, callerVars, workerVars
<1>18. ASSUME UNCHANGED <<workerVars, running>>,
             \A w \in Worker : cx'[w].step # "off" => cx[w].step # "off"
      PROVE  WorkerShape'
  BY <1>18, <1>inv DEF WorkerShape, workerVars
<1>19. ASSUME UNCHANGED <<workerVars, running>>,
             \/ cx' = cx
             \/ \E c \in Request : DeadlinePasses(c)
             \/ \E k \in Canceller, i \in RequestId : Cancel(k, i)
             \/ \E x \in Process : CancelExact(x)
      PROVE  WorkerShape'
  <2>1. ASSUME NEW c \in Request, DeadlinePasses(c)
        PROVE  \A w \in Worker : cx'[w] = cx[w]
    BY <2>1, <1>types, Threads DEF DeadlinePasses
  <2>2. ASSUME NEW k \in Canceller, NEW i \in RequestId, Cancel(k, i)
        PROVE  \A w \in Worker : cx'[w] = cx[w]
    BY <2>2, <1>types, Threads DEF Cancel
  <2>3. ASSUME NEW x \in Process, CancelExact(x)
        PROVE  \A w \in Worker : cx'[w].step # "off" => cx[w].step # "off"
    <3>1. /\ cx[x].step # "off"
          /\ cx' = [cx EXCEPT ![x] = Off] \/ \E s \in Steps : cx' = [cx EXCEPT ![x].step = s]
      BY <2>3 DEF CancelExact, CxReason, CxFlag, CxQueued, CxActive, CxAlreadyTerminal,
         CxInterrupt, CxSend, CxRemove, GoTo, Return, Steps
    <3> QED BY <3>1, <1>types, Threads
  <2> QED BY <1>18, <1>19, <2>1, <2>2, <2>3
<1> QED BY <1>1, <1>2, <1>3, <1>4, <1>5, <1>6, <1>7, <1>8, <1>9, <1>10, <1>11, <1>12, <1>13, <1>14, <1>15, <1>16, <1>17, <1>18, <1>19, WorkerVarsWriters DEF WorkerStep

\* At the start nothing is known, queued or run.
LEMMA PoolInvInit == Init => PoolInv
<1> SUFFICES ASSUME Init PROVE PoolInv
  OBVIOUS
<1> USE DEF Init, ControlInit
<1>1. ControlTypeOK
  <2>1. NewControl \in SearchControl
    BY MaxTimeAssumption DEF NewControl, SearchControl, Phases, Reasons
  <2>2. Off \in CancelRuns /\ Off.step = "off" /\ Off.target = None
    BY DEF Off, CancelRuns, Steps, Reasons
  <2>3. now \in 1..MaxTime
    BY MaxTimeAssumption
  <2> QED BY <2>1, <2>2, <2>3 DEF ControlTypeOK
<1>2. PoolTypeOK
  <2>1. /\ caller \in [Request -> CallerSteps] /\ grace_end \in [Request -> 0..MaxTime + Grace]
        /\ queue \in Seq(Request) /\ Len(queue) <= QueueCapacity
    BY PoolAssumption, MaxTimeAssumption DEF CallerSteps
  <2>2. /\ worker \in [Worker -> WorkerSteps] /\ job \in [Worker -> Request \cup {None}]
        /\ response \in [Worker -> Terminals \cup {None}]
        /\ statements \in [Worker -> 0..Statements] /\ connections \in [Worker -> 0..2]
    BY PoolAssumption DEF WorkerSteps
  <2> QED BY <1>1, <2>1, <2>2 DEF PoolTypeOK
<1>3. WorkerShape
  BY PoolAssumption DEF WorkerShape, Off
<1>4. \A c \in Request : control[c] = NewControl /\ mailbox[c] = None /\ caller[c] = "idle"
  OBVIOUS
<1>5. \A x \in Process : cx[x].step = "off" /\ cx[x].target = None
  BY DEF Off
<1>6. \A w \in Worker : worker[w] = "recv" /\ job[w] = None /\ response[w] = None
  OBVIOUS
<1>7. \A i \in RequestId : registry[i] = None
  OBVIOUS
<1>8. None \notin Request /\ None \notin Terminals
  BY NoneAssumption
<1>9. CancelShape /\ Cancelled /\ HandleShape /\ PhaseShape
  BY <1>4, <1>5, <1>6 DEF CancelShape, Cancelled, HandleShape, PhaseShape, NewControl
<1>10. ResponseShape
  BY <1>6, <1>8 DEF ResponseShape, Terminals
<1>11. OutsideShape
  BY <1>4, <1>6, <1>8 DEF OutsideShape, NewControl
<1>12. IdleShape
  <2>1. \A x \in Process : cx[x].target = None
    BY <1>5
  <2>2. \A c \in Request : control[c].phase = "queued" /\ mailbox[c] = None
    BY <1>4 DEF NewControl
  <2> QED BY <1>7, <1>8, <2>1, <2>2 DEF IdleShape
<1>13. CallerShape
  <2>1. \A c \in Request : c \in Process
    BY PoolAssumption
  <2> QED BY <1>4, <1>5, <2>1 DEF CallerShape, NewControl
<1>14. SoleFinisher
  BY <1>5, <1>6 DEF SoleFinisher, Serves, Answers, Runs
<1>15. CareShape /\ RegisteredById /\ RemoverShape
  BY <1>4, <1>7 DEF CareShape, RegisteredById, RemoverShape, InCare, NewControl
<1>16. InterruptHitsItsRequest
  BY DEF InterruptHitsItsRequest
<1>17. InterruptionHasReason
  BY <1>4, <1>8 DEF InterruptionHasReason, Terminals
<1> QED BY <1>2, <1>3, <1>9, <1>10, <1>11, <1>12, <1>13, <1>14, <1>15, <1>16, <1>17 DEF PoolInv

\* Every step keeps all of it.
LEMMA PoolInvStep ==
    ASSUME PoolInv, [Next]_vars
    PROVE  PoolInv'
<1>1. PoolTypeOK'
  BY ControlTyped, MailTyped, RegistryTyped, RunsTyped, StatementsTyped, CallersTyped, WorkersTyped
     DEF PoolTypeOK, ControlTypeOK
<1> QED BY <1>1, WorkerShapeStep, CancelShapeStep, CancelledStep, HandleShapeStep, PhaseShapeStep,
           ResponseShapeStep, OutsideShapeStep, IdleShapeStep, CallerShapeStep, SoleFinisherStep,
           CareShapeStep, RegisteredByIdStep, RemoverShapeStep, InterruptHitsItsRequestStep,
           InterruptionHasReasonStep
        DEF PoolInv

----------------------------------------------------------------------------
(* What holds in every state of the pool.                                  *)

\* The inductive invariant of the pool: whatever callers, cancels and workers do, in
\* whatever order, and whatever the clock says.
THEOREM PoolInvariant == Spec => []PoolInv
<1>1. PoolInv /\ [Next]_vars => PoolInv'
  BY PoolInvStep
<1> QED BY <1>1, PoolInvInit, PTL DEF Spec

\* Every variable keeps its type; the reader channel never holds more than its
\* capacity and a worker never more than two connections.
THEOREM PoolTypeCorrect == Spec => []PoolTypeOK
<1>1. PoolInv => PoolTypeOK
  BY DEF PoolInv
<1> QED BY <1>1, PoolInvariant, PTL

\* sqlite3_interrupt, called through a published handle, never stops the search of
\* a request that nobody cancelled.
THEOREM CancellationHitsItsRequest == Spec => []InterruptHitsItsRequest
<1>1. PoolInv => InterruptHitsItsRequest
  BY DEF PoolInv
<1> QED BY <1>1, PoolInvariant, PTL

\* terminal_from_reason always finds a reason: no caller is told of an interruption
\* that nobody asked for.
THEOREM InterruptionsHaveReasons == Spec => []InterruptionHasReason
<1>1. PoolInv => InterruptionHasReason
  BY DEF PoolInv
<1> QED BY <1>1, PoolInvariant, PTL

\* A set whose elements are all equal has at most one.
LEMMA AtMostOne ==
    ASSUME NEW S, \A a, b \in S : a = b
    PROVE  Cardinality(S) <= 1
<1>1. CASE S = {}
  BY <1>1, FS_EmptySet
<1>2. CASE S # {}
  <2>1. PICK a \in S : TRUE
    BY <1>2
  <2>2. S = {a}
    BY <2>1
  <2> QED BY <2>2, FS_Singleton
<1> QED BY <1>1, <1>2

\* The compare-exchange of the phase decides who ends a request: one process alone
\* runs or answers it.
THEOREM OnlyOneFinisher == Spec => []OneFinisher
<1>1. ASSUME PoolInv PROVE OneFinisher
  <2>1. ASSUME NEW c \in Request PROVE Cardinality(Finishers(c)) <= 1
    <3>1. \A a \in Finishers(c) : \/ a \in Worker /\ Serves(a, c)
                                  \/ a \in Process /\ Answers(a, c)
      BY DEF Finishers, Serves, Answers
    <3>2. \A a, b \in Finishers(c) : a = b
      BY <1>1, <3>1 DEF PoolInv, SoleFinisher
    <3> QED BY <3>2, AtMostOne
  <2> QED BY <2>1 DEF OneFinisher
<1> QED BY <1>1, PoolInvariant, PTL

\* The registry holds what is alive, so that a cancel finds it, and nothing that
\* nobody would remove, so that the admission bound is never used up by the dead.
THEOREM RegistryStaysExact == Spec => []RegistryIsExact
<1>1. ASSUME PoolInv PROVE RegistryIsExact
  <2>1. \A c \in Request : InCare(c) => registry[IdOf[c]] = c
    BY <1>1 DEF PoolInv, CareShape
  <2>2. ASSUME NEW i \in Registered
        PROVE  \/ Finishers(registry[i]) # {}
               \/ /\ control[registry[i]].phase = "queued"
                  /\ caller[registry[i]] \in {"try_send", "undo", "recv", "cancel"}
    <3>1. i \in RequestId /\ registry[i] # None
      BY DEF Registered
    <3>2. CASE \E w \in Worker : Serves(w, registry[i])
      BY <3>2 DEF Finishers, Serves
    <3>3. CASE \E x \in Process : Answers(x, registry[i])
      BY <3>3 DEF Finishers, Answers
    <3> QED BY <1>1, <3>1, <3>2, <3>3 DEF PoolInv, RemoverShape
  <2> QED BY <2>1, <2>2 DEF RegistryIsExact
<1> QED BY <1>1, PoolInvariant, PTL

----------------------------------------------------------------------------
(* The pool implements SearchPromise.                                      *)

\* A request has its completion until it is answered, and is not answered before
\* it has ended.
CompletionShape ==
    \A c \in Request :
        /\ control[c].phase # "terminal" => control[c].completion
        /\ control[c].completion => mailbox[c] = None

\* What a search returns is one of three, and the result to be sent is that of the
\* search or its reason.
JudgedShape ==
    \A w \in Worker :
        /\ worker[w] \in {"clear", "judge"} => response[w] \in {"ok", "storage", "interrupted"}
        /\ worker[w] = "send" =>
               \/ response[w] \in {"ok", "storage"}
               \/ /\ control[job[w]].reason # "none"
                  /\ response[w] = TerminalFromReason(job[w])

\* A cancellation for a deadline is begun, and goes on, after that deadline.
DeadlineShape ==
    \A x \in Process : cx[x].step # "off" /\ cx[x].reason = "deadline" => Expired(cx[x].target)

PromiseInv == PoolInv /\ CompletionShape /\ JudgedShape /\ DeadlineShape

KeepsCompletion == \A d \in Request : control'[d].completion = control[d].completion

\* The two places that send an answer are the only ones that take the completion.
LEMMA CompletionWriters ==
    ASSUME PoolInv, [Next]_vars
    PROVE  \/ KeepsCompletion /\ mailbox' = mailbox
           \/ \E w \in Worker : FinishSearch(w)
           \/ \E x \in Process : CancelStep(x) /\ CxSend(x)
<1>0. ControlTypeOK
  BY DEF PoolInv, PoolTypeOK
<1>1. ASSUME NEW w \in Worker, Activate(w) PROVE KeepsCompletion
  <2>1. job[w] \in Request
    BY <1>1, Threads DEF Activate
  <2> QED BY <1>0, <1>1, <2>1 DEF Activate, ControlTypeOK, SearchControl, KeepsCompletion
<1>2. ASSUME NEW w \in Worker, Publish(w) \/ ClearHandle(w) PROVE KeepsCompletion
  <2>1. job[w] \in Request
    BY <1>2, Threads DEF Publish, ClearHandle
  <2> QED BY <1>0, <1>2, <2>1 DEF Publish, ClearHandle, ControlTypeOK, SearchControl,
             KeepsCompletion
<1>3. ASSUME NEW x \in Process, CxReason(x) PROVE KeepsCompletion
  <2>1. cx[x].target \in Request
    BY <1>3, Threads DEF CxReason
  <2> QED BY <1>0, <1>3, <2>1 DEF CxReason, ControlTypeOK, SearchControl, KeepsCompletion
<1>4. ASSUME NEW x \in Process, CxFlag(x) PROVE KeepsCompletion
  <2> DEFINE c == cx[x].target
             new == [control[c] EXCEPT !.cancelled = TRUE,
                                       !.cancelled_at = IF @ = 0 THEN now ELSE @]
  <2>1. c \in Request
    BY <1>4, Threads DEF CxFlag
  <2>2. control[c] \in SearchControl
    BY <1>0, <2>1 DEF ControlTypeOK
  <2>3. new.completion = control[c].completion
    BY <2>2 DEF SearchControl
  <2>4. control' = [control EXCEPT ![c] = new]
    BY <1>0, <1>4, <2>1 DEF CxFlag, ControlTypeOK
  <2> HIDE DEF new
  <2> QED BY <1>0, <2>1, <2>3, <2>4 DEF ControlTypeOK, KeepsCompletion
<1>5. ASSUME NEW x \in Process, CxQueued(x) PROVE KeepsCompletion
  <2>1. cx[x].target \in Request
    BY <1>5, Threads DEF CxQueued
  <2> QED BY <1>0, <1>5, <2>1 DEF CxQueued, ControlTypeOK, SearchControl, KeepsCompletion
<1>6. control' = control => KeepsCompletion
  BY DEF KeepsCompletion
<1>7. /\ \/ KeepsCompletion
         \/ \E w \in Worker : FinishSearch(w)
         \/ \E x \in Process : CancelStep(x) /\ CxSend(x)
      /\ \/ mailbox' = mailbox
         \/ \E w \in Worker : FinishSearch(w)
         \/ \E x \in Process : CancelStep(x) /\ CxSend(x)
  BY <1>1, <1>2, <1>3, <1>4, <1>5, <1>6, Writers
<1> QED BY <1>7

\* A phase only moves forward from its end, and the first reason stays.
LEMMA EndsStay ==
    ASSUME PoolInv, [Next]_vars
    PROVE  \A d \in Request :
               /\ control[d].phase = "terminal" => control'[d].phase = "terminal"
               /\ control[d].reason # "none" => control'[d].reason = control[d].reason
<1>1. ASSUME NEW w \in Worker, Activate(w)
      PROVE  KeepsReason /\ \A d \in Request : control[d].phase = "terminal" => control'[d] = control[d]
  BY <1>1, ActivateEffect DEF ActivateDoes, Writes
<1>2. ASSUME NEW w \in Worker, Publish(w) \/ ClearHandle(w)
      PROVE  KeepsReason /\ KeepsPhase
  BY <1>2, HandleEffect DEF HandleDoes
<1>3. ASSUME NEW w \in Worker, FinishSearch(w)
      PROVE  KeepsReason /\ \A d \in Request : \/ control'[d] = control[d]
                                               \/ control'[d].phase = "terminal"
  BY <1>3, FinishEffect DEF FinishDoes, Writes
<1>4. ASSUME NEW x \in Process, CxReason(x)
      PROVE  /\ KeepsPhase
             /\ \A d \in Request : control[d].reason # "none" => control'[d] = control[d]
  BY <1>4, ReasonEffect DEF ReasonDoes
<1>5. ASSUME NEW x \in Process, CxFlag(x) PROVE KeepsPhase /\ KeepsReason
  BY <1>5, FlagEffect DEF FlagDoes
<1>6. ASSUME NEW x \in Process, CxQueued(x)
      PROVE  KeepsReason /\ \A d \in Request : \/ control'[d] = control[d]
                                               \/ control'[d].phase = "terminal"
  BY <1>6, QueuedEffect DEF QueuedDoes, Writes
<1>7. ASSUME NEW x \in Process, CxSend(x) PROVE KeepsPhase /\ KeepsReason
  BY <1>7, SendEffect DEF SendDoes
<1> QED BY <1>1, <1>2, <1>3, <1>4, <1>5, <1>6, <1>7, Writers DEF KeepsPhase, KeepsReason

\* An answer takes the completion, and only of what has ended.
LEMMA CompletionShapeStep ==
    ASSUME PromiseInv, [Next]_vars
    PROVE  CompletionShape'
<1>0. PoolInv /\ ControlTypeOK /\ CompletionShape /\ CancelShape
  BY DEF PromiseInv, PoolInv, PoolTypeOK
<1>1. CASE KeepsCompletion /\ mailbox' = mailbox
  BY <1>0, <1>1, EndsStay DEF CompletionShape, KeepsCompletion
<1>2. ASSUME NEW w \in Worker, FinishSearch(w) PROVE CompletionShape'
  <2>1. job[w] \in Request /\ FinishDoes(w)
    BY <1>0, <1>2, FinishEffect DEF FinishDoes
  <2>2. control'[job[w]].completion = FALSE /\ control'[job[w]].phase = "terminal"
    BY <1>0, <1>2, <2>1 DEF FinishSearch, ControlTypeOK, SearchControl
  <2>3. \A d \in Request : d # job[w] => control'[d] = control[d] /\ mailbox'[d] = mailbox[d]
    BY <1>0, <2>1 DEF FinishDoes, Writes, ControlTypeOK
  <2> QED BY <1>0, <2>1, <2>2, <2>3 DEF CompletionShape
<1>3. ASSUME NEW x \in Process, CxSend(x) PROVE CompletionShape'
  <2> DEFINE c == cx[x].target
  <2>1. c \in Request /\ SendDoes(x) /\ control[c].phase = "terminal"
    BY <1>0, <1>3, SendEffect DEF SendDoes, CancelShape
  <2>2. control'[c].phase = "terminal" /\ control'[c].completion = FALSE
    BY <1>0, <1>3, <2>1 DEF CxSend, SendCompletion, ControlTypeOK, SearchControl
  <2>3. \A d \in Request : d # c => control'[d] = control[d] /\ mailbox'[d] = mailbox[d]
    BY <1>0, <2>1 DEF SendDoes, Writes, ControlTypeOK
  <2> QED BY <1>0, <2>1, <2>2, <2>3 DEF CompletionShape
<1> QED BY <1>0, <1>1, <1>2, <1>3, CompletionWriters

\* Only the clock moves the clock.
LEMMA ClockWriters ==
    ASSUME [Next]_vars
    PROVE  now' = now \/ (now' = now + 1 /\ UNCHANGED <<control, mailbox>>)
<1>1. ASSUME NEW c \in Request, Search(c) PROVE now' = now
  BY <1>1 DEF Search, SearchRefused, SearchAdmitted, TrySend, UndoAdmission, ReceiveAnswer,
     DeadlinePasses, BeginGrace, GraceTimeout, controlVars
<1>2. ASSUME NEW w \in Worker, WorkerStep(w) \/ EndStatement(w) \/ StorageError(w)
      PROVE  now' = now
  BY <1>2 DEF WorkerStep, TakeExpired, Take, Activate, Publish, Recheck, BeginStatement,
     AbortStatement, SearchDone, ClearHandle, Judge, FinishSearch, RemoveJob, RetireOrReuse,
     Reopen, Swap, EndStatement, StorageError, controlVars
<1>3. ASSUME NEW x \in Process, CancelStep(x) PROVE now' = now
  BY <1>3 DEF CancelStep, CancelExact, CxReason, CxFlag, CxQueued, CxActive, CxAlreadyTerminal,
     CxInterrupt, CxSend, CxRemove
<1>4. ASSUME NEW k \in Canceller, NEW i \in RequestId, Cancel(k, i) PROVE now' = now
  BY <1>4 DEF Cancel
<1>5. TimePasses => now' = now + 1 /\ UNCHANGED <<control, mailbox>>
  BY DEF TimePasses, Tick
<1>6. Rest \/ UNCHANGED vars => now' = now
  BY DEF Rest, vars, controlVars
<1> QED BY <1>1, <1>2, <1>3, <1>4, <1>5, <1>6 DEF Next

\* A cancellation keeps its target and its reason, and time does not go back.
LEMMA DeadlineShapeStep ==
    ASSUME PromiseInv, [Next]_vars
    PROVE  DeadlineShape'
<1>0. PoolInv /\ ControlTypeOK /\ DeadlineShape /\ PoolTypeOK
  BY DEF PromiseInv, PoolInv, PoolTypeOK
<1>1. now' = now \/ now' = now + 1
  BY ClockWriters
<1>2. \A c \in Request : Expired(c) => Expired(c)'
  BY <1>0, <1>1, DeadlineAssumption DEF Expired, ControlTypeOK
<1>3. ASSUME NEW x \in Process, NEW c \in Request, Expired(c), now' = now,
             cx' = [cx EXCEPT ![x] = CancelRun(c, "deadline")]
      PROVE  DeadlineShape'
  BY <1>0, <1>2, <1>3, Threads DEF DeadlineShape, CancelRun, ControlTypeOK
<1>4. ASSUME NEW c \in Request, DeadlinePasses(c) PROVE DeadlineShape'
  BY <1>0, <1>3, <1>4, Threads DEF DeadlinePasses
<1>5. ASSUME NEW w \in Worker, TakeExpired(w) PROVE DeadlineShape'
  <2>1. Head(queue) \in Request
    BY <1>0, <1>5 DEF TakeExpired, PoolTypeOK
  <2> QED BY <1>0, <1>3, <1>5, <2>1, Threads DEF TakeExpired
<1>6. ASSUME NEW k \in Canceller, NEW i \in RequestId, Cancel(k, i) PROVE DeadlineShape'
  BY <1>0, <1>2, <1>6, Threads DEF Cancel, DeadlineShape, CancelRun, ControlTypeOK
<1>7. ASSUME NEW x \in Process, CancelExact(x) PROVE DeadlineShape'
  <2>1. /\ cx[x].step # "off" /\ now' = now
        /\ cx' = [cx EXCEPT ![x] = Off] \/ \E s \in Steps : cx' = [cx EXCEPT ![x].step = s]
    BY <1>7 DEF CancelExact, CxReason, CxFlag, CxQueued, CxActive, CxAlreadyTerminal,
       CxInterrupt, CxSend, CxRemove, GoTo, Return, Steps
  <2>2. \A y \in Process : cx'[y].step # "off" =>
            /\ cx[y].step # "off" /\ cx'[y].target = cx[y].target /\ cx'[y].reason = cx[y].reason
    BY <1>0, <2>1 DEF ControlTypeOK, CancelRuns, Off
  <2> QED BY <1>0, <1>2, <2>2, Threads DEF DeadlineShape
<1>8. ASSUME cx' = cx PROVE DeadlineShape'
  BY <1>0, <1>2, <1>8, Threads DEF DeadlineShape
<1>9. \/ cx' = cx
      \/ \E c \in Request : DeadlinePasses(c)
      \/ \E w \in Worker : TakeExpired(w)
      \/ \E k \in Canceller, i \in RequestId : Cancel(k, i)
      \/ \E x \in Process : CancelExact(x)
  BY DEF Next, Search, SearchRefused, SearchAdmitted, TrySend, UndoAdmission, ReceiveAnswer,
     BeginGrace, GraceTimeout, WorkerStep, Take, Activate, Publish, Recheck, BeginStatement,
     AbortStatement, SearchDone, ClearHandle, Judge, FinishSearch, RemoveJob, RetireOrReuse,
     Reopen, Swap, EndStatement, StorageError, CancelStep, TimePasses, Tick, Rest, vars,
     controlVars
<1> QED BY <1>4, <1>5, <1>6, <1>7, <1>8, <1>9

\* What a worker sends is what its search returned, or the reason it found then.
LEMMA JudgedShapeStep ==
    ASSUME PromiseInv, [Next]_vars
    PROVE  JudgedShape'
<1>0. /\ PoolInv /\ ControlTypeOK /\ JudgedShape /\ ResponseShape
      /\ worker \in [Worker -> WorkerSteps] /\ job \in [Worker -> Request \cup {None}]
      /\ response \in [Worker -> Terminals \cup {None}]
  BY DEF PromiseInv, PoolInv, PoolTypeOK
<1>1. \A d \in Request : control[d].reason # "none" =>
          control'[d].reason = control[d].reason /\ TerminalFromReason(d)' = TerminalFromReason(d)
  BY EndsStay, <1>0 DEF TerminalFromReason
<1> DEFINE Stays(v) == worker'[v] = worker[v] /\ job'[v] = job[v] /\ response'[v] = response[v]
           Shape(v) == /\ worker[v] \in {"clear", "judge"} => response[v] \in {"ok", "storage", "interrupted"}
                       /\ worker[v] = "send" =>
                              \/ response[v] \in {"ok", "storage"}
                              \/ /\ control[job[v]].reason # "none"
                                 /\ response[v] = TerminalFromReason(job[v])
<1>2. ASSUME NEW v \in Worker, Stays(v) PROVE Shape(v)'
  BY <1>0, <1>1, <1>2, Threads DEF JudgedShape
<1>3. ASSUME NEW w \in Worker, WorkerStep(w) \/ EndStatement(w) \/ StorageError(w)
      PROVE  \A v \in Worker : v # w => Stays(v)
  BY <1>0, <1>3 DEF WorkerStep, TakeExpired, Take, Activate, Publish, Recheck, BeginStatement,
     AbortStatement, SearchDone, ClearHandle, Judge, FinishSearch, RemoveJob, RetireOrReuse,
     Reopen, Swap, EndStatement, StorageError, callerVars, workerVars, WorkerGoes
<1>4. ASSUME NEW w \in Worker, AbortStatement(w) \/ StorageError(w) \/ SearchDone(w)
      PROVE  Shape(w)'
  BY <1>0, <1>4 DEF AbortStatement, StorageError, SearchDone, WorkerGoes
<1>5. ASSUME NEW w \in Worker, ClearHandle(w) PROVE Shape(w)'
  BY <1>0, <1>5 DEF ClearHandle, WorkerGoes, JudgedShape
<1>6. ASSUME NEW w \in Worker, Judge(w) PROVE Shape(w)'
  <2>1. worker'[w] = "send" /\ response'[w] = JudgedResult(w) /\ control' = control /\ job' = job
    BY <1>0, <1>6 DEF Judge, WorkerGoes, controlVars
  <2>2. response[w] \in {"ok", "storage", "interrupted"}
    BY <1>0, <1>6 DEF Judge, JudgedShape
  <2>3. CASE control[job[w]].reason # "none"
    BY <2>1, <2>3 DEF JudgedResult, TerminalFromReason
  <2>4. CASE control[job[w]].reason = "none"
    BY <1>0, <1>6, <2>1, <2>2, <2>4 DEF JudgedResult, ResponseShape, Judge
  <2> QED BY <2>3, <2>4
<1>7. ASSUME NEW w \in Worker, TakeExpired(w) PROVE Stays(w)
  BY <1>7 DEF TakeExpired, workerVars
<1>8. ASSUME NEW w \in Worker,
             \/ Take(w) \/ Activate(w) \/ Publish(w) \/ Recheck(w) \/ BeginStatement(w)
             \/ FinishSearch(w) \/ RemoveJob(w) \/ RetireOrReuse(w) \/ Reopen(w) \/ Swap(w)
             \/ EndStatement(w)
      PROVE  worker'[w] \notin {"clear", "judge", "send"}
  BY <1>0, <1>8 DEF Take, Activate, Publish, Recheck, BeginStatement, FinishSearch, RemoveJob,
     RetireOrReuse, Reopen, Swap, EndStatement, WorkerGoes
<1>9. ASSUME NEW w \in Worker, WorkerStep(w) \/ EndStatement(w) \/ StorageError(w)
      PROVE  \A v \in Worker : Shape(v)'
  <2>1. Shape(w)'
    BY <1>2, <1>4, <1>5, <1>6, <1>7, <1>8, <1>9 DEF WorkerStep
  <2> QED BY <1>2, <1>3, <1>9, <2>1
<1>10. ASSUME UNCHANGED workerVars PROVE \A v \in Worker : Shape(v)'
  BY <1>2, <1>10 DEF workerVars
<1>11. \A v \in Worker : Shape(v)'
  BY <1>9, <1>10, WorkerVarsWriters
<1> QED BY <1>11 DEF JudgedShape

\* At the start nothing is answered, judged or cancelled.
LEMMA PromiseInvInit == Init => PromiseInv
<1> SUFFICES ASSUME Init PROVE PromiseInv
  OBVIOUS
<1>1. CompletionShape /\ JudgedShape /\ DeadlineShape
  BY DEF Init, ControlInit, NewControl, Off, CompletionShape, JudgedShape, DeadlineShape
<1> QED BY <1>1, PoolInvInit DEF PromiseInv

LEMMA PromiseInvStep ==
    ASSUME PromiseInv, [Next]_vars
    PROVE  PromiseInv'
BY PoolInvStep, CompletionShapeStep, JudgedShapeStep, DeadlineShapeStep DEF PromiseInv

----------------------------------------------------------------------------
(* Each step of the pool is a step of the promise, or none.                *)

\* A control whose phase, reason and answer stay is a stutter.
LEMMA PromiseStutters ==
    ASSUME KeepsPhase, KeepsReason, UNCHANGED <<now, mailbox>>
    PROVE  UNCHANGED Promise!promiseVars
BY DEF KeepsPhase, KeepsReason, Promise!promiseVars

\* A worker that wins a queued request runs it.
LEMMA ActivateRuns ==
    ASSUME PromiseInv, NEW w \in Worker, Activate(w), NEW c \in Request, c = job[w]
    PROVE  Promise!Run(c) \/ UNCHANGED Promise!promiseVars
<1>1. ActivateDoes(w)
  BY ActivateEffect DEF PromiseInv
<1>2. CASE control' = control
  BY <1>1, <1>2, PromiseStutters DEF ActivateDoes, KeepsPhase
<1>3. CASE control[c].phase = "queued" /\ control'[c].phase = "active"
  BY <1>1, <1>3 DEF ActivateDoes, Writes, KeepsReason, Promise!Run
<1> QED BY <1>1, <1>2, <1>3 DEF ActivateDoes

\* The end of a search that ran is its answer.
LEMMA FinishAnswers ==
    ASSUME PromiseInv, NEW w \in Worker, FinishSearch(w), NEW c \in Request, c = job[w]
    PROVE  Promise!AnswerRun(c)
<1>0. /\ PoolInv /\ ControlTypeOK /\ PhaseShape /\ CompletionShape /\ JudgedShape
  BY DEF PromiseInv, PoolInv, PoolTypeOK
<1>1. FinishDoes(w)
  BY <1>0, FinishEffect DEF FinishDoes
<1>2. control[c].phase = "active" /\ control[c].completion
  BY <1>0, <1>1 DEF FinishDoes, PhaseShape, CompletionShape
<1>3. mailbox' = [mailbox EXCEPT ![c] = response[w]] /\ now' = now
  BY <1>1, <1>2 DEF FinishSearch
<1>4. \/ response[w] \in {"ok", "storage"}
      \/ control[c].reason # "none" /\ response[w] = TerminalFromReason(c)
  BY <1>0, <1>1 DEF FinishDoes, JudgedShape
<1>5. control[c].reason # "none" => TerminalFromReason(c) = Promise!Outcome(c)
  BY <1>0, <1>1 DEF ControlTypeOK, SearchControl, Reasons, TerminalFromReason, Promise!Outcome
<1>6. /\ [d \in Request |-> control'[d].phase]
             = [[d \in Request |-> control[d].phase] EXCEPT ![c] = "terminal"]
      /\ [d \in Request |-> control'[d].reason] = [d \in Request |-> control[d].reason]
  BY <1>1 DEF FinishDoes, Writes, KeepsReason
<1>7. \/ \E result \in {"ok", "storage"} : mailbox' = [mailbox EXCEPT ![c] = result]
      \/ Promise!GivenUp(c) /\ mailbox' = [mailbox EXCEPT ![c] = Promise!Outcome(c)]
  BY <1>1, <1>3, <1>4, <1>5 DEF Promise!GivenUp
<1> QED BY <1>1, <1>2, <1>3, <1>6, <1>7 DEF Promise!AnswerRun

\* The first reason gives a request up, a deadline only when it has passed.
LEMMA ReasonGivesUp ==
    ASSUME PromiseInv, NEW x \in Process, CxReason(x), NEW c \in Request, c = cx[x].target
    PROVE  Promise!GiveUp(c) \/ UNCHANGED Promise!promiseVars
<1>0. PoolInv /\ ControlTypeOK /\ DeadlineShape /\ CancelShape
  BY DEF PromiseInv, PoolInv, PoolTypeOK
<1>1. ReasonDoes(x) /\ UNCHANGED <<now, mailbox>> /\ cx[x].step # "off"
  BY <1>0, ReasonEffect DEF ReasonDoes, CxReason
<1>2. CASE control[c].reason # "none"
  <2>1. control' = control
    BY <1>2 DEF CxReason
  <2> QED BY <1>1, <2>1, PromiseStutters DEF KeepsPhase, KeepsReason
<1>3. CASE control[c].reason = "none"
  <2>1. cx[x].reason \in {"caller", "deadline"}
    BY <1>0, <1>1 DEF ControlTypeOK, CancelRuns, Reasons, CancelShape
  <2>2. control'[c].reason = cx[x].reason
    BY <1>0, <1>1, <1>3 DEF CxReason, ControlTypeOK, SearchControl
  <2>3. /\ [d \in Request |-> control'[d].reason]
               = [[d \in Request |-> control[d].reason] EXCEPT ![c] = cx[x].reason]
        /\ [d \in Request |-> control'[d].phase] = [d \in Request |-> control[d].phase]
    BY <1>1, <2>2 DEF ReasonDoes, Writes, KeepsPhase
  <2>4. cx[x].reason = "deadline" => now >= Deadline[c]
    BY <1>0, <1>1 DEF DeadlineShape, Expired
  <2>5. Promise!GiveUp(c)
    BY <1>1, <1>3, <2>1, <2>3, <2>4 DEF Promise!GiveUp, Promise!GivenUp
  <2> QED BY <1>1, <2>5
<1> QED BY <1>2, <1>3

\* What is made terminal in the queue has a reason.
LEMMA QueuedWithdraws ==
    ASSUME PromiseInv, NEW x \in Process, CxQueued(x), NEW c \in Request, c = cx[x].target
    PROVE  Promise!Withdraw(c)
<1>0. PoolInv /\ CancelShape
  BY DEF PromiseInv, PoolInv
<1>1. QueuedDoes(x) /\ UNCHANGED <<now, mailbox>>
  BY <1>0, QueuedEffect DEF QueuedDoes
<1>2. control[c].phase = "queued" /\ control[c].reason # "none"
  BY <1>0, <1>1 DEF QueuedDoes, CancelShape
<1>3. /\ [d \in Request |-> control'[d].phase]
             = [[d \in Request |-> control[d].phase] EXCEPT ![c] = "terminal"]
      /\ [d \in Request |-> control'[d].reason] = [d \in Request |-> control[d].reason]
  BY <1>1 DEF QueuedDoes, Writes, KeepsReason
<1> QED BY <1>1, <1>2, <1>3 DEF Promise!Withdraw, Promise!GivenUp

\* Whoever made it terminal there answers it with that reason, once.
LEMMA SendAnswers ==
    ASSUME PromiseInv, NEW x \in Process, CxSend(x), NEW c \in Request, c = cx[x].target
    PROVE  Promise!AnswerWithdrawn(c) \/ UNCHANGED Promise!promiseVars
<1>0. PoolInv /\ ControlTypeOK /\ CancelShape /\ CompletionShape
  BY DEF PromiseInv, PoolInv, PoolTypeOK
<1>1. SendDoes(x) /\ KeepsPhase /\ KeepsReason /\ now' = now
  BY <1>0, SendEffect DEF SendDoes
<1>2. control[c].phase = "terminal" /\ control[c].reason # "none"
  BY <1>0, <1>1 DEF SendDoes, CancelShape
<1>3. CASE ~ control[c].completion
  <2>1. mailbox' = mailbox
    BY <1>3 DEF CxSend, SendCompletion
  <2> QED BY <1>1, <2>1, PromiseStutters
<1>4. CASE control[c].completion
  <2>1. mailbox' = [mailbox EXCEPT ![c] = TerminalFromReason(c)] /\ mailbox[c] = None
    BY <1>0, <1>1, <1>4 DEF CxSend, SendCompletion, CompletionShape
  <2>2. TerminalFromReason(c) = Promise!Outcome(c)
    BY <1>0, <1>1, <1>2 DEF ControlTypeOK, SearchControl, Reasons, TerminalFromReason,
       Promise!Outcome
  <2>3. /\ [d \in Request |-> control'[d].phase] = [d \in Request |-> control[d].phase]
        /\ [d \in Request |-> control'[d].reason] = [d \in Request |-> control[d].reason]
    BY <1>1 DEF KeepsPhase, KeepsReason
  <2> QED BY <1>1, <1>2, <2>1, <2>2, <2>3 DEF Promise!AnswerWithdrawn, Promise!GivenUp
<1> QED BY <1>3, <1>4

\* The pool implements SearchPromise, for any number of requests, workers and
\* cancelling clients: the thread that wins the exchange of the phase, and the first to
\* record a reason, decide what a search is answered, once.
THEOREM PoolKeepsPromise == Spec => KeepsPromise
<1>1. Init => Promise!PromiseInit
  BY DEF Init, ControlInit, NewControl, Promise!PromiseInit
<1>2. ASSUME PromiseInv, [Next]_vars
      PROVE  [Promise!PromiseNext]_(Promise!promiseVars)
  <2>0. PoolInv
    BY <1>2 DEF PromiseInv
  <2>1. ASSUME now' = now + 1, UNCHANGED <<control, mailbox>>
        PROVE  Promise!TimeGoes
    BY <2>1 DEF Promise!TimeGoes
  <2>2. ASSUME NEW w \in Worker, Activate(w)
        PROVE  (\E c \in Request : Promise!Run(c)) \/ UNCHANGED Promise!promiseVars
    BY <1>2, <2>0, <2>2, ActivateRuns, Threads DEF Activate
  <2>3. ASSUME NEW w \in Worker, Publish(w) \/ ClearHandle(w)
        PROVE  UNCHANGED Promise!promiseVars
    BY <2>0, <2>3, HandleEffect, PromiseStutters DEF HandleDoes, Publish, ClearHandle
  <2>4. ASSUME NEW w \in Worker, FinishSearch(w)
        PROVE  \E c \in Request : Promise!AnswerRun(c)
    BY <1>2, <2>0, <2>4, FinishAnswers, Threads DEF FinishSearch
  <2>5. ASSUME NEW x \in Process, CxReason(x)
        PROVE  (\E c \in Request : Promise!GiveUp(c)) \/ UNCHANGED Promise!promiseVars
    BY <1>2, <2>0, <2>5, ReasonGivesUp, Threads DEF CxReason
  <2>6. ASSUME NEW x \in Process, CxFlag(x)
        PROVE  UNCHANGED Promise!promiseVars
    BY <2>0, <2>6, FlagEffect, PromiseStutters DEF FlagDoes
  <2>7. ASSUME NEW x \in Process, CxQueued(x)
        PROVE  \E c \in Request : Promise!Withdraw(c)
    BY <1>2, <2>0, <2>7, QueuedWithdraws, Threads DEF CxQueued
  <2>8. ASSUME NEW x \in Process, CxSend(x)
        PROVE  (\E c \in Request : Promise!AnswerWithdrawn(c)) \/ UNCHANGED Promise!promiseVars
    BY <1>2, <2>0, <2>8, SendAnswers, Threads DEF CxSend
  <2>9. ASSUME UNCHANGED <<now, control, mailbox>> PROVE UNCHANGED Promise!promiseVars
    BY <2>9, PromiseStutters DEF KeepsPhase, KeepsReason
  <2>10. \/ UNCHANGED <<control, mailbox>>
         \/ \E w \in Worker : Activate(w) \/ Publish(w) \/ ClearHandle(w) \/ FinishSearch(w)
         \/ \E x \in Process : CxReason(x) \/ CxFlag(x) \/ CxQueued(x) \/ CxSend(x)
    BY <1>2, Writers
  <2> QED BY <1>2, <2>1, <2>2, <2>3, <2>4, <2>5, <2>6, <2>7, <2>8, <2>9, <2>10, ClockWriters
          DEF Promise!PromiseNext
<1>3. PromiseInv /\ [Next]_vars => PromiseInv'
  BY PromiseInvStep
<1> QED BY <1>1, <1>2, <1>3, PromiseInvInit, PTL DEF Spec, KeepsPromise, Promise!PromiseSpec
=============================================================================
