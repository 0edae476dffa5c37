------------------------ MODULE IndexRuntimeProofs --------------------------
(***************************************************************************)
(* Proofs about IndexRuntime: its safety properties follow from one        *)
(* inductive invariant about who may hold a source and what disposal ends. *)
(***************************************************************************)
EXTENDS IndexRuntime, TLAPS

\* A source is held by the runtime, by the closing promise or by the attachment,
\* never by two of them: an attachment goes on from "retire" when every source
\* is closed, and while it is under way the runtime has none of its own.
OneHolder ==
    /\ retiring <= 1
    /\ source # "none" => retiring = 0 /\ attach.step = "none"
    /\ attach.step \notin {"none", "retire"} => retiring = 0
    /\ attach.source => attach.step \in {"start", "cleanup"}

\* dispose takes away all that could start something again, and the phase tells.
DisposalIsFinal ==
    /\ disposed <=> phase \in {"disposing", "disposed"}
    /\ disposed => binding = None /\ ~ timer /\ source = "none"
    /\ phase = "disposed" => retiring = 0 /\ attach.step = "none"

RuntimeInv ==
    /\ RuntimeTypeOK
    /\ OneHolder
    /\ ReadyIsCurrent
    /\ DisposalIsFinal
    /\ MountedIsBound
    /\ NeverStranded

----------------------------------------------------------------------------
(* One step of the runtime, one part of the invariant at a time.                *)

\* No step leaves the types; ready and the phase "live" come and go together.
LEMMA TypeStep ==
    ASSUME RuntimeInv, Next
    PROVE  RuntimeTypeOK'
<1> USE RuntimeAssumption DEF Token, None, sourceVars, flags, opVars
<1> DEFINE Flags == /\ timer \in BOOLEAN /\ validated \in BOOLEAN /\ failing \in BOOLEAN
                    /\ disposed \in BOOLEAN /\ ready \in BOOLEAN
           Domains ==
             /\ mounted \subseteq 1..issued /\ issued \in 0..MaxBindings /\ binding \in 0..issued
             /\ source \in {"none", "live", "dead"} /\ sourceOf \in 0..issued /\ retiring \in Nat
             /\ probes \in Nat
             /\ attach \in [step : {"none", "retire", "connect", "close_client", "start", "cleanup"},
                            of : 0..issued, source : BOOLEAN]
             /\ phase \in {"waiting", "starting", "recovering", "live", "disposing", "disposed"}
             /\ op \in [Op -> {"off", "connecting", "request", "closing"}] /\ awaited \subseteq Op
             /\ restarts \in 0..MaxRestarts /\ faults \in 0..MaxFaults
<1>1. ASSUME Mount PROVE RuntimeTypeOK'
  <2>1. Flags'
    BY <1>1, Zenon DEF RuntimeInv, RuntimeTypeOK, Mount, Bind
  <2>2. Domains'
    BY <1>1, SMT DEF RuntimeInv, RuntimeTypeOK, Mount, Bind
  <2>3. ready' <=> phase' = "live"
    BY <1>1, <2>1 DEF RuntimeInv, RuntimeTypeOK, OneHolder, ReadyIsCurrent,
       DisposalIsFinal, Mount, Bind
  <2> QED BY <2>1, <2>2, <2>3 DEF RuntimeTypeOK
<1>2. ASSUME NEW t \in Token, Unmount(t) PROVE RuntimeTypeOK'
  <2>1. Flags'
    BY <1>2, Zenon DEF RuntimeInv, RuntimeTypeOK, Unmount, Unbind, Detach,
       RetireSource, Token
  <2>2. Domains'
    BY <1>2, SMT DEF RuntimeInv, RuntimeTypeOK, Unmount, Unbind, Detach, RetireSource,
       Token
  <2>3. ready' <=> phase' = "live"
    BY <1>2, <2>1 DEF RuntimeInv, RuntimeTypeOK, OneHolder, ReadyIsCurrent,
       DisposalIsFinal, Unmount, Unbind, Detach, RetireSource, Token
  <2> QED BY <2>1, <2>2, <2>3 DEF RuntimeTypeOK
<1>3. ASSUME Restart PROVE RuntimeTypeOK'
  <2>1. Flags'
    BY <1>3, Zenon DEF RuntimeInv, RuntimeTypeOK, Restart, BeginReattach, RetireSource
  <2>2. Domains'
    BY <1>3, SMT DEF RuntimeInv, RuntimeTypeOK, Restart, BeginReattach, RetireSource
  <2>3. ready' <=> phase' = "live"
    BY <1>3, <2>1 DEF RuntimeInv, RuntimeTypeOK, OneHolder, ReadyIsCurrent,
       DisposalIsFinal, Restart, BeginReattach, RetireSource
  <2> QED BY <2>1, <2>2, <2>3 DEF RuntimeTypeOK
<1>4. ASSUME Dispose PROVE RuntimeTypeOK'
  <2>1. Flags'
    BY <1>4, Zenon DEF RuntimeInv, RuntimeTypeOK, Dispose, RetireSource, ActiveClients
  <2>2. Domains'
    BY <1>4, SMT DEF RuntimeInv, RuntimeTypeOK, Dispose, RetireSource, ActiveClients
  <2>3. ready' <=> phase' = "live"
    BY <1>4, <2>1 DEF RuntimeInv, RuntimeTypeOK, OneHolder, ReadyIsCurrent,
       DisposalIsFinal, Dispose, RetireSource, ActiveClients
  <2> QED BY <2>1, <2>2, <2>3 DEF RuntimeTypeOK
<1>5. ASSUME DisposeEnds PROVE RuntimeTypeOK'
  BY <1>5 DEF RuntimeInv, RuntimeTypeOK, OneHolder, ReadyIsCurrent, DisposeEnds,
     EverythingClosed
<1>6. ASSUME AttachConnects PROVE RuntimeTypeOK'
  BY <1>6 DEF RuntimeInv, RuntimeTypeOK, OneHolder, ReadyIsCurrent, AttachConnects,
     AttachMoves, PreviousClosed
<1>7. ASSUME AttachValidates PROVE RuntimeTypeOK'
  BY <1>7 DEF RuntimeInv, RuntimeTypeOK, OneHolder, ReadyIsCurrent, AttachValidates,
     AttachMoves
<1>8. ASSUME AttachStarts PROVE RuntimeTypeOK'
  <2>1. Flags'
    BY <1>8, Zenon DEF RuntimeInv, RuntimeTypeOK, AttachStarts, AssertBinding
  <2>2. Domains'
    <3>1. attach' \in [step : {"start", "cleanup"}, of : 0..issued, source : BOOLEAN]
      BY <1>8 DEF RuntimeInv, RuntimeTypeOK, AttachStarts
    <3> QED BY <1>8, <3>1, SMT DEF RuntimeInv, RuntimeTypeOK, AttachStarts
  <2>3. ready' <=> phase' = "live"
    BY <1>8, <2>1 DEF RuntimeInv, RuntimeTypeOK, OneHolder, ReadyIsCurrent,
       DisposalIsFinal, AttachStarts, AssertBinding
  <2> QED BY <2>1, <2>2, <2>3 DEF RuntimeTypeOK
<1>9. ASSUME AttachReplaced PROVE RuntimeTypeOK'
  BY <1>9 DEF RuntimeInv, RuntimeTypeOK, OneHolder, ReadyIsCurrent, AttachReplaced,
     AttachMoves
<1>10. ASSUME AttachSucceeds PROVE RuntimeTypeOK'
  <2>1. Flags'
    BY <1>10, Zenon DEF RuntimeInv, RuntimeTypeOK, AttachSucceeds, AssertBinding,
       NoAttach, Schedule
  <2>2. Domains'
    BY <1>10, SMT DEF RuntimeInv, RuntimeTypeOK, AttachSucceeds, AssertBinding,
       NoAttach, Schedule
  <2>3. ready' <=> phase' = "live"
    BY <1>10, <2>1 DEF RuntimeInv, RuntimeTypeOK, OneHolder, ReadyIsCurrent,
       DisposalIsFinal, AttachSucceeds, AssertBinding, NoAttach, Schedule
  <2> QED BY <2>1, <2>2, <2>3 DEF RuntimeTypeOK
<1>11. ASSUME AttachCleanedUp PROVE RuntimeTypeOK'
  <2>1. Flags'
    BY <1>11, Zenon DEF RuntimeInv, RuntimeTypeOK, AttachCleanedUp, AssertBinding,
       NoAttach, RearmForSuccessor, Schedule
  <2>2. Domains'
    BY <1>11, SMT DEF RuntimeInv, RuntimeTypeOK, AttachCleanedUp, AssertBinding,
       NoAttach, RearmForSuccessor, Schedule
  <2>3. ready' <=> phase' = "live"
    BY <1>11, <2>1 DEF RuntimeInv, RuntimeTypeOK, OneHolder, ReadyIsCurrent,
       DisposalIsFinal, AttachCleanedUp, AssertBinding, NoAttach, RearmForSuccessor,
       Schedule
  <2> QED BY <2>1, <2>2, <2>3 DEF RuntimeTypeOK
<1>12. ASSUME AttachFails PROVE RuntimeTypeOK'
  BY <1>12 DEF RuntimeInv, RuntimeTypeOK, OneHolder, ReadyIsCurrent, AttachFails,
     AttachMoves, Fault
<1>13. ASSUME TickRestarts PROVE RuntimeTypeOK'
  <2>1. Flags'
    BY <1>13, Zenon DEF RuntimeInv, RuntimeTypeOK, TickRestarts, BeginReattach,
       RetireSource
  <2>2. Domains'
    <3>1. CASE attach.step = "none"
      <4>1. BeginReattach /\ UNCHANGED <<mounted, issued, binding, probes, opVars, restarts, faults>>
        BY <1>13, <3>1 DEF TickRestarts
      <4> QED BY <4>1, SMT DEF RuntimeInv, RuntimeTypeOK, BeginReattach, RetireSource
    <3>2. CASE attach.step # "none"
      BY <1>13, <3>2, SMT DEF RuntimeInv, RuntimeTypeOK, TickRestarts
    <3> QED BY <3>1, <3>2
  <2>3. ready' <=> phase' = "live"
    BY <1>13, <2>1 DEF RuntimeInv, RuntimeTypeOK, OneHolder, ReadyIsCurrent,
       DisposalIsFinal, TickRestarts, BeginReattach, RetireSource
  <2> QED BY <2>1, <2>2, <2>3 DEF RuntimeTypeOK
<1>14. ASSUME TickProbes PROVE RuntimeTypeOK'
  <2>1. Flags'
    BY <1>14, Zenon DEF RuntimeInv, RuntimeTypeOK, TickProbes
  <2>2. Domains'
    BY <1>14, SMT DEF RuntimeInv, RuntimeTypeOK, TickProbes
  <2>3. ready' <=> phase' = "live"
    BY <1>14, <2>1 DEF RuntimeInv, RuntimeTypeOK, OneHolder, ReadyIsCurrent,
       DisposalIsFinal, TickProbes
  <2> QED BY <2>1, <2>2, <2>3 DEF RuntimeTypeOK
<1>15. ASSUME TickFindsDeadSource PROVE RuntimeTypeOK'
  <2>1. Flags'
    BY <1>15, Zenon DEF RuntimeInv, RuntimeTypeOK, TickFindsDeadSource, MarkOutage
  <2>2. Domains'
    <3>1. phase' \in {phase, "recovering"}
      BY <1>15 DEF TickFindsDeadSource, MarkOutage
    <3> QED BY <1>15, <3>1, SMT DEF RuntimeInv, RuntimeTypeOK, TickFindsDeadSource
  <2>3. ready' <=> phase' = "live"
    BY <1>15, <2>1 DEF RuntimeInv, RuntimeTypeOK, OneHolder, ReadyIsCurrent,
       DisposalIsFinal, TickFindsDeadSource, MarkOutage
  <2> QED BY <2>1, <2>2, <2>3 DEF RuntimeTypeOK
<1>16. ASSUME ProbeSucceeds PROVE RuntimeTypeOK'
  BY <1>16 DEF RuntimeInv, RuntimeTypeOK, OneHolder, ReadyIsCurrent, ProbeSucceeds,
     Schedule
<1>17. ASSUME ProbeFails PROVE RuntimeTypeOK'
  <2>1. Flags'
    BY <1>17, Zenon DEF RuntimeInv, RuntimeTypeOK, ProbeFails, MarkOutage, Fault
  <2>2. Domains'
    BY <1>17, SMT DEF RuntimeInv, RuntimeTypeOK, ProbeFails, MarkOutage, Fault
  <2>3. ready' <=> phase' = "live"
    BY <1>17, <2>1 DEF RuntimeInv, RuntimeTypeOK, OneHolder, ReadyIsCurrent,
       DisposalIsFinal, ProbeFails, MarkOutage, Fault
  <2> QED BY <2>1, <2>2, <2>3 DEF RuntimeTypeOK
<1>18. ASSUME SourceCloses PROVE RuntimeTypeOK'
  BY <1>18 DEF RuntimeInv, RuntimeTypeOK, OneHolder, ReadyIsCurrent, SourceCloses
<1>19. ASSUME SourceDies PROVE RuntimeTypeOK'
  BY <1>19 DEF RuntimeInv, RuntimeTypeOK, OneHolder, ReadyIsCurrent, SourceDies, Fault
<1>20. ASSUME NEW o \in Op, Operation(o) PROVE RuntimeTypeOK'
  <2>1. Flags'
    BY <1>20, Zenon DEF RuntimeInv, RuntimeTypeOK, Operation, OpBegins, OpMoves,
       OpConnectFails, OpConnected, OpAnswered, OpFails, OpClosed, MarkOutage, Fault
  <2>2. Domains'
    <3>1. phase' \in {phase, "recovering"}
      BY <1>20 DEF Operation, OpBegins, OpConnectFails, OpConnected, OpAnswered, OpFails, OpClosed,
         MarkOutage
    <3>2. op' \in [Op -> {"off", "connecting", "request", "closing"}] /\ awaited' \subseteq Op
      BY <1>20 DEF RuntimeInv, RuntimeTypeOK, Operation, OpMoves, OpBegins, OpConnectFails,
         OpConnected, OpAnswered, OpFails, OpClosed
    <3>3. faults' \in 0..MaxFaults
      BY <1>20 DEF RuntimeInv, RuntimeTypeOK, Operation, OpBegins, OpConnectFails, OpConnected,
         OpAnswered, OpFails, OpClosed, Fault
    <3>4. UNCHANGED <<mounted, issued, binding, sourceVars, probes, attach, restarts>>
      BY <1>20 DEF Operation, OpBegins, OpConnectFails, OpConnected, OpAnswered, OpFails, OpClosed
    <3> QED BY <3>1, <3>2, <3>3, <3>4, SMT DEF RuntimeInv, RuntimeTypeOK
  <2>3. ready' <=> phase' = "live"
    BY <1>20, <2>1 DEF RuntimeInv, RuntimeTypeOK, OneHolder, ReadyIsCurrent,
       DisposalIsFinal, Operation, OpBegins, OpMoves, OpConnectFails, OpConnected,
       OpAnswered, OpFails, OpClosed, MarkOutage, Fault
  <2> QED BY <2>1, <2>2, <2>3 DEF RuntimeTypeOK
<1> QED
  BY <1>1, <1>2, <1>3, <1>4, <1>5, <1>6, <1>7, <1>8, <1>9, <1>10, <1>11, <1>12, <1>13,
     <1>14, <1>15, <1>16, <1>17, <1>18, <1>19, <1>20 DEF Next, Attach, Tick

\* At most one of the runtime, the closing promise and the attachment holds a source.
LEMMA HolderStep ==
    ASSUME RuntimeInv, Next
    PROVE  OneHolder'
<1> USE DEF sourceVars, flags, opVars
<1>1. ASSUME NEW t \in Token, Unmount(t) PROVE OneHolder'
  BY <1>1 DEF RuntimeInv, RuntimeTypeOK, OneHolder, Unmount, Unbind, Detach,
     RetireSource, Token
<1>2. ASSUME Restart PROVE OneHolder'
  BY <1>2 DEF RuntimeInv, RuntimeTypeOK, OneHolder, Restart, BeginReattach,
     RetireSource
<1>3. ASSUME Dispose PROVE OneHolder'
  BY <1>3 DEF RuntimeInv, RuntimeTypeOK, OneHolder, Dispose, RetireSource,
     ActiveClients
<1>4. ASSUME AttachConnects PROVE OneHolder'
  BY <1>4 DEF RuntimeInv, RuntimeTypeOK, OneHolder, AttachConnects, AttachMoves,
     PreviousClosed
<1>5. ASSUME AttachValidates PROVE OneHolder'
  BY <1>5 DEF RuntimeInv, RuntimeTypeOK, OneHolder, AttachValidates, AttachMoves
<1>6. ASSUME AttachStarts PROVE OneHolder'
  BY <1>6 DEF RuntimeInv, RuntimeTypeOK, OneHolder, AttachStarts, AssertBinding
<1>7. ASSUME AttachReplaced PROVE OneHolder'
  BY <1>7 DEF RuntimeInv, RuntimeTypeOK, OneHolder, AttachReplaced, AttachMoves
<1>8. ASSUME AttachSucceeds PROVE OneHolder'
  BY <1>8 DEF RuntimeInv, RuntimeTypeOK, OneHolder, AttachSucceeds, AssertBinding,
     NoAttach, Schedule
<1>9. ASSUME AttachCleanedUp PROVE OneHolder'
  BY <1>9 DEF RuntimeInv, RuntimeTypeOK, OneHolder, AttachCleanedUp, AssertBinding,
     NoAttach, RearmForSuccessor, Schedule
<1>10. ASSUME AttachFails PROVE OneHolder'
  BY <1>10 DEF RuntimeInv, RuntimeTypeOK, OneHolder, AttachFails, AttachMoves, Fault
<1>11. ASSUME TickRestarts PROVE OneHolder'
  BY <1>11 DEF RuntimeInv, RuntimeTypeOK, OneHolder, TickRestarts, BeginReattach,
     RetireSource
<1>12. ASSUME SourceCloses PROVE OneHolder'
  BY <1>12 DEF RuntimeInv, RuntimeTypeOK, OneHolder, SourceCloses
<1>13. ASSUME SourceDies PROVE OneHolder'
  BY <1>13 DEF RuntimeInv, RuntimeTypeOK, OneHolder, SourceDies, Fault
<1>14. ASSUME Mount \/ DisposeEnds \/ TickProbes \/ TickFindsDeadSource \/
   ProbeSucceeds \/ ProbeFails \/ (\E o \in Op : Operation(o))
      PROVE  OneHolder'
  BY <1>14 DEF RuntimeInv, RuntimeTypeOK, OneHolder, Mount, Bind, DisposeEnds,
     EverythingClosed, TickProbes, TickFindsDeadSource, MarkOutage, ProbeSucceeds,
     Schedule, ProbeFails, Operation, OpBegins, OpConnectFails, OpConnected,
     OpAnswered, OpFails, OpClosed
<1> QED BY <1>1, <1>2, <1>3, <1>4, <1>5, <1>6, <1>7, <1>8, <1>9, <1>10, <1>11, <1>12,
   <1>13, <1>14 DEF Next, Attach, Tick

\* A ready runtime holds a source of its binding.
LEMMA ReadyStep ==
    ASSUME RuntimeInv, Next
    PROVE  ReadyIsCurrent'
<1> USE DEF sourceVars, flags, opVars
<1>1. ASSUME Mount PROVE ReadyIsCurrent'
  BY <1>1 DEF RuntimeInv, RuntimeTypeOK, OneHolder, ReadyIsCurrent, Mount, Bind
<1>2. ASSUME NEW t \in Token, Unmount(t) PROVE ReadyIsCurrent'
  BY <1>2 DEF RuntimeInv, RuntimeTypeOK, OneHolder, ReadyIsCurrent, Unmount, Unbind,
     Detach, RetireSource, Token
<1>3. ASSUME Restart PROVE ReadyIsCurrent'
  BY <1>3 DEF RuntimeInv, RuntimeTypeOK, OneHolder, ReadyIsCurrent, Restart,
     BeginReattach, RetireSource
<1>4. ASSUME AttachSucceeds PROVE ReadyIsCurrent'
  BY <1>4 DEF RuntimeInv, RuntimeTypeOK, OneHolder, ReadyIsCurrent, AttachSucceeds,
     AssertBinding, NoAttach, Schedule
<1>5. ASSUME TickRestarts PROVE ReadyIsCurrent'
  BY <1>5 DEF RuntimeInv, RuntimeTypeOK, OneHolder, ReadyIsCurrent, TickRestarts,
     BeginReattach, RetireSource
<1>6. ASSUME TickFindsDeadSource PROVE ReadyIsCurrent'
  BY <1>6 DEF RuntimeInv, RuntimeTypeOK, OneHolder, ReadyIsCurrent,
     TickFindsDeadSource, MarkOutage
<1>7. ASSUME ProbeFails PROVE ReadyIsCurrent'
  BY <1>7 DEF RuntimeInv, RuntimeTypeOK, OneHolder, ReadyIsCurrent, ProbeFails,
     MarkOutage, Fault
<1>8. ASSUME NEW o \in Op, Operation(o) PROVE ReadyIsCurrent'
  BY <1>8 DEF RuntimeInv, RuntimeTypeOK, OneHolder, ReadyIsCurrent, Operation,
     OpBegins, OpMoves, OpConnectFails, OpConnected, OpAnswered, OpFails, OpClosed,
     MarkOutage, Fault
<1>9. ASSUME Dispose \/ DisposeEnds \/ AttachConnects \/ AttachValidates \/
   AttachStarts \/ AttachReplaced \/ AttachCleanedUp \/ AttachFails \/ TickProbes \/
   ProbeSucceeds \/ SourceCloses \/ SourceDies
      PROVE  ReadyIsCurrent'
  BY <1>9 DEF RuntimeInv, RuntimeTypeOK, OneHolder, ReadyIsCurrent, Dispose,
     RetireSource, ActiveClients, DisposeEnds, EverythingClosed, AttachConnects,
     AttachMoves, PreviousClosed, AttachValidates, AttachStarts, AssertBinding,
     AttachReplaced, AttachCleanedUp, NoAttach, RearmForSuccessor, Schedule,
     AttachFails, TickProbes, ProbeSucceeds, SourceCloses, SourceDies
<1> QED BY <1>1, <1>2, <1>3, <1>4, <1>5, <1>6, <1>7, <1>8, <1>9 DEF Next, Attach, Tick

\* Nothing that disposal ended starts again.
LEMMA DisposalStep ==
    ASSUME RuntimeInv, Next
    PROVE  DisposalIsFinal'
<1> USE DEF sourceVars, flags, opVars
<1>1. ASSUME Mount PROVE DisposalIsFinal'
  BY <1>1 DEF RuntimeInv, RuntimeTypeOK, OneHolder, DisposalIsFinal, Mount, Bind
<1>2. ASSUME NEW t \in Token, Unmount(t) PROVE DisposalIsFinal'
  <2>1. CASE binding = t
    BY <1>2, <2>1 DEF RuntimeInv, RuntimeTypeOK, DisposalIsFinal, Unmount, Unbind, Detach, Token,
       RetireSource, None
  <2>2. CASE binding # t
    BY <1>2, <2>2 DEF RuntimeInv, DisposalIsFinal, Unmount, Unbind
  <2> QED BY <2>1, <2>2
<1>3. ASSUME Restart PROVE DisposalIsFinal'
  BY <1>3 DEF RuntimeInv, RuntimeTypeOK, OneHolder, DisposalIsFinal, Restart,
     BeginReattach, RetireSource
<1>4. ASSUME Dispose PROVE DisposalIsFinal'
  BY <1>4 DEF RuntimeInv, RuntimeTypeOK, OneHolder, DisposalIsFinal, Dispose,
     RetireSource, ActiveClients
<1>5. ASSUME DisposeEnds PROVE DisposalIsFinal'
  BY <1>5 DEF RuntimeInv, RuntimeTypeOK, OneHolder, DisposalIsFinal, DisposeEnds,
     EverythingClosed
<1>6. ASSUME AttachSucceeds PROVE DisposalIsFinal'
  BY <1>6 DEF RuntimeInv, RuntimeTypeOK, OneHolder, DisposalIsFinal, AttachSucceeds,
     AssertBinding, NoAttach, Schedule
<1>7. ASSUME AttachCleanedUp PROVE DisposalIsFinal'
  BY <1>7 DEF RuntimeInv, RuntimeTypeOK, OneHolder, DisposalIsFinal, AttachCleanedUp,
     AssertBinding, NoAttach, RearmForSuccessor, Schedule
<1>8. ASSUME TickRestarts PROVE DisposalIsFinal'
  BY <1>8 DEF RuntimeInv, RuntimeTypeOK, OneHolder, DisposalIsFinal, TickRestarts,
     BeginReattach, RetireSource
<1>9. ASSUME TickFindsDeadSource PROVE DisposalIsFinal'
  BY <1>9 DEF RuntimeInv, RuntimeTypeOK, OneHolder, DisposalIsFinal,
     TickFindsDeadSource, MarkOutage
<1>10. ASSUME ProbeSucceeds PROVE DisposalIsFinal'
  BY <1>10 DEF RuntimeInv, RuntimeTypeOK, OneHolder, DisposalIsFinal, ProbeSucceeds,
     Schedule
<1>11. ASSUME ProbeFails PROVE DisposalIsFinal'
  BY <1>11 DEF RuntimeInv, RuntimeTypeOK, OneHolder, DisposalIsFinal, ProbeFails,
     MarkOutage, Fault
<1>12. ASSUME NEW o \in Op, Operation(o) PROVE DisposalIsFinal'
  BY <1>12 DEF RuntimeInv, RuntimeTypeOK, OneHolder, DisposalIsFinal, Operation,
     OpBegins, OpMoves, OpConnectFails, OpConnected, OpAnswered, OpFails, OpClosed,
     MarkOutage, Fault
<1>13. ASSUME AttachConnects \/ AttachValidates \/ AttachStarts \/ AttachReplaced \/
   AttachFails \/ TickProbes \/ SourceCloses \/ SourceDies
      PROVE  DisposalIsFinal'
  BY <1>13 DEF RuntimeInv, RuntimeTypeOK, OneHolder, DisposalIsFinal, AttachConnects,
     AttachMoves, PreviousClosed, AttachValidates, AttachStarts, AssertBinding,
     AttachReplaced, AttachFails, TickProbes, SourceCloses, SourceDies
<1> QED BY <1>1, <1>2, <1>3, <1>4, <1>5, <1>6, <1>7, <1>8, <1>9, <1>10, <1>11, <1>12,
   <1>13 DEF Next, Attach, Tick

\* The service mounted last stays bound while it is mounted.
LEMMA MountedStep ==
    ASSUME RuntimeInv, Next
    PROVE  MountedIsBound'
<1> USE DEF sourceVars, flags, opVars
<1>1. ASSUME Mount PROVE MountedIsBound'
  BY <1>1 DEF RuntimeInv, RuntimeTypeOK, DisposalIsFinal, MountedIsBound, Mount, Bind
<1>2. ASSUME NEW t \in Token, Unmount(t) PROVE MountedIsBound'
  BY <1>2 DEF RuntimeInv, RuntimeTypeOK, DisposalIsFinal, MountedIsBound, Unmount,
     Unbind, Detach, RetireSource, Token
<1>3. ASSUME Dispose PROVE MountedIsBound'
  BY <1>3 DEF RuntimeInv, RuntimeTypeOK, DisposalIsFinal, MountedIsBound, Dispose,
     RetireSource, ActiveClients
<1>4. ASSUME Restart \/ DisposeEnds \/ AttachConnects \/ AttachValidates \/
   AttachStarts \/ AttachReplaced \/ AttachSucceeds \/ AttachCleanedUp \/ AttachFails
   \/ TickRestarts \/ TickProbes \/ TickFindsDeadSource \/ ProbeSucceeds \/ ProbeFails
   \/ SourceCloses \/ SourceDies \/ (\E o \in Op : Operation(o))
      PROVE  MountedIsBound'
  BY <1>4 DEF RuntimeInv, RuntimeTypeOK, MountedIsBound, Restart, BeginReattach,
     RetireSource, DisposeEnds, EverythingClosed, AttachConnects, AttachMoves,
     PreviousClosed, AttachValidates, AttachStarts, AssertBinding, AttachReplaced,
     AttachSucceeds, NoAttach, Schedule, AttachCleanedUp, RearmForSuccessor,
     AttachFails, TickRestarts, TickProbes, TickFindsDeadSource, MarkOutage,
     ProbeSucceeds, ProbeFails, SourceCloses, SourceDies, Operation, OpBegins,
     OpConnectFails, OpConnected, OpAnswered, OpFails, OpClosed
<1> QED BY <1>1, <1>2, <1>3, <1>4 DEF Next, Attach, Tick

\* A bound runtime always has something under way.
LEMMA StrandedStep ==
    ASSUME RuntimeInv, Next
    PROVE  NeverStranded'
<1> USE DEF sourceVars, flags, opVars
<1>1. ASSUME Mount PROVE NeverStranded'
  BY <1>1 DEF RuntimeInv, RuntimeTypeOK, DisposalIsFinal, NeverStranded, Mount, Bind
<1>2. ASSUME NEW t \in Token, Unmount(t) PROVE NeverStranded'
  BY <1>2 DEF RuntimeInv, RuntimeTypeOK, DisposalIsFinal, NeverStranded, Unmount,
     Unbind, Detach, RetireSource, Token
<1>3. ASSUME Restart PROVE NeverStranded'
  BY <1>3 DEF RuntimeInv, RuntimeTypeOK, DisposalIsFinal, NeverStranded, Restart,
     BeginReattach, RetireSource
<1>4. ASSUME Dispose PROVE NeverStranded'
  BY <1>4 DEF RuntimeInv, RuntimeTypeOK, DisposalIsFinal, NeverStranded, Dispose,
     RetireSource, ActiveClients
<1>5. ASSUME AttachSucceeds PROVE NeverStranded'
  BY <1>5 DEF RuntimeInv, RuntimeTypeOK, DisposalIsFinal, NeverStranded,
     AttachSucceeds, AssertBinding, NoAttach, Schedule
<1>6. ASSUME AttachCleanedUp PROVE NeverStranded'
  BY <1>6 DEF RuntimeInv, RuntimeTypeOK, DisposalIsFinal, NeverStranded,
     AttachCleanedUp, AssertBinding, NoAttach, RearmForSuccessor, Schedule
<1>7. ASSUME TickRestarts PROVE NeverStranded'
  BY <1>7 DEF RuntimeInv, RuntimeTypeOK, DisposalIsFinal, NeverStranded, TickRestarts,
     BeginReattach, RetireSource
<1>8. ASSUME TickProbes PROVE NeverStranded'
  BY <1>8 DEF RuntimeInv, RuntimeTypeOK, DisposalIsFinal, NeverStranded, TickProbes
<1>9. ASSUME TickFindsDeadSource PROVE NeverStranded'
  BY <1>9 DEF RuntimeInv, RuntimeTypeOK, DisposalIsFinal, NeverStranded,
     TickFindsDeadSource, MarkOutage
<1>10. ASSUME ProbeSucceeds PROVE NeverStranded'
  BY <1>10 DEF RuntimeInv, RuntimeTypeOK, DisposalIsFinal, NeverStranded,
     ProbeSucceeds, Schedule
<1>11. ASSUME ProbeFails PROVE NeverStranded'
  BY <1>11 DEF RuntimeInv, RuntimeTypeOK, DisposalIsFinal, NeverStranded, ProbeFails,
     MarkOutage, Fault
<1>12. ASSUME NEW o \in Op, Operation(o) PROVE NeverStranded'
  BY <1>12 DEF RuntimeInv, RuntimeTypeOK, DisposalIsFinal, NeverStranded, Operation,
     OpBegins, OpMoves, OpConnectFails, OpConnected, OpAnswered, OpFails, OpClosed,
     MarkOutage, Fault
<1>13. ASSUME DisposeEnds \/ AttachConnects \/ AttachValidates \/ AttachStarts \/
   AttachReplaced \/ AttachFails \/ SourceCloses \/ SourceDies
      PROVE  NeverStranded'
  BY <1>13 DEF RuntimeInv, RuntimeTypeOK, NeverStranded, DisposeEnds,
     EverythingClosed, AttachConnects, AttachMoves, PreviousClosed, AttachValidates,
     AttachStarts, AssertBinding, AttachReplaced, AttachFails, SourceCloses,
     SourceDies
<1> QED BY <1>1, <1>2, <1>3, <1>4, <1>5, <1>6, <1>7, <1>8, <1>9, <1>10, <1>11, <1>12,
   <1>13 DEF Next, Attach, Tick

----------------------------------------------------------------------------
(* The theorems.                                                           *)

\* The invariant holds of a new runtime ...
LEMMA RuntimeInvInit == Init => RuntimeInv
<1> SUFFICES ASSUME Init PROVE RuntimeInv
  OBVIOUS
<1>1. /\ timer \in BOOLEAN /\ validated \in BOOLEAN /\ failing \in BOOLEAN
      /\ disposed \in BOOLEAN /\ ready \in BOOLEAN
  BY Zenon DEF Init
<1>2. RuntimeTypeOK
  BY <1>1, RuntimeAssumption DEF Init, RuntimeTypeOK, NoAttach, None
<1>3. OneHolder /\ ReadyIsCurrent /\ DisposalIsFinal /\ MountedIsBound /\ NeverStranded
  BY DEF Init, OneHolder, ReadyIsCurrent, DisposalIsFinal, MountedIsBound, NeverStranded,
         NoAttach, None
<1> QED BY <1>2, <1>3 DEF RuntimeInv

\* ... and no step, taken or stuttering, ends it.
LEMMA RuntimeInvStep == RuntimeInv /\ [Next]_vars => RuntimeInv'
<1> SUFFICES ASSUME RuntimeInv, [Next]_vars PROVE RuntimeInv'
  OBVIOUS
<1>1. CASE Next
  BY <1>1, TypeStep, HolderStep, ReadyStep, DisposalStep, MountedStep, StrandedStep
  DEF RuntimeInv
<1>2. CASE UNCHANGED vars
  BY <1>2 DEF vars, sourceVars, flags, opVars, RuntimeInv, RuntimeTypeOK, OneHolder,
     ReadyIsCurrent, DisposalIsFinal, MountedIsBound, NeverStranded
<1> QED BY <1>1, <1>2

\* Every reachable state satisfies the invariant.
THEOREM RuntimeInvariant == Spec => []RuntimeInv
BY RuntimeInvInit, RuntimeInvStep, PTL DEF Spec

\* The state keeps its types, and the phase says live exactly when the runtime is
\* ready, for any number of services, restarts, faults and operations.
THEOREM RuntimeTypeCorrect == Spec => []RuntimeTypeOK
<1>1. RuntimeInv => RuntimeTypeOK
  BY DEF RuntimeInv
<1> QED BY <1>1, RuntimeInvariant, PTL

\* Two sources never feed the daemon at once: the attachment creates one only when
\* #sourceClosePromise has closed every earlier one.
THEOREM OnlyOneSource == Spec => []OneSource
<1>1. RuntimeInv => OneSource
  BY DEF RuntimeInv, RuntimeTypeOK, OneHolder, OneSource, OpenSources
<1> QED BY <1>1, RuntimeInvariant, PTL

\* A runtime that calls itself ready has a source of the binding it has now.
THEOREM ReadySourceIsCurrent == Spec => []ReadyIsCurrent
<1>1. RuntimeInv => ReadyIsCurrent
  BY DEF RuntimeInv
<1> QED BY <1>1, RuntimeInvariant, PTL

\* After dispose nothing is left: no source, no attachment, no timer.
THEOREM DisposedRuntimeHoldsNothing == Spec => []DisposedHoldsNothing
<1>1. RuntimeInv => DisposedHoldsNothing
  BY DEF RuntimeInv, RuntimeTypeOK, OneHolder, DisposalIsFinal, DisposedHoldsNothing,
     OpenSources
<1> QED BY <1>1, RuntimeInvariant, PTL

\* The service mounted last is the one bound, and a bound runtime always has a
\* timer, a probe or an attachment that goes on: neither a late unbind nor a
\* replaced attachment strands it.
THEOREM BoundRuntimeGoesOn == Spec => [](MountedIsBound /\ NeverStranded)
<1>1. RuntimeInv => MountedIsBound /\ NeverStranded
  BY DEF RuntimeInv
<1> QED BY <1>1, RuntimeInvariant, PTL

=============================================================================
