---------------------------- MODULE IndexMirror -----------------------------
(***************************************************************************)
(* What indexing promises: a mirror that, session by session, holds the    *)
(* beginning of the authoritative log, only grows, and never runs ahead.   *)
(***************************************************************************)
EXTENDS Integers

CONSTANT Session

VARIABLES log_length,  \* events in the authoritative log of each session
          indexed      \* events of it the index holds

mirrorVars == <<log_length, indexed>>

MirrorInit == /\ log_length = [s \in Session |-> 0]
              /\ indexed = [s \in Session |-> 0]

Grow(s) == /\ log_length' = [log_length EXCEPT ![s] = @ + 1]
           /\ UNCHANGED indexed

Advance(s) == /\ \E n \in indexed[s] + 1..log_length[s] :
                   indexed' = [indexed EXCEPT ![s] = n]
              /\ UNCHANGED log_length

MirrorNext == \E s \in Session : Grow(s) \/ Advance(s)

MirrorSpec == MirrorInit /\ [][MirrorNext]_mirrorVars
=============================================================================
