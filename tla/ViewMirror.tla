----------------------------- MODULE ViewMirror ------------------------------
(***************************************************************************)
(* What the reconciliation of a materialized view promises, without        *)
(* listings, batches and queues.  The partition of a session is replaced   *)
(* by a version that was read from the host, never by an older one than it *)
(* has, and deleted only when its session is gone for good.  The view      *)
(* turns ready when every partition is up to date but those of sessions    *)
(* whose change is still to be taken up.  Reading or failing begins only   *)
(* while the source is open; what was under way may end after that.        *)
(***************************************************************************)
EXTENDS Naturals

CONSTANT Session

VARIABLES version, gone,    \* the host: versions of the sessions (0: none), those disposed of
          told,             \* sessions that changed and whose change is not taken up yet
          partition,        \* versions in the view
          reading,          \* session -> the version read and not written yet; 0 for none
          view,             \* "building", "ready" or "failed"
          failing,          \* the view is about to be marked failed
          closed

hostVars == <<version, gone, told>>
mirrorVars == <<hostVars, partition, reading, view, failing, closed>>

Nothing == [s \in Session |-> 0]
Behind(s) == partition[s] # version[s]

MirrorInit ==
    /\ version \in [Session -> Nat] /\ partition \in [Session -> Nat]
    /\ gone \subseteq Session /\ told \subseteq gone
    /\ \A s \in gone : version[s] = 0
    /\ \A s \in Session \ gone : partition[s] <= version[s]
    /\ reading = Nothing /\ view \in {"building", "ready"} /\ failing = FALSE /\ closed = FALSE

----------------------------------------------------------------------------
(* The host                                                                *)

Tells(s) == told' = told \/ told' = told \cup {s}

Grow(s) == /\ s \notin gone /\ version' = [version EXCEPT ![s] = @ + 1] /\ Tells(s)
           /\ UNCHANGED <<gone, partition, reading, view, failing, closed>>

Go(s) == /\ version[s] > 0 /\ version' = [version EXCEPT ![s] = 0]
         /\ gone' = gone \cup {s} /\ Tells(s)
         /\ UNCHANGED <<partition, reading, view, failing, closed>>

----------------------------------------------------------------------------
(* The source                                                              *)

\* Whatever it does may end in a failure, if it is open.
MayFail == failing' = failing \/ (~ closed /\ failing' = TRUE)

TakeUp == /\ told' \subseteq told
          /\ UNCHANGED <<version, gone, partition, reading, view, failing, closed>>

Read(s) == /\ ~ closed /\ version[s] > 0
           /\ reading' = [reading EXCEPT ![s] = version[s]]
           /\ UNCHANGED <<hostVars, partition, view, failing, closed>>

Write(s) == /\ reading[s] > 0 /\ reading[s] >= partition[s]
            /\ partition' = [partition EXCEPT ![s] = reading[s]]
            /\ reading' = [reading EXCEPT ![s] = 0]
            /\ MayFail
            /\ UNCHANGED <<hostVars, view, closed>>

Delete(s) == /\ s \in gone /\ partition' = [partition EXCEPT ![s] = 0]
             /\ MayFail
             /\ UNCHANGED <<hostVars, reading, view, closed>>

\* What was read is forgotten.
Stop == /\ reading' = Nothing /\ MayFail
        /\ UNCHANGED <<hostVars, partition, view, closed>>

Activate == /\ closed \/ \A s \in Session : Behind(s) => s \in told
            /\ view' = "ready" /\ told' \subseteq told
            /\ MayFail
            /\ UNCHANGED <<version, gone, partition, reading, closed>>

Mark == /\ failing /\ view' \in {view, "failed"}
        /\ failing' = FALSE \/ (~ closed /\ failing' = TRUE)
        /\ UNCHANGED <<hostVars, partition, reading, closed>>

Close == closed' = TRUE /\ UNCHANGED <<hostVars, partition, reading, view, failing>>

MirrorNext ==
    \/ \E s \in Session : Grow(s) \/ Go(s) \/ Read(s) \/ Write(s) \/ Delete(s)
    \/ TakeUp \/ Stop \/ Activate \/ Mark \/ Close

MirrorSpec == MirrorInit /\ [][MirrorNext]_mirrorVars
=============================================================================
