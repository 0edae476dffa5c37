--------------------------- MODULE SearchPromise ----------------------------
(***************************************************************************)
(* What the daemon promises each search, without threads, locks or a       *)
(* queue.  A search waits, may run, and ends.  It may be given up: by its  *)
(* caller at any time, for its deadline only after that.  The first reason *)
(* stays, and a search that waits and is given up may end without running. *)
(* It has one answer: the outcome of the search, or its reason.            *)
(***************************************************************************)
EXTENDS Integers

CONSTANTS Request, Deadline, None

VARIABLES now,     \* the clock
          phase,   \* request -> "queued", "active" or "terminal"
          reason,  \* request -> why it was given up first; "none" before that
          answer   \* request -> its answer; None before that

promiseVars == <<now, phase, reason, answer>>

PromiseInit == /\ now = 1
               /\ phase = [c \in Request |-> "queued"]
               /\ reason = [c \in Request |-> "none"]
               /\ answer = [c \in Request |-> None]

GivenUp(c) == reason[c] # "none"
Outcome(c) == IF reason[c] = "deadline" THEN "deadline_exceeded" ELSE "cancelled"

TimeGoes == now' = now + 1 /\ UNCHANGED <<phase, reason, answer>>

GiveUp(c) == /\ ~ GivenUp(c)
             /\ \/ reason' = [reason EXCEPT ![c] = "caller"]
                \/ now >= Deadline[c] /\ reason' = [reason EXCEPT ![c] = "deadline"]
             /\ UNCHANGED <<now, phase, answer>>

Run(c) == /\ phase[c] = "queued"
          /\ phase' = [phase EXCEPT ![c] = "active"]
          /\ UNCHANGED <<now, reason, answer>>

\* It ends without having run; its answer follows.
Withdraw(c) == /\ phase[c] = "queued" /\ GivenUp(c)
               /\ phase' = [phase EXCEPT ![c] = "terminal"]
               /\ UNCHANGED <<now, reason, answer>>

AnswerWithdrawn(c) == /\ phase[c] = "terminal" /\ GivenUp(c) /\ answer[c] = None
                      /\ answer' = [answer EXCEPT ![c] = Outcome(c)]
                      /\ UNCHANGED <<now, phase, reason>>

\* It has run; it ends and is answered at once.
AnswerRun(c) == /\ phase[c] = "active"
                /\ phase' = [phase EXCEPT ![c] = "terminal"]
                /\ \/ \E result \in {"ok", "storage"} : answer' = [answer EXCEPT ![c] = result]
                   \/ GivenUp(c) /\ answer' = [answer EXCEPT ![c] = Outcome(c)]
                /\ UNCHANGED <<now, reason>>

PromiseNext ==
    \/ TimeGoes
    \/ \E c \in Request : GiveUp(c) \/ Run(c) \/ Withdraw(c) \/ AnswerWithdrawn(c) \/ AnswerRun(c)

PromiseSpec == PromiseInit /\ [][PromiseNext]_promiseVars
=============================================================================
