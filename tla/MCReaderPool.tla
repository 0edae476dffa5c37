---------------------------- MODULE MCReaderPool ----------------------------
(***************************************************************************)
(* TLC instances of ReaderPool.  c1 and c3 share a request id, so that an  *)
(* id is used again while a job of its former owner is still queued.       *)
(***************************************************************************)
EXTENDS ReaderPool, TLC

CONSTANTS c1, c2, c3, i1, i2, w1, w2, k1, k2

MCIdOf == [c \in Request |-> IF c = c2 THEN i2 ELSE i1]
MCDeadline == [c \in Request |-> 2]
MCProcess == Request \cup Worker \cup Canceller
WorkerSymmetry == Permutations(Worker)
=============================================================================
