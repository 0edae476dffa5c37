---------------------------- MODULE MCDshSource -----------------------------
(***************************************************************************)
(* TLC instances of DshSource.  The digests of a batch are collision free: *)
(* the key is a function of the watermark and the documents alone.         *)
(***************************************************************************)
EXTENDS DshSource, TLC

CONSTANTS s1, s2, w1, c1, r1

MCWorkspaceOf == [s \in Session |-> w1]
MCContentOf == [s \in Session |-> c1]
MCRevisionOf == [s \in Session |-> r1]

MCKeyOf(w, docs) == [digest_of |-> <<w, docs>>]
MCFingerprintOf(docs) == [digest_of |-> docs]

Runs == {{Projected(s, n) : n \in from..to} : s \in Session, from \in 0..MaxEvents - 1,
                                              to \in 0..MaxEvents - 1}
MCKey == {MCKeyOf(w, r) : w \in 1..MaxInteger, r \in Runs}
MCFingerprint == {MCFingerprintOf(r) : r \in Runs}
MCBatches == {[key |-> MCKeyOf(w, r), fingerprint |-> MCFingerprintOf(r), watermark |-> w,
               documents |-> r] : w \in 1..MaxInteger, r \in Runs}
=============================================================================
