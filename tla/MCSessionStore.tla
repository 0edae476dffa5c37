--------------------------- MODULE MCSessionStore ---------------------------
(***************************************************************************)
(* TLC instance of SessionStore.  The batches hold up to three documents   *)
(* of two sessions at sequence numbers 0..3, valid or not: gaps, unequal   *)
(* workspaces, changed contents, reused keys and fingerprints, watermarks  *)
(* at 0 and past the integer range.                                        *)
(***************************************************************************)
EXTENDS SessionStore, TLC

CONSTANTS s1, s2, w1, w2, c1, c2, r1, r2, k1, k2, k3, f1, f2

Doc(s, n, w, c) ==
    [session |-> s, seq |-> n, workspace |-> w, content |-> c,
     revision |-> IF c = c1 THEN r1 ELSE r2]

\* Runs of the first session, with the cases a projection can get wrong.
FirstRuns ==
    {{Doc(s1, 0, w1, c1)}, {Doc(s1, 0, w1, c1), Doc(s1, 1, w1, c2)},
     {Doc(s1, 0, w1, c1), Doc(s1, 1, w2, c1)}, {Doc(s1, 0, w1, c2)},
     {Doc(s1, 1, w1, c2)}, {Doc(s1, 1, w1, c1), Doc(s1, 2, w1, c1)},
     {Doc(s1, 0, w1, c1), Doc(s1, 2, w1, c1)}, {Doc(s1, 2, w1, c1), Doc(s1, 3, w1, c1)}}

SecondRuns ==
    {{}, {Doc(s2, 0, w2, c1)}, {Doc(s2, 0, w1, c1), Doc(s2, 1, w1, c2)},
     {Doc(s2, 1, w1, c2)}}

\* The fingerprint of a payload; f1 and f2 stand for the digests of two classes of
\* payloads, so two different payloads may also share one.
RunFingerprint(docs) == IF \E d \in docs : d.content = c2 THEN f2 ELSE f1

MCBatches ==
    {[key |-> k, fingerprint |-> RunFingerprint(x \cup y), watermark |-> w,
      documents |-> x \cup y] :
        k \in Key, w \in 0..MaxInteger + 1, x \in FirstRuns \cup {{}}, y \in SecondRuns}

\* Keys are opaque to the store.
KeySymmetry == Permutations(Key)
=============================================================================
