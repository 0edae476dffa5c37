---------------------------- MODULE SourceProofs ----------------------------
(***************************************************************************)
(* Proofs about SessionStore and DshSource, which extends it.              *)
(*                                                                         *)
(* The store: for any set of batches, cursors count documents, committed   *)
(* batches replay, generations and watermarks order them alike, and no     *)
(* step loses anything.                                                    *)
(*                                                                         *)
(* The source: for any sessions, bounds and failures, what the daemon      *)
(* holds of a session is a beginning of its log, indexing implements       *)
(* IndexMirror, and a live source that is idle has indexed everything.     *)
(* Whatever batch arrives, the invariant of the store holds.  What is      *)
(* added here is where batches come from: each one under way, that of a    *)
(* failed source too, is a run of the projection of a log, and the         *)
(* versions of the durable cursor and of the log that a task has read are  *)
(* never ahead of the real ones.                                           *)
(***************************************************************************)
EXTENDS DshSource, FiniteSetTheorems, WellFoundedInduction, TLAPS

----------------------------------------------------------------------------
(* The store                                                               *)

\* A nonempty set of naturals has a least element.
LEMMA LeastNatural ==
    ASSUME NEW T \in SUBSET Nat, T # {}
    PROVE  \E x \in T : \A y \in T : x <= y
<1>1. IsWellFoundedOn(OpToRel(<, Nat), Nat)
  BY NatLessThanWellFounded
<1>2. PICK x \in T : \A y \in T : ~ (<<y, x>> \in OpToRel(<, Nat))
  BY <1>1, WFMin
<1>3. \A y \in T : ~ (y < x)
  BY <1>2 DEF OpToRel
<1> QED BY <1>3

\* A nonempty set of documents has one with the greatest sequence number.
LEMMA GreatestSeq ==
    ASSUME NEW D \in SUBSET Document, D # {}
    PROVE  \E d \in D : \A e \in D : e.seq <= d.seq
<1> DEFINE T == {MaxInteger - d.seq : d \in D}
<1>0. MaxInteger \in Nat /\ \A d \in D : d.seq \in 0..MaxInteger
  BY MaxIntegerAssumption DEF Document
<1>1. T \in SUBSET Nat /\ T # {}
  BY <1>0
<1>2. PICK x \in T : \A y \in T : x <= y
  BY <1>1, LeastNatural
<1>3. PICK d \in D : x = MaxInteger - d.seq
  BY <1>2
<1>4. \A e \in D : MaxInteger - e.seq \in T
  OBVIOUS
<1>5. ASSUME NEW e \in D PROVE e.seq <= d.seq
  <2>1. MaxInteger - d.seq <= MaxInteger - e.seq
    BY <1>2, <1>3, <1>4
  <2>2. d.seq \in Int /\ e.seq \in Int
    BY <1>0
  <2> QED BY <1>0, <2>1, <2>2
<1> QED BY <1>5

----------------------------------------------------------------------------
(* One commit: what the per-document loop inserts for a session.           *)

\* Facts about the batches callers may submit.
LEMMA BatchFacts ==
    ASSUME NEW b \in Batches
    PROVE  /\ b.documents \in SUBSET Document
           /\ IsFiniteSet(b.documents)
           /\ b.key \in Key
           /\ b.fingerprint \in Fingerprint
           /\ b.watermark \in Nat
           /\ Inserted(b) \in SUBSET Document
           /\ Touched(b) \in SUBSET Session
<1>1. b \in Batch /\ IsFiniteSet(b.documents)
  BY BatchesAssumption
<1>2. b.watermark \in Nat
  BY <1>1, MaxIntegerAssumption DEF Batch
<1>3. b.documents \in SUBSET Document /\ b.key \in Key /\ b.fingerprint \in Fingerprint
  BY <1>1 DEF Batch
<1>4. Inserted(b) \in SUBSET Document
  BY <1>3 DEF Inserted
<1>5. Touched(b) \in SUBSET Session
  BY <1>4 DEF Touched, Document
<1> QED BY <1>1, <1>2, <1>3, <1>4, <1>5

\* session_state answers with a cursor in the SQLite range.
LEMMA NextSeqType ==
    ASSUME StoreTypeOK, NEW s
    PROVE  NextSeq(s) \in 0..MaxInteger
BY MaxIntegerAssumption DEF StoreTypeOK, SessionRow, NextSeq

\* The documents inserted for a session run without a gap from its old cursor to
\* the last one, which the new row describes, and they are all in its workspace.
LEMMA InsertedRun ==
    ASSUME StoreTypeOK, NEW b \in Batches, Commits(b), NEW s \in Touched(b)
    PROVE  LET last == LastInserted(b, s) IN
           /\ last \in Inserted(b) /\ last.session = s
           /\ last.seq >= NextSeq(s) /\ last.seq + 1 <= MaxInteger
           /\ \A d \in OfSession(Inserted(b), s) :
                 d.seq <= last.seq /\ d.workspace = last.workspace
           /\ \A n \in NextSeq(s)..last.seq :
                 \E d \in Inserted(b) : d.session = s /\ d.seq = n
           /\ s \in DOMAIN sessions => last.workspace = sessions[s].workspace
<1> DEFINE I == OfSession(Inserted(b), s)
           last == LastInserted(b, s)
<1>1. I \in SUBSET Document /\ I # {}
  BY BatchFacts DEF OfSession, Touched
<1>2. last \in I /\ \A e \in I : e.seq <= last.seq
  BY <1>1, GreatestSeq DEF LastInserted
<1>3. last \in b.documents /\ last \in Inserted(b) /\ last.session = s
  BY <1>2 DEF OfSession, Inserted
<1>4. last.seq >= NextSeq(s) /\ last.seq + 1 <= MaxInteger
  BY <1>3 DEF Inserted, Commits, DocumentsFit, CursorInRange
<1>5. PICK first \in b.documents : first.session = s /\ first.seq <= NextSeq(s)
  BY <1>3 DEF Commits, DocumentsFit, NoSequenceGap, OfSession
<1>6. first.seq \in Nat /\ last.seq \in Nat /\ NextSeq(s) \in Nat
  BY <1>3, <1>5, BatchFacts, NextSeqType, MaxIntegerAssumption DEF Document
<1>7. ASSUME NEW n \in NextSeq(s)..last.seq
      PROVE  \E d \in Inserted(b) : d.session = s /\ d.seq = n
  <2>1. n \in first.seq..last.seq
    BY <1>5, <1>6
  <2>2. PICK d \in b.documents : d.session = s /\ d.seq = n
    BY <1>3, <1>5, <2>1 DEF Commits, ValidBatch, ContiguousPerSession
  <2>3. d \in Inserted(b)
    BY <2>2, <1>6 DEF Inserted
  <2> QED BY <2>2, <2>3
<1>8. \A d \in I : d.workspace = last.workspace
  <2>1. CASE s \in DOMAIN sessions
    BY <1>2, <2>1 DEF OfSession, Inserted, Commits, DocumentsFit, WorkspaceFits
  <2>2. CASE s \notin DOMAIN sessions
    <3>1. first.seq = 0
      BY <1>5, <1>6, <2>2 DEF NextSeq
    <3>2. \A d \in I : d.workspace = first.workspace
      BY <1>5, <2>2, <3>1 DEF OfSession, Inserted, Commits, DocumentsFit, WorkspaceFits
    <3> QED BY <1>2, <3>2
  <2> QED BY <2>1, <2>2
<1>9. s \in DOMAIN sessions => last.workspace = sessions[s].workspace
  BY <1>3 DEF Commits, DocumentsFit, WorkspaceFits
<1> QED BY <1>2, <1>3, <1>4, <1>7, <1>8, <1>9

----------------------------------------------------------------------------
(* The inductive invariant.                                                *)

\* What a receipt remembers of the batch committed under its key.
ReceiptsDescribeBatches ==
    \A k \in DOMAIN accepted :
        /\ accepted[k].key = k
        /\ ValidBatch(accepted[k])
        /\ ingest[k].fingerprint = accepted[k].fingerprint
        /\ ingest[k].watermark = accepted[k].watermark
        /\ ingest[k].inserted + ingest[k].replayed = Cardinality(accepted[k].documents)
        /\ accepted[k].documents \subseteq documents
        /\ ingest[k].generation <= meta.generation
        /\ ingest[k].watermark <= meta.watermark

StoreInv ==
    /\ StoreTypeOK
    /\ CursorCountsDocuments
    /\ ReceiptsDescribeBatches
    /\ GenerationsOrderWatermarks

\* The empty database satisfies the invariant.
LEMMA StoreInitInv == StoreInit => StoreInv
<1> SUFFICES ASSUME StoreInit PROVE StoreInv
  OBVIOUS
<1>1. StoreTypeOK
  BY MaxIntegerAssumption DEF StoreInit, StoreTypeOK
<1>2. CursorCountsDocuments
  BY DEF StoreInit, CursorCountsDocuments
<1>3. ReceiptsDescribeBatches
  BY DEF StoreInit, ReceiptsDescribeBatches
<1>4. GenerationsOrderWatermarks
  BY DEF StoreInit, GenerationsOrderWatermarks
<1> QED BY <1>1, <1>2, <1>3, <1>4 DEF StoreInv

\* The two counts of a receipt add up to the documents of its batch.
LEMMA CountsAddUp ==
    ASSUME NEW b \in Batches
    PROVE  /\ Cardinality(Inserted(b)) \in Nat
           /\ Cardinality(Replayed(b)) \in Nat
           /\ Cardinality(Inserted(b)) + Cardinality(Replayed(b)) = Cardinality(b.documents)
<1>1. IsFiniteSet(b.documents)
  BY BatchFacts
<1>2. Inserted(b) \subseteq b.documents
  BY DEF Inserted
<1>3. IsFiniteSet(Inserted(b))
  BY <1>1, <1>2, FS_Subset
<1>4. /\ IsFiniteSet(Replayed(b))
      /\ Cardinality(Replayed(b))
            = Cardinality(b.documents) - Cardinality(b.documents \cap Inserted(b))
  BY <1>1, <1>3, FS_Difference DEF Replayed
<1>5. b.documents \cap Inserted(b) = Inserted(b)
  BY <1>2
<1>6. /\ Cardinality(Inserted(b)) \in Nat /\ Cardinality(Replayed(b)) \in Nat
      /\ Cardinality(b.documents) \in Nat
  BY <1>1, <1>3, <1>4, FS_CardinalityType
<1>7. Cardinality(Replayed(b)) = Cardinality(b.documents) - Cardinality(Inserted(b))
  BY <1>4, <1>5
<1>8. ASSUME NEW i \in Nat, NEW n \in Nat, NEW r \in Nat, r = n - i PROVE i + r = n
  BY <1>8
<1> QED BY <1>6, <1>7, <1>8

\* A commit preserves the types of the tables.
LEMMA CommitType ==
    ASSUME StoreInv, NEW b \in Batches, CommitBatch(b)
    PROVE  StoreTypeOK'
<1> USE DEF CommitBatch, Commit
<1>1. StoreTypeOK /\ Commits(b)
  BY DEF StoreInv
<1>2. sessions' \in [DOMAIN sessions \cup Touched(b) -> SessionRow]
  <2>1. SUFFICES ASSUME NEW s \in Touched(b) PROVE SessionAfterInsert(b, s) \in SessionRow
    BY <1>1 DEF SessionsAfter, StoreTypeOK
  <2> DEFINE last == LastInserted(b, s)
  <2>2. last \in Document /\ last.seq + 1 <= MaxInteger
    BY <1>1, InsertedRun, BatchFacts
  <2> HIDE DEF last
  <2>3. last.seq \in 0..MaxInteger /\ last.workspace \in Workspace /\ last.revision \in Revision
    BY <2>2 DEF Document
  <2>4. last.seq + 1 \in 0..MaxInteger
    BY <2>2, <2>3, MaxIntegerAssumption
  <2> QED BY <2>3, <2>4 DEF SessionAfterInsert, SessionRow, last
<1>3. DOMAIN sessions' \subseteq Session
  BY <1>1, BatchFacts DEF SessionsAfter, StoreTypeOK
<1>4. documents' \subseteq Document
  BY <1>1, BatchFacts DEF StoreTypeOK
<1>5. meta.generation \in Nat /\ meta.generation + 1 \in 1..MaxInteger
      /\ b.watermark \in 1..MaxInteger
  BY <1>1, BatchFacts, MaxIntegerAssumption
     DEF StoreTypeOK, Commits, MetadataInRange, ValidBatch
<1>6. meta' \in [generation : 0..MaxInteger, watermark : 0..MaxInteger]
  BY <1>5, MaxIntegerAssumption
<1>7. IngestRowFor(b) \in IngestRow
  BY <1>5, BatchFacts, CountsAddUp DEF IngestRowFor, IngestRow
<1>8. /\ DOMAIN ingest' \subseteq Key
      /\ ingest' \in [DOMAIN ingest' -> IngestRow]
  BY <1>1, <1>7, BatchFacts DEF StoreTypeOK
<1>9. /\ DOMAIN accepted' = DOMAIN ingest'
      /\ accepted' \in [DOMAIN accepted' -> Batches]
  BY <1>1 DEF StoreTypeOK
<1> QED BY <1>2, <1>3, <1>4, <1>6, <1>8, <1>9 DEF StoreTypeOK

\* A commit leaves every cursor counting its documents.
LEMMA CommitCursors ==
    ASSUME StoreInv, NEW b \in Batches, CommitBatch(b)
    PROVE  CursorCountsDocuments'
<1>1. /\ StoreTypeOK /\ CursorCountsDocuments /\ Commits(b)
      /\ sessions' = SessionsAfter(b) /\ documents' = documents \cup Inserted(b)
  BY DEF StoreInv, CommitBatch, Commit
<1>2. Inserted(b) \in SUBSET Document /\ documents \in SUBSET Document
  BY <1>1, BatchFacts DEF StoreTypeOK
<1>3. /\ DOMAIN sessions' = DOMAIN sessions \cup Touched(b)
      /\ \A s \in Touched(b) :
            /\ sessions'[s].next_seq = LastInserted(b, s).seq + 1
            /\ sessions'[s].workspace = LastInserted(b, s).workspace
            /\ sessions'[s].header_revision = LastInserted(b, s).revision
      /\ \A s \in DOMAIN sessions \ Touched(b) : sessions'[s] = sessions[s]
  BY <1>1 DEF SessionsAfter, SessionAfterInsert
<1>4. \A d \in Inserted(b) : d.session \in Touched(b) /\ d.seq >= NextSeq(d.session)
  BY DEF Inserted, Touched
<1>5. \A d \in documents : d.session \in DOMAIN sessions /\ d.seq < NextSeq(d.session)
  BY <1>1 DEF CursorCountsDocuments, NextSeq
<1>6. \A d \in documents' : d.seq \in Nat /\ NextSeq(d.session) \in Nat
  BY <1>1, <1>2, NextSeqType, MaxIntegerAssumption DEF Document
<1>7. \A s \in Touched(b) :
        /\ LastInserted(b, s) \in Inserted(b) /\ LastInserted(b, s).session = s
        /\ LastInserted(b, s).seq >= NextSeq(s)
        /\ LastInserted(b, s).seq \in Nat
  BY <1>1, <1>2, InsertedRun, MaxIntegerAssumption DEF Document
<1>8. \A d, e \in documents' : d.session = e.session /\ d.seq = e.seq => d = e
  <2>1. \A d, e \in Inserted(b) : d.session = e.session /\ d.seq = e.seq => d = e
    BY <1>1 DEF Inserted, Commits, ValidBatch, ContiguousPerSession
  <2>2. \A d, e \in documents : d.session = e.session /\ d.seq = e.seq => d = e
    BY <1>1 DEF CursorCountsDocuments
  <2>3. \A d \in Inserted(b), e \in documents : ~ (d.session = e.session /\ d.seq = e.seq)
    BY <1>1, <1>4, <1>5, <1>6
  <2> QED BY <1>1, <2>1, <2>2, <2>3
<1>9. ASSUME NEW d \in documents'
      PROVE  /\ d.session \in DOMAIN sessions'
             /\ d.seq < sessions'[d.session].next_seq
             /\ d.workspace = sessions'[d.session].workspace
             /\ d.seq + 1 = sessions'[d.session].next_seq
                  => d.revision = sessions'[d.session].header_revision
  <2> DEFINE s == d.session
             last == LastInserted(b, s)
  <2>1. CASE s \in Touched(b)
    <3>1. d.seq <= last.seq /\ d.workspace = last.workspace
      <4>1. CASE d \in Inserted(b)
        BY <1>1, <2>1, <4>1, InsertedRun DEF OfSession
      <4>2. CASE d \in documents
        BY <1>1, <1>5, <1>6, <1>7, <2>1, <4>2, InsertedRun DEF CursorCountsDocuments
      <4> QED BY <1>1, <4>1, <4>2
    <3>2. d.seq = last.seq => d = last
      BY <1>1, <1>7, <1>8, <2>1
    <3>3. d.seq + 1 = last.seq + 1 => d.seq = last.seq
      BY <1>6, <1>7, <2>1
    <3>4. d.seq < last.seq + 1
      BY <1>6, <1>7, <2>1, <3>1
    <3> HIDE DEF last
    <3> QED BY <1>3, <2>1, <3>1, <3>2, <3>3, <3>4 DEF last
  <2>2. CASE s \notin Touched(b)
    <3>1. d \in documents
      BY <1>1, <1>4, <2>2
    <3>2. s \in DOMAIN sessions \ Touched(b)
      BY <1>5, <2>2, <3>1
    <3> QED BY <1>1, <1>3, <3>1, <3>2 DEF CursorCountsDocuments
  <2> QED BY <2>1, <2>2
<1>10. ASSUME NEW s \in DOMAIN sessions'
       PROVE  /\ sessions'[s].next_seq > 0
              /\ \A n \in 0..(sessions'[s].next_seq - 1) :
                    \E d \in documents' : d.session = s /\ d.seq = n
  <2>1. CASE s \in Touched(b)
    <3> DEFINE last == LastInserted(b, s)
    <3>1. sessions'[s].next_seq = last.seq + 1 /\ last.seq \in Nat /\ NextSeq(s) \in Nat
      BY <1>1, <1>3, <1>7, <2>1, NextSeqType, MaxIntegerAssumption
    <3>2. ASSUME NEW n \in 0..last.seq
          PROVE  \E d \in documents' : d.session = s /\ d.seq = n
      <4>1. CASE n >= NextSeq(s)
        <5>1. n \in NextSeq(s)..last.seq
          BY <3>1, <4>1
        <5> QED BY <1>1, <2>1, <5>1, InsertedRun
      <4>2. CASE n < NextSeq(s)
        <5>1. s \in DOMAIN sessions /\ n \in 0..(sessions[s].next_seq - 1)
          BY <3>1, <4>2 DEF NextSeq
        <5> QED BY <1>1, <5>1 DEF CursorCountsDocuments
      <4> QED BY <3>1, <4>1, <4>2
    <3> HIDE DEF last
    <3>3. (last.seq + 1) - 1 = last.seq /\ last.seq + 1 > 0
      BY <3>1
    <3> QED BY <3>1, <3>2, <3>3
  <2>2. CASE s \notin Touched(b)
    <3>1. s \in DOMAIN sessions \ Touched(b)
      BY <1>3, <2>2
    <3> QED BY <1>1, <1>3, <3>1 DEF CursorCountsDocuments
  <2> QED BY <2>1, <2>2
<1> QED BY <1>8, <1>9, <1>10 DEF CursorCountsDocuments

\* A commit adds one receipt, newer than all the others, and disturbs none.
LEMMA CommitReceipts ==
    ASSUME StoreInv, NEW b \in Batches, CommitBatch(b)
    PROVE  ReceiptsDescribeBatches' /\ GenerationsOrderWatermarks'
<1>1. /\ StoreTypeOK /\ CursorCountsDocuments /\ ReceiptsDescribeBatches
      /\ GenerationsOrderWatermarks /\ Commits(b)
      /\ documents' = documents \cup Inserted(b)
      /\ meta' = [generation |-> meta.generation + 1, watermark |-> b.watermark]
  BY DEF StoreInv, CommitBatch, Commit
<1>2. /\ DOMAIN ingest' = DOMAIN ingest \cup {b.key}
      /\ ingest'[b.key] = IngestRowFor(b)
      /\ \A k \in DOMAIN ingest : k # b.key /\ ingest'[k] = ingest[k]
      /\ DOMAIN accepted = DOMAIN ingest
      /\ DOMAIN accepted' = DOMAIN accepted \cup {b.key}
      /\ accepted'[b.key] = b
      /\ \A k \in DOMAIN accepted : accepted'[k] = accepted[k]
  BY <1>1 DEF CommitBatch, Commit, Commits, IsKnownKey, StoreTypeOK
<1>3. /\ meta.generation \in Nat /\ meta.watermark \in Nat /\ b.watermark \in Nat
      /\ b.watermark > meta.watermark
      /\ \A k \in DOMAIN ingest : ingest[k].generation \in Nat /\ ingest[k].watermark \in Nat
  BY <1>1, BatchFacts, MaxIntegerAssumption
     DEF StoreTypeOK, IngestRow, Commits, WatermarkAdvances
<1>4. b.documents \subseteq documents'
  BY <1>1, BatchFacts, NextSeqType, MaxIntegerAssumption
     DEF Inserted, Commits, DocumentsFit, StoredDocumentMatches, Document
<1>5. /\ ingest'[b.key].fingerprint = b.fingerprint
      /\ ingest'[b.key].watermark = b.watermark
      /\ ingest'[b.key].generation = meta.generation + 1
      /\ ingest'[b.key].inserted + ingest'[b.key].replayed = Cardinality(b.documents)
  BY <1>2, CountsAddUp DEF IngestRowFor
<1>6. /\ meta'.generation = meta.generation + 1
      /\ meta'.watermark = b.watermark
  BY <1>1
<1>7. \A k \in DOMAIN ingest : /\ ingest[k].generation <= meta.generation
                              /\ ingest[k].watermark <= meta.watermark
  BY <1>1, <1>2 DEF ReceiptsDescribeBatches
<1>8. ReceiptsDescribeBatches'
  <2>1. ASSUME NEW k \in DOMAIN accepted'
        PROVE  /\ accepted'[k].key = k
               /\ ValidBatch(accepted'[k])
               /\ ingest'[k].fingerprint = accepted'[k].fingerprint
               /\ ingest'[k].watermark = accepted'[k].watermark
               /\ ingest'[k].inserted + ingest'[k].replayed
                    = Cardinality(accepted'[k].documents)
               /\ accepted'[k].documents \subseteq documents'
               /\ ingest'[k].generation <= meta'.generation
               /\ ingest'[k].watermark <= meta'.watermark
    <3>1. CASE k = b.key
      BY <1>1, <1>2, <1>3, <1>4, <1>5, <1>6, <3>1 DEF Commits
    <3>2. CASE k \in DOMAIN accepted
      <4>1. ingest'[k] = ingest[k] /\ accepted'[k] = accepted[k]
        BY <1>2, <3>2
      <4>2. ingest[k].generation <= meta'.generation /\ ingest[k].watermark <= meta'.watermark
        BY <1>2, <1>3, <1>6, <1>7, <3>2
      <4> QED BY <1>1, <3>2, <4>1, <4>2 DEF ReceiptsDescribeBatches
    <3> QED BY <1>2, <3>1, <3>2
  <2> QED BY <2>1 DEF ReceiptsDescribeBatches, ValidBatch
<1>9. GenerationsOrderWatermarks'
  <2>1. meta'.generation <= meta'.watermark
    BY <1>1, <1>3, <1>6 DEF GenerationsOrderWatermarks
  <2>2. \A k \in DOMAIN ingest : /\ ingest'[k].generation < ingest'[b.key].generation
                                /\ ingest'[k].watermark < ingest'[b.key].watermark
    BY <1>2, <1>3, <1>5, <1>7
  <2> QED BY <1>1, <1>2, <2>1, <2>2 DEF GenerationsOrderWatermarks
<1> QED BY <1>8, <1>9

\* The invariant is inductive: replays and refusals change nothing.
LEMMA StoreStepInv == StoreInv /\ [StoreNext]_storeVars => StoreInv'
<1> SUFFICES ASSUME StoreInv, [StoreNext]_storeVars PROVE StoreInv'
  OBVIOUS
<1>1. CASE UNCHANGED storeVars
  BY <1>1 DEF StoreInv, storeVars, StoreTypeOK, CursorCountsDocuments,
              ReceiptsDescribeBatches, GenerationsOrderWatermarks
<1>2. ASSUME NEW b \in Batches, CommitBatch(b) PROVE StoreInv'
  BY <1>2, CommitType, CommitCursors, CommitReceipts DEF StoreInv
<1>3. ASSUME NEW b \in Batches, ReplayBatch(b) PROVE StoreInv'
  BY <1>1, <1>3 DEF ReplayBatch
<1>4. ASSUME NEW b \in Batches, RefuseBatch(b) PROVE StoreInv'
  BY <1>1, <1>4 DEF RefuseBatch
<1> QED BY <1>1, <1>2, <1>3, <1>4 DEF StoreNext

\* The inductive invariant holds in every state apply_batch can reach.
THEOREM StoreInvariant == StoreSpec => []StoreInv
BY StoreInitInv, StoreStepInv, PTL DEF StoreSpec

----------------------------------------------------------------------------
(* The theorems.                                                           *)

\* Every table keeps its type, cursors and generations in the SQLite range
\* included, whatever batches apply_batch is given.
THEOREM StoreTypeCorrect == StoreSpec => []StoreTypeOK
<1>1. StoreInv => StoreTypeOK
  BY DEF StoreInv
<1> QED BY <1>1, StoreInvariant, PTL

\* sessions.next_seq counts the documents of its session exactly, for every batch
\* and every number of commits (lib.rs, the loop of apply_batch).
THEOREM CursorsCountDocuments == StoreSpec => []CursorCountsDocuments
<1>1. StoreInv => CursorCountsDocuments
  BY DEF StoreInv
<1> QED BY <1>1, StoreInvariant, PTL

\* replay_receipt answers a repeated batch with its first receipt, for ever.
THEOREM AcceptedBatchesReplay == StoreSpec => []AcceptedBatchReplays
<1>1. StoreInv => AcceptedBatchReplays
  BY DEF StoreInv, StoreTypeOK, ReceiptsDescribeBatches, AcceptedBatchReplays, Replays,
         IsKnownKey, IsExactReplay, StoredDocumentMatches
<1> QED BY <1>1, StoreInvariant, PTL

\* Generations and watermarks order the committed batches the same way.
THEOREM GenerationsOrdered == StoreSpec => []GenerationsOrderWatermarks
<1>1. StoreInv => GenerationsOrderWatermarks
  BY DEF StoreInv
<1> QED BY <1>1, StoreInvariant, PTL

\* apply_batch only ever appends: no document, cursor, workspace or receipt is
\* lost or rewritten, and a change of any table is one generation.
THEOREM StoreAppendOnly == StoreSpec => AppendOnly
<1> DEFINE Appends ==
        /\ documents \subseteq documents'
        /\ \A s \in DOMAIN sessions :
              /\ s \in DOMAIN sessions'
              /\ sessions[s].next_seq <= sessions'[s].next_seq
              /\ sessions[s].workspace = sessions'[s].workspace
        /\ \A k \in DOMAIN ingest : k \in DOMAIN ingest' /\ ingest'[k] = ingest[k]
        /\ meta'.generation = meta.generation + 1
        /\ meta'.watermark > meta.watermark
<1>1. ASSUME StoreInv, NEW b \in Batches, CommitBatch(b) PROVE Appends
  <2>1. StoreTypeOK /\ Commits(b) /\ sessions' = SessionsAfter(b)
        /\ documents' = documents \cup Inserted(b)
        /\ meta' = [generation |-> meta.generation + 1, watermark |-> b.watermark]
    BY <1>1 DEF StoreInv, CommitBatch, Commit
  <2>2. ASSUME NEW s \in DOMAIN sessions
        PROVE  /\ s \in DOMAIN sessions'
               /\ sessions[s].next_seq <= sessions'[s].next_seq
               /\ sessions[s].workspace = sessions'[s].workspace
    <3>1. sessions[s].next_seq \in Nat
      BY <2>1, MaxIntegerAssumption DEF StoreTypeOK, SessionRow
    <3>2. CASE s \in Touched(b)
      <4> DEFINE last == LastInserted(b, s)
      <4>1. last \in Document /\ last.seq >= sessions[s].next_seq
            /\ last.workspace = sessions[s].workspace
        BY <2>1, <3>2, InsertedRun, BatchFacts DEF NextSeq
      <4> HIDE DEF last
      <4>2. sessions'[s].next_seq = last.seq + 1 /\ sessions'[s].workspace = last.workspace
        BY <2>1, <3>2 DEF SessionsAfter, SessionAfterInsert, last
      <4>3. last.seq \in Nat
        BY <4>1, MaxIntegerAssumption DEF Document
      <4> QED BY <2>1, <3>1, <4>1, <4>2, <4>3 DEF SessionsAfter
    <3>3. CASE s \notin Touched(b)
      BY <2>1, <3>1, <3>3 DEF SessionsAfter
    <3> QED BY <3>2, <3>3
  <2>3. \A k \in DOMAIN ingest : k \in DOMAIN ingest' /\ ingest'[k] = ingest[k]
    BY <1>1 DEF CommitBatch, Commit, Commits, IsKnownKey
  <2>4. meta'.watermark > meta.watermark
    BY <2>1 DEF Commits, WatermarkAdvances
  <2> QED BY <2>1, <2>2, <2>3, <2>4
<1>2. StoreInv /\ [StoreNext]_storeVars => [Appends]_storeVars
  BY <1>1 DEF StoreNext, ReplayBatch, RefuseBatch
<1> QED BY <1>2, StoreInvariant, PTL DEF StoreSpec, AppendOnly

----------------------------------------------------------------------------
(* The source                                                              *)

\* A batch under way is a run of the projection of a log.
RunOf(b, s, from, to) ==
    /\ from < to /\ to <= log_length[s]
    /\ \E w \in 1..MaxInteger : b = BatchOf(s, from, to, w)
UnderWay(b) == \E s \in Session : \E from, to \in 0..MaxEvents : RunOf(b, s, from, to)

\* The task and the phase of the source fit each other.
ControlShape ==
    /\ task = "none" <=> step = "idle"
    /\ step \in {"subscribe", "begin", "list"} => task = "corpus"
    /\ step = "subscribe" => ~paused /\ ~subscribed /\ phase = "subscribing"
    /\ phase = "idle" => task = "none" /\ ~paused /\ ~subscribed
    /\ phase = "live" => task # "corpus"
    /\ paused => phase # "live" /\ ~subscribed
    /\ ~paused =>
          /\ task = "none" => phase \in {"idle", "live"}
          /\ task = "drain" => phase = "live"
          /\ task = "corpus" /\ step # "subscribe" => subscribed
          /\ phase = "live" => subscribed

\* What a task holds while it goes through its sessions.
PassShape ==
    /\ IsFiniteSet(buffered) /\ IsFiniteSet(disposed)
    /\ \A s \in DOMAIN durable : durable[s] \in 0..MaxEvents /\ durable[s] <= NextSeq(s)
    /\ step \in {"next", "read", "commit", "await"} => todo \subseteq DOMAIN durable

\* The session in hand, how far its log was read and how much of it was sent.
HandShape ==
    /\ step \in {"read", "commit", "await"} =>
          doing \in [session : Session, from : 0..MaxEvents, to : 0..MaxEvents]
    /\ step = "read" => doing.from <= NextSeq(doing.session)
    /\ step = "commit" => doing.from < doing.to
    /\ step \in {"commit", "await"} => doing.to <= log_length[doing.session]
    /\ step = "await" =>
          /\ request \in Batches /\ doing.from <= doing.to
          /\ \E from \in 0..MaxEvents : RunOf(request, doing.session, from, doing.from)

\* The index holds nothing but what the logs hold.
IndexShape ==
    /\ \A d \in documents : d = Projected(d.session, d.seq)
    /\ \A s \in Session : NextSeq(s) <= log_length[s]
    /\ \A b \in orphans : UnderWay(b)
    /\ watermark <= meta.watermark

\* The corpus is listed, and every event since then is announced.
Following ==
    /\ ~paused
    /\ phase = "live" \/ (task = "corpus" /\ step \notin {"subscribe", "begin", "list"})

\* A session whose log has events the index has not: it is announced, buffered, in
\* the pass, or in hand, read to its end.
Expected(s) ==
    \/ s \in notices \/ s \in buffered \/ s \in todo
    \/ doing.session = s /\ step = "read"
    \/ doing.session = s /\ step \in {"commit", "await"} /\ doing.to = log_length[s]

NothingForgotten ==
    /\ Following => \A s \in Indexable : NextSeq(s) = log_length[s] \/ Expected(s)
    /\ step \in {"idle", "drain", "drained", "subscribe", "begin", "list"} => todo = {}
    /\ phase = "live" /\ task = "none" => buffered = {}

SourceInv ==
    /\ StoreInv /\ SourceTypeOK
    /\ ControlShape /\ PassShape /\ HandShape /\ IndexShape /\ NothingForgotten

----------------------------------------------------------------------------
(* What a batch does that arrives at the writer                            *)

LEMMA Bounds ==
    /\ MaxInteger \in Nat \ {0} /\ MaxEvents \in Nat /\ MaxTroubles \in Nat
    /\ MaxBuffered \in Nat \ {0} /\ MaxChunk \in Nat \ {0} /\ Indexable \subseteq Session
BY MaxIntegerAssumption, MaxBatchAssumption, SourceAssumption

\* The documents of a run are the projections of its events.
LEMMA RunFacts ==
    ASSUME NEW b, NEW s \in Session, NEW from \in 0..MaxEvents, NEW to \in 0..MaxEvents,
           RunOf(b, s, from, to)
    PROVE  /\ \A d \in b.documents : /\ d = Projected(s, d.seq) /\ d.session = s
                                     /\ d.seq \in 0..to - 1
           /\ \E d \in b.documents : d.session = s /\ d.seq = to - 1
<1>1. PICK w \in 1..MaxInteger : b = BatchOf(s, from, to, w)
  BY DEF RunOf
<1>2. b.documents = {Projected(s, n) : n \in from..to - 1}
  BY <1>1 DEF BatchOf
<1>3. from \in Nat /\ to \in Nat /\ from < to
  BY Bounds DEF RunOf
<1>4. \A d \in b.documents : /\ d = Projected(s, d.seq) /\ d.session = s
                             /\ d.seq \in 0..to - 1
  BY <1>2, <1>3 DEF Projected
<1>5. to - 1 \in from..to - 1
  BY <1>3
<1>6. Projected(s, to - 1) \in b.documents
  BY <1>2, <1>5
<1>7. Projected(s, to - 1).session = s /\ Projected(s, to - 1).seq = to - 1
  BY DEF Projected
<1> QED BY <1>4, <1>6, <1>7

LEMMA StoreStays ==
    ASSUME StoreInv, NEW b \in Batches, ApplyBatch(b)
    PROVE  StoreInv'
BY StoreStepInv DEF ApplyBatch, StoreNext

\* A commit moves the cursor of the session whose run it is, to the run's end.
LEMMA CommitEffect ==
    ASSUME StoreInv, NEW b \in Batches, NEW s \in Session, NEW from \in 0..MaxEvents,
           NEW to \in 0..MaxEvents, RunOf(b, s, from, to), CommitBatch(b)
    PROVE  /\ \A t \in Session : t # s => NextSeq(t)' = NextSeq(t)
           /\ NextSeq(s) <= NextSeq(s)' /\ to <= NextSeq(s)'
           /\ NextSeq(s)' = NextSeq(s) \/ NextSeq(s)' <= to
<1>1. StoreTypeOK /\ Commits(b) /\ sessions' = SessionsAfter(b)
  BY DEF StoreInv, CommitBatch, Commit
<1>2. NextSeq(s) \in Nat /\ to \in Nat
  BY <1>1, NextSeqType, Bounds
<1>3. /\ \A d \in b.documents : d.session = s /\ d.seq \in 0..to - 1
      /\ \E d \in b.documents : d.session = s /\ d.seq = to - 1
  BY RunFacts
<1>4. Inserted(b) \subseteq b.documents /\ Touched(b) \subseteq {s}
  BY <1>3 DEF Inserted, Touched
<1>5. /\ DOMAIN sessions' = DOMAIN sessions \cup Touched(b)
      /\ \A t \in DOMAIN sessions \ Touched(b) : sessions'[t] = sessions[t]
      /\ \A t \in Touched(b) : sessions'[t].next_seq = LastInserted(b, t).seq + 1
  BY <1>1 DEF SessionsAfter, SessionAfterInsert
<1>6. ASSUME NEW t \in Session, t \notin Touched(b)
      PROVE  NextSeq(t)' = NextSeq(t)
  BY <1>5, <1>6 DEF NextSeq
<1>7. CASE s \in Touched(b)
  <2> DEFINE last == LastInserted(b, s)
  <2>1. /\ last \in Inserted(b) /\ last.seq >= NextSeq(s)
        /\ \A d \in OfSession(Inserted(b), s) : d.seq <= last.seq
    BY <1>1, <1>7, InsertedRun
  <2>2. NextSeq(s)' = last.seq + 1
    BY <1>5, <1>7 DEF NextSeq
  <2> HIDE DEF last
  <2>3. last.seq \in 0..to - 1
    BY <1>3, <1>4, <2>1
  <2>4. PICK d \in b.documents : d.session = s /\ d.seq = to - 1
    BY <1>3
  <2>5. d.seq >= NextSeq(s) => d.seq <= last.seq
    BY <2>1, <2>4 DEF OfSession, Inserted
  <2>6. NextSeq(s) <= NextSeq(s)' /\ NextSeq(s)' <= to /\ to <= NextSeq(s)'
    BY <1>2, <2>1, <2>2, <2>3, <2>4, <2>5
  <2> QED BY <1>4, <1>6, <2>6
<1>8. CASE s \notin Touched(b)
  <2>1. NextSeq(s)' = NextSeq(s)
    BY <1>6, <1>8
  <2>2. PICK d \in b.documents : d.session = s /\ d.seq = to - 1
    BY <1>3
  <2>3. ~(d.seq >= NextSeq(s))
    BY <1>8, <2>2 DEF Touched, Inserted
  <2>4. to <= NextSeq(s)
    BY <1>2, <2>2, <2>3
  <2> QED BY <1>2, <1>4, <1>6, <2>1, <2>4
<1> QED BY <1>7, <1>8

LEMMA ApplyEffect ==
    ASSUME StoreInv, NEW b \in Batches, NEW s \in Session, NEW from \in 0..MaxEvents,
           NEW to \in 0..MaxEvents, RunOf(b, s, from, to), ApplyBatch(b)
    PROVE  /\ \A t \in Session : t # s => NextSeq(t)' = NextSeq(t)
           /\ NextSeq(s) <= NextSeq(s)'
           /\ ~Refused(b) => to <= NextSeq(s)'
           /\ NextSeq(s)' = NextSeq(s) \/ NextSeq(s)' <= to
<1>1. StoreTypeOK /\ CursorCountsDocuments /\ NextSeq(s) \in Nat /\ to \in Nat
  BY NextSeqType, Bounds DEF StoreInv
<1>2. CASE CommitBatch(b)
  BY <1>2, CommitEffect
<1>3. CASE ReplayBatch(b)
  <2>1. UNCHANGED sessions /\ \A d \in b.documents : d \in documents
    BY <1>3 DEF ReplayBatch, Replays, IsExactReplay, StoredDocumentMatches, storeVars
  <2>2. \A t \in Session : NextSeq(t)' = NextSeq(t)
    BY <2>1 DEF NextSeq
  <2>3. PICK d \in b.documents : d.session = s /\ d.seq = to - 1
    BY RunFacts
  <2>4. d.session \in DOMAIN sessions /\ d.seq < sessions[d.session].next_seq
    BY <1>1, <2>1, <2>3 DEF CursorCountsDocuments
  <2>5. to - 1 < NextSeq(s)
    BY <2>3, <2>4 DEF NextSeq
  <2> QED BY <1>1, <2>2, <2>5
<1>4. CASE RefuseBatch(b)
  <2>1. UNCHANGED sessions /\ Refused(b)
    BY <1>4 DEF RefuseBatch, storeVars
  <2>2. \A t \in Session : NextSeq(t)' = NextSeq(t)
    BY <2>1 DEF NextSeq
  <2> QED BY <1>1, <2>1, <2>2
<1> QED BY <1>2, <1>3, <1>4 DEF ApplyBatch

\* The watermark the caller is told is one the store has.
LEMMA ReceiptEffect ==
    ASSUME StoreInv, NEW b \in Batches, ApplyBatch(b)
    PROVE  /\ meta.watermark <= meta'.watermark
           /\ ~Refused(b) => /\ Outcome(b).watermark \in 0..MaxInteger
                             /\ Outcome(b).watermark <= meta'.watermark
<1>1. /\ meta.watermark \in 0..MaxInteger /\ MaxInteger \in Nat
      /\ ReceiptsDescribeBatches /\ StoreTypeOK
  BY Bounds DEF StoreInv, StoreTypeOK
<1>2. CASE CommitBatch(b)
  <2>1. Commits(b) /\ meta'.watermark = b.watermark
    BY <1>2 DEF CommitBatch, Commit
  <2>2. b.watermark \in Nat /\ b.watermark > meta.watermark /\ b.watermark <= MaxInteger
    BY <2>1, BatchFacts DEF Commits, WatermarkAdvances, MetadataInRange
  <2>3. Outcome(b).watermark = b.watermark
    BY <2>1 DEF Outcome, Receipt, IngestRowFor
  <2> QED BY <1>1, <2>1, <2>2, <2>3
<1>3. CASE ReplayBatch(b)
  <2>1. Replays(b) /\ meta' = meta
    BY <1>3 DEF ReplayBatch, storeVars
  <2>2. ~Commits(b)
    BY <2>1 DEF Commits, Replays
  <2>3. Outcome(b).watermark = ingest[b.key].watermark
    BY <2>1, <2>2 DEF Outcome, Receipt
  <2>4. b.key \in DOMAIN accepted
    BY <1>1, <2>1 DEF Replays, IsKnownKey, StoreTypeOK
  <2>5. ingest[b.key].watermark <= meta.watermark /\ ingest[b.key].watermark \in 1..MaxInteger
    BY <1>1, <2>4 DEF ReceiptsDescribeBatches, StoreTypeOK, IngestRow
  <2> QED BY <1>1, <2>1, <2>3, <2>5
<1>4. CASE RefuseBatch(b)
  BY <1>1, <1>4 DEF RefuseBatch, storeVars
<1> QED BY <1>2, <1>3, <1>4 DEF ApplyBatch

\* Only the writer changes the tables, and what it is given is a run of a log.
LEMMA Arrivals ==
    ASSUME SourceInv, Next
    PROVE  \/ UNCHANGED storeVars
           \/ /\ UNCHANGED dshVars
              /\ \E b \in Batches : UnderWay(b) /\ ApplyBatch(b)
<1>1. \/ UNCHANGED storeVars
      \/ UNCHANGED dshVars /\ step = "await" /\ ApplyBatch(request)
      \/ UNCHANGED dshVars /\ \E b \in orphans : ApplyBatch(b)
  BY DEF Next, AppendEvent, Notify, NoticeIgnored, NoticeOverflows, NoticeBuffered, Overflow,
      RecordFailure, DisposedNotice, SourceStep, Start, Subscribe, BeginCorpus, ListSessions,
      ReadSourceStates, NextSession, PassOver, ReadSession, SendBatch, WatermarkExhausted,
      BatchAcknowledged, BatchRefused, DrainMore, DrainEmpty, GoLive, EndDrain, NextTask,
      StopsAtAssert, AssertActive, Restart, CallFails, ReceiptLost, Close, OrphanApplied,
      OrphanExpires, Rest, TaskThrows, TaskIs, TaskOver, PassForgotten, dshVars, outside, status,
      inbox, pass, taskVars, sourceVars, vars
<1>2. ASSUME step = "await"
      PROVE  request \in Batches /\ UnderWay(request)
  <2>1. /\ request \in Batches /\ doing \in [session : Session, from : 0..MaxEvents, to : 0..MaxEvents]
        /\ \E from \in 0..MaxEvents : RunOf(request, doing.session, from, doing.from)
    BY <1>2 DEF SourceInv, HandShape
  <2> QED BY <2>1 DEF UnderWay
<1>3. ASSUME NEW b \in orphans
      PROVE  b \in Batches /\ UnderWay(b)
  BY DEF SourceInv, SourceTypeOK, IndexShape
<1> QED BY <1>1, <1>2, <1>3

LEMMA StoreInvStays ==
    ASSUME SourceInv, Next
    PROVE  StoreInv'
<1>1. StoreInv
  BY DEF SourceInv
<1>2. CASE UNCHANGED storeVars
  BY <1>1, <1>2, StoreStepInv
<1>3. ASSUME NEW b \in Batches, ApplyBatch(b) PROVE StoreInv'
  BY <1>1, <1>3, StoreStays
<1> QED BY <1>2, <1>3, Arrivals

\* Logs and cursors grow, and no cursor runs ahead of its log.
LEMMA LogsGrow ==
    ASSUME SourceInv, Next
    PROVE  /\ log_length' \in [Session -> 0..MaxEvents]
           /\ notices' \subseteq Session
           /\ \A s \in Session : /\ log_length[s] <= log_length'[s]
                                 /\ log_length'[s] # log_length[s] => s \in notices'
<1>1. log_length \in [Session -> 0..MaxEvents] /\ notices \subseteq Session /\ MaxEvents \in Nat
  BY Bounds DEF SourceInv, SourceTypeOK
<1>2. CASE UNCHANGED log_length /\ notices' \subseteq notices
  BY <1>1, <1>2
<1>3. ASSUME NEW t \in Session, AppendEvent(t)
      PROVE  /\ log_length' \in [Session -> 0..MaxEvents] /\ notices' \subseteq Session
             /\ \A s \in Session : /\ log_length[s] <= log_length'[s]
                                   /\ log_length'[s] # log_length[s] => s \in notices'
  BY <1>1, <1>3 DEF AppendEvent
<1>4. \/ UNCHANGED log_length /\ notices' \subseteq notices
      \/ \E t \in Session : AppendEvent(t)
  BY DEF Next, AppendEvent, Notify, NoticeIgnored, NoticeOverflows, NoticeBuffered, Overflow,
      RecordFailure, DisposedNotice, SourceStep, Start, Subscribe, BeginCorpus, ListSessions,
      ReadSourceStates, NextSession, PassOver, ReadSession, SendBatch, WatermarkExhausted,
      BatchAcknowledged, BatchRefused, DrainMore, DrainEmpty, GoLive, EndDrain, NextTask,
      StopsAtAssert, AssertActive, Restart, CallFails, ReceiptLost, Close, OrphanApplied,
      OrphanExpires, Rest, TaskThrows, TaskIs, TaskOver, PassForgotten, dshVars, outside, status,
      inbox, pass, taskVars, sourceVars, vars
<1> QED BY <1>2, <1>3, <1>4

LEMMA CursorsMove ==
    ASSUME SourceInv, Next, NEW s \in Session
    PROVE  /\ NextSeq(s) \in Nat /\ NextSeq(s)' \in Nat
           /\ NextSeq(s) <= NextSeq(s)' /\ NextSeq(s)' <= log_length'[s]
<1>1. StoreTypeOK /\ StoreTypeOK'
  BY StoreInvStays DEF SourceInv, StoreInv
<1>2. NextSeq(s) \in 0..MaxInteger /\ NextSeq(s)' \in 0..MaxInteger /\ MaxInteger \in Nat
  <2>1. NextSeq(s) \in 0..MaxInteger
    BY <1>1, NextSeqType
  <2>2. NextSeq(s)' \in 0..MaxInteger
    BY <1>1, MaxIntegerAssumption DEF StoreTypeOK, SessionRow, NextSeq
  <2> QED BY <2>1, <2>2, Bounds
<1>3. /\ NextSeq(s) <= log_length[s] /\ log_length[s] \in Nat
      /\ log_length'[s] \in Nat /\ log_length[s] <= log_length'[s]
  BY LogsGrow, Bounds DEF SourceInv, IndexShape, SourceTypeOK
<1>4. CASE UNCHANGED storeVars
  <2>1. NextSeq(s)' = NextSeq(s)
    BY <1>4 DEF storeVars, NextSeq
  <2> QED BY <1>2, <1>3, <2>1
<1>5. ASSUME NEW b \in Batches, UnderWay(b), ApplyBatch(b)
      PROVE  NextSeq(s) <= NextSeq(s)' /\ NextSeq(s)' <= log_length'[s]
  <2>1. PICK t \in Session, from \in 0..MaxEvents, to \in 0..MaxEvents : RunOf(b, t, from, to)
    BY <1>5 DEF UnderWay
  <2>2. /\ s # t => NextSeq(s)' = NextSeq(s)
        /\ s = t => NextSeq(s) <= NextSeq(s)' /\ (NextSeq(s)' = NextSeq(s) \/ NextSeq(s)' <= to)
    BY <1>5, <2>1, ApplyEffect DEF SourceInv
  <2>3. to <= log_length[t] /\ to \in Nat
    BY <2>1, Bounds DEF RunOf
  <2> QED BY <1>2, <1>3, <2>2, <2>3
<1> QED BY <1>2, <1>4, <1>5, Arrivals

----------------------------------------------------------------------------
(* Types                                                                   *)

\* #addBounded keeps a set within its bound.
LEMMA AddBounded ==
    ASSUME NEW set, IsFiniteSet(set), Cardinality(set) <= MaxBuffered, NEW s, ~Overflows(set, s)
    PROVE  IsFiniteSet(set \cup {s}) /\ Cardinality(set \cup {s}) <= MaxBuffered
<1>1. CASE s \in set
  <2>1. set \cup {s} = set
    BY <1>1
  <2> QED BY <2>1
<1>2. CASE s \notin set
  <2>1. Cardinality(set) \in Nat /\ MaxBuffered \in Nat
    BY FS_CardinalityType, Bounds
  <2>2. Cardinality(set) < MaxBuffered
    BY <1>2, <2>1 DEF Overflows
  <2>3. IsFiniteSet(set \cup {s}) /\ Cardinality(set \cup {s}) = Cardinality(set) + 1
    BY <1>2, FS_AddElement
  <2> QED BY <2>1, <2>2, <2>3
<1> QED BY <1>1, <1>2

LEMMA InboxTyped ==
    ASSUME SourceInv, Next
    PROVE  /\ buffered' \subseteq Session /\ IsFiniteSet(buffered') /\ Cardinality(buffered') <= MaxBuffered
           /\ disposed' \subseteq Session /\ IsFiniteSet(disposed') /\ Cardinality(disposed') <= MaxBuffered
<1>1. /\ buffered \subseteq Session /\ IsFiniteSet(buffered) /\ Cardinality(buffered) <= MaxBuffered
      /\ disposed \subseteq Session /\ IsFiniteSet(disposed) /\ Cardinality(disposed) <= MaxBuffered
      /\ MaxBuffered \in Nat
  BY Bounds DEF SourceInv, SourceTypeOK, PassShape
<1>2. IsFiniteSet({}) /\ Cardinality({}) = 0
  BY FS_EmptySet
<1>3. /\ \/ buffered' = buffered \/ buffered' = {}
         \/ \E s \in Session : ~Overflows(buffered, s) /\ buffered' = buffered \cup {s}
      /\ \/ disposed' = disposed \/ disposed' = {}
         \/ \E s \in Session : ~Overflows(disposed, s) /\ disposed' = disposed \cup {s}
         \/ disposed' = disposed \ todo'
  BY DEF Next, AppendEvent, Notify, NoticeIgnored, NoticeOverflows, NoticeBuffered, Overflow,
      RecordFailure, DisposedNotice, SourceStep, Start, Subscribe, BeginCorpus, ListSessions,
      ReadSourceStates, NextSession, PassOver, ReadSession, SendBatch, WatermarkExhausted,
      BatchAcknowledged, BatchRefused, DrainMore, DrainEmpty, GoLive, EndDrain, NextTask,
      StopsAtAssert, AssertActive, Restart, CallFails, ReceiptLost, Close, OrphanApplied,
      OrphanExpires, Rest, TaskThrows, TaskIs, TaskOver, PassForgotten, dshVars, outside, status,
      inbox, pass, taskVars, sourceVars, vars
<1>4. ASSUME NEW s \in Session, ~Overflows(buffered, s)
      PROVE  IsFiniteSet(buffered \cup {s}) /\ Cardinality(buffered \cup {s}) <= MaxBuffered
  BY <1>1, <1>4, AddBounded
<1>5. ASSUME NEW s \in Session, ~Overflows(disposed, s)
      PROVE  IsFiniteSet(disposed \cup {s}) /\ Cardinality(disposed \cup {s}) <= MaxBuffered
  BY <1>1, <1>5, AddBounded
<1>6. IsFiniteSet(disposed \ todo') /\ Cardinality(disposed \ todo') <= MaxBuffered
  <2>1. IsFiniteSet(disposed \ todo') /\ Cardinality(disposed \ todo') <= Cardinality(disposed)
    BY <1>1, FS_Subset
  <2>2. Cardinality(disposed) \in Nat /\ Cardinality(disposed \ todo') \in Nat
    BY <1>1, <2>1, FS_CardinalityType
  <2> QED BY <1>1, <2>1, <2>2
<1>7. buffered' \subseteq Session /\ IsFiniteSet(buffered') /\ Cardinality(buffered') <= MaxBuffered
  BY <1>1, <1>2, <1>3, <1>4
<1>8. disposed' \subseteq Session /\ IsFiniteSet(disposed') /\ Cardinality(disposed') <= MaxBuffered
  BY <1>1, <1>2, <1>3, <1>5, <1>6
<1> QED BY <1>7, <1>8

LEMMA OutsideTyped ==
    ASSUME SourceInv, Next
    PROVE  troubles' \in 0..MaxTroubles /\ orphans' \subseteq Batches
<1>1. troubles \in 0..MaxTroubles /\ orphans \subseteq Batches /\ MaxTroubles \in Nat
  BY Bounds DEF SourceInv, SourceTypeOK
<1>2. step = "await" => request \in Batches
  BY DEF SourceInv, HandShape
<1>3. troubles' = troubles \/ Trouble
  BY DEF Trouble, Next, AppendEvent, Notify, NoticeIgnored, NoticeOverflows, NoticeBuffered, Overflow,
      RecordFailure, DisposedNotice, SourceStep, Start, Subscribe, BeginCorpus, ListSessions,
      ReadSourceStates, NextSession, PassOver, ReadSession, SendBatch, WatermarkExhausted,
      BatchAcknowledged, BatchRefused, DrainMore, DrainEmpty, GoLive, EndDrain, NextTask,
      StopsAtAssert, AssertActive, Restart, CallFails, ReceiptLost, Close, OrphanApplied,
      OrphanExpires, Rest, TaskThrows, TaskIs, TaskOver, PassForgotten, dshVars, outside, status,
      inbox, pass, taskVars, sourceVars, vars
<1>4. orphans' \subseteq orphans \/ (step = "await" /\ orphans' = orphans \cup {request})
  BY DEF Next, AppendEvent, Notify, NoticeIgnored, NoticeOverflows, NoticeBuffered, Overflow,
      RecordFailure, DisposedNotice, SourceStep, Start, Subscribe, BeginCorpus, ListSessions,
      ReadSourceStates, NextSession, PassOver, ReadSession, SendBatch, WatermarkExhausted,
      BatchAcknowledged, BatchRefused, DrainMore, DrainEmpty, GoLive, EndDrain, NextTask,
      StopsAtAssert, AssertActive, Restart, CallFails, ReceiptLost, Close, OrphanApplied,
      OrphanExpires, Rest, TaskThrows, TaskIs, TaskOver, PassForgotten, dshVars, outside, status,
      inbox, pass, taskVars, sourceVars, vars
<1>5. troubles' \in 0..MaxTroubles
  BY <1>1, <1>3 DEF Trouble
<1> QED BY <1>1, <1>2, <1>4, <1>5

LEMMA PassTyped ==
    ASSUME SourceInv, Next
    PROVE  todo' \subseteq Session /\ DOMAIN durable' \subseteq Session
<1>1. todo \subseteq Session /\ DOMAIN durable \subseteq Session /\ buffered \subseteq Session
  BY DEF SourceInv, SourceTypeOK
<1>2. todo' \subseteq todo \/ todo' = {s \in Session : log_length[s] > 0} \/ todo' = buffered
  BY DEF Next, AppendEvent, Notify, NoticeIgnored, NoticeOverflows, NoticeBuffered, Overflow,
      RecordFailure, DisposedNotice, SourceStep, Start, Subscribe, BeginCorpus, ListSessions,
      ReadSourceStates, NextSession, PassOver, ReadSession, SendBatch, WatermarkExhausted,
      BatchAcknowledged, BatchRefused, DrainMore, DrainEmpty, GoLive, EndDrain, NextTask,
      StopsAtAssert, AssertActive, Restart, CallFails, ReceiptLost, Close, OrphanApplied,
      OrphanExpires, Rest, TaskThrows, TaskIs, TaskOver, PassForgotten, dshVars, outside, status,
      inbox, pass, taskVars, sourceVars, vars
<1>3. durable' = durable \/ durable' = NoCursors \/ DOMAIN durable' = todo
  BY DEF Next, AppendEvent, Notify, NoticeIgnored, NoticeOverflows, NoticeBuffered, Overflow,
      RecordFailure, DisposedNotice, SourceStep, Start, Subscribe, BeginCorpus, ListSessions,
      ReadSourceStates, NextSession, PassOver, ReadSession, SendBatch, WatermarkExhausted,
      BatchAcknowledged, BatchRefused, DrainMore, DrainEmpty, GoLive, EndDrain, NextTask,
      StopsAtAssert, AssertActive, Restart, CallFails, ReceiptLost, Close, OrphanApplied,
      OrphanExpires, Rest, TaskThrows, TaskIs, TaskOver, PassForgotten, dshVars, outside, status,
      inbox, pass, taskVars, sourceVars, vars
<1>4. DOMAIN NoCursors = {}
  BY DEF NoCursors
<1> QED BY <1>1, <1>2, <1>3, <1>4

LEMMA WatermarkMoves ==
    ASSUME SourceInv, Next
    PROVE  watermark' \in 0..MaxInteger /\ watermark' <= meta'.watermark
<1>1. /\ watermark \in 0..MaxInteger /\ watermark <= meta.watermark
      /\ meta.watermark \in 0..MaxInteger /\ MaxInteger \in Nat
  BY Bounds DEF SourceInv, SourceTypeOK, IndexShape, StoreTypeOK
<1>2. meta'.watermark \in 0..MaxInteger
  BY StoreInvStays DEF StoreInv, StoreTypeOK
<1>3. meta.watermark <= meta'.watermark
  <2>1. CASE UNCHANGED storeVars
    BY <1>1, <2>1 DEF storeVars
  <2>2. ASSUME NEW b \in Batches, ApplyBatch(b) PROVE meta.watermark <= meta'.watermark
    BY <2>2, ReceiptEffect DEF SourceInv
  <2> QED BY <2>1, <2>2, Arrivals
<1>4. CASE watermark' \in {watermark, 0, meta.watermark}
  BY <1>1, <1>2, <1>3, <1>4
<1>5. CASE step = "await" /\ ~Refused(request) /\ ApplyBatch(request)
           /\ watermark' = Outcome(request).watermark
  <2>1. request \in Batches
    BY <1>5 DEF SourceInv, HandShape
  <2> QED BY <1>5, <2>1, ReceiptEffect DEF SourceInv
<1>6. \/ watermark' \in {watermark, 0, meta.watermark}
      \/ step = "await" /\ ~Refused(request) /\ ApplyBatch(request)
                        /\ watermark' = Outcome(request).watermark
  BY DEF Acknowledged, SourceState, Next, AppendEvent, Notify, NoticeIgnored, NoticeOverflows, NoticeBuffered, Overflow,
      RecordFailure, DisposedNotice, SourceStep, Start, Subscribe, BeginCorpus, ListSessions,
      ReadSourceStates, NextSession, PassOver, ReadSession, SendBatch, WatermarkExhausted,
      BatchAcknowledged, BatchRefused, DrainMore, DrainEmpty, GoLive, EndDrain, NextTask,
      StopsAtAssert, AssertActive, Restart, CallFails, ReceiptLost, Close, OrphanApplied,
      OrphanExpires, Rest, TaskThrows, TaskIs, TaskOver, PassForgotten, dshVars, outside, status,
      inbox, pass, taskVars, sourceVars, vars
<1> QED BY <1>4, <1>5, <1>6

----------------------------------------------------------------------------
(* The phases                                                              *)

LEMMA ControlTyped ==
    ASSUME SourceInv, Next
    PROVE  /\ phase' \in {"idle", "subscribing", "listing", "scanning", "draining", "live",
                          "error", "closing"}
           /\ paused' \in BOOLEAN /\ subscribed' \in BOOLEAN
           /\ task' \in {"none", "corpus", "drain"}
           /\ step' \in {"idle", "subscribe", "begin", "list", "states", "next", "read", "commit",
                         "await", "drain", "drained"}
<1>1. /\ phase \in {"idle", "subscribing", "listing", "scanning", "draining", "live",
                    "error", "closing"}
      /\ paused \in BOOLEAN /\ subscribed \in BOOLEAN
      /\ task \in {"none", "corpus", "drain"}
      /\ step \in {"idle", "subscribe", "begin", "list", "states", "next", "read", "commit",
                   "await", "drain", "drained"}
  BY DEF SourceInv, SourceTypeOK
<1>2. phase' \in {phase, "idle", "subscribing", "listing", "scanning", "draining", "live",
                  "error", "closing"}
  BY DEF Next, AppendEvent, Notify, NoticeIgnored, NoticeOverflows, NoticeBuffered, Overflow,
      RecordFailure, DisposedNotice, SourceStep, Start, Subscribe, BeginCorpus, ListSessions,
      ReadSourceStates, NextSession, PassOver, ReadSession, SendBatch, WatermarkExhausted,
      BatchAcknowledged, BatchRefused, DrainMore, DrainEmpty, GoLive, EndDrain, NextTask,
      StopsAtAssert, AssertActive, Restart, CallFails, ReceiptLost, Close, OrphanApplied,
      OrphanExpires, Rest, TaskThrows, TaskIs, TaskOver, PassForgotten, dshVars, outside, status,
      inbox, pass, taskVars, sourceVars, vars
<1>3. (paused' = paused \/ paused' \in BOOLEAN) /\ (subscribed' = subscribed \/ subscribed' \in BOOLEAN)
  BY DEF Next, AppendEvent, Notify, NoticeIgnored, NoticeOverflows, NoticeBuffered, Overflow,
      RecordFailure, DisposedNotice, SourceStep, Start, Subscribe, BeginCorpus, ListSessions,
      ReadSourceStates, NextSession, PassOver, ReadSession, SendBatch, WatermarkExhausted,
      BatchAcknowledged, BatchRefused, DrainMore, DrainEmpty, GoLive, EndDrain, NextTask,
      StopsAtAssert, AssertActive, Restart, CallFails, ReceiptLost, Close, OrphanApplied,
      OrphanExpires, Rest, TaskThrows, TaskIs, TaskOver, PassForgotten, dshVars, outside, status,
      inbox, pass, taskVars, sourceVars, vars
<1>4. task' \in {task, "none", "corpus", "drain"}
  BY DEF Next, AppendEvent, Notify, NoticeIgnored, NoticeOverflows, NoticeBuffered, Overflow,
      RecordFailure, DisposedNotice, SourceStep, Start, Subscribe, BeginCorpus, ListSessions,
      ReadSourceStates, NextSession, PassOver, ReadSession, SendBatch, WatermarkExhausted,
      BatchAcknowledged, BatchRefused, DrainMore, DrainEmpty, GoLive, EndDrain, NextTask,
      StopsAtAssert, AssertActive, Restart, CallFails, ReceiptLost, Close, OrphanApplied,
      OrphanExpires, Rest, TaskThrows, TaskIs, TaskOver, PassForgotten, dshVars, outside, status,
      inbox, pass, taskVars, sourceVars, vars
<1>5. step' \in {step, "idle", "subscribe", "begin", "list", "states", "next", "read", "commit",
                 "await", "drain", "drained"}
  BY DEF Next, AppendEvent, Notify, NoticeIgnored, NoticeOverflows, NoticeBuffered, Overflow,
      RecordFailure, DisposedNotice, SourceStep, Start, Subscribe, BeginCorpus, ListSessions,
      ReadSourceStates, NextSession, PassOver, ReadSession, SendBatch, WatermarkExhausted,
      BatchAcknowledged, BatchRefused, DrainMore, DrainEmpty, GoLive, EndDrain, NextTask,
      StopsAtAssert, AssertActive, Restart, CallFails, ReceiptLost, Close, OrphanApplied,
      OrphanExpires, Rest, TaskThrows, TaskIs, TaskOver, PassForgotten, dshVars, outside, status,
      inbox, pass, taskVars, sourceVars, vars
<1>6. paused' \in BOOLEAN /\ subscribed' \in BOOLEAN
  BY <1>1, <1>3
<1> QED BY <1>1, <1>2, <1>4, <1>5, <1>6

LEMMA ControlStep ==
    ASSUME SourceInv, Next
    PROVE  ControlShape'
<1>1. /\ ControlShape /\ paused \in BOOLEAN /\ subscribed \in BOOLEAN
      /\ task \in {"none", "corpus", "drain"}
      /\ step \in {"idle", "subscribe", "begin", "list", "states", "next", "read", "commit",
                   "await", "drain", "drained"}
  BY DEF SourceInv, SourceTypeOK
<1>2. CASE UNCHANGED <<status, task, step>>
  BY <1>1, <1>2 DEF ControlShape, status
<1>3. CASE TaskThrows
  BY <1>1, <1>3 DEF ControlShape, TaskThrows, TaskOver, TaskIs, RecordFailure, status
<1>4. CASE Overflow /\ subscribed
  BY <1>1, <1>4 DEF ControlShape, Overflow, RecordFailure, taskVars
<1>5. CASE Start \/ Subscribe
  BY <1>1, <1>5 DEF ControlShape, Start, Subscribe, TaskIs
<1>6. CASE BeginCorpus \/ ListSessions
  BY <1>1, <1>6 DEF ControlShape, BeginCorpus, AssertActive, ListSessions, TaskIs
<1>7. CASE ReadSourceStates \/ (\E s \in Session : NextSession(s)) \/ ReadSession
  BY <1>1, <1>3, <1>7 DEF ControlShape, ReadSourceStates, NextSession, ReadSession, TaskIs, status
<1>8. CASE PassOver
  BY <1>1, <1>8 DEF ControlShape, PassOver, TaskIs
<1>9. CASE SendBatch \/ BatchAcknowledged
  BY <1>1, <1>9 DEF ControlShape, SendBatch, BatchAcknowledged, TaskIs, status
<1>10. CASE DrainMore \/ DrainEmpty
  BY <1>1, <1>10 DEF ControlShape, DrainMore, DrainEmpty, TaskIs, status
<1>11. CASE GoLive
  BY <1>1, <1>11 DEF ControlShape, GoLive, AssertActive, NextTask, TaskOver, TaskIs
<1>12. CASE EndDrain
  BY <1>1, <1>12 DEF ControlShape, EndDrain, NextTask, TaskOver, TaskIs, status
<1>13. CASE Close
  BY <1>1, <1>13 DEF ControlShape, Close, taskVars
<1>14. CASE Restart
  BY <1>1, <1>14 DEF ControlShape, Restart, TaskOver, TaskIs
<1>15. CASE \E s \in Session : NoticeBuffered(s)
  BY <1>1, <1>15 DEF ControlShape, NoticeBuffered, TaskIs, status
<1>16. \/ UNCHANGED <<status, task, step>> \/ TaskThrows \/ (Overflow /\ subscribed)
       \/ Start \/ Subscribe \/ BeginCorpus \/ ListSessions
       \/ ReadSourceStates \/ (\E s \in Session : NextSession(s)) \/ ReadSession \/ PassOver
       \/ SendBatch \/ BatchAcknowledged \/ DrainMore \/ DrainEmpty \/ GoLive \/ EndDrain
       \/ Close \/ Restart \/ (\E s \in Session : NoticeBuffered(s))
  BY DEF Next, AppendEvent, Notify, NoticeIgnored, NoticeOverflows, DisposedNotice, SourceStep,
      WatermarkExhausted, BatchRefused, NextTask, StopsAtAssert, AssertActive, CallFails,
      ReceiptLost, OrphanApplied, OrphanExpires, Rest, TaskIs, TaskOver, PassForgotten, dshVars,
      outside, status, inbox, pass, taskVars, sourceVars, vars
<1> QED
  BY <1>2, <1>3, <1>4, <1>5, <1>6, <1>7, <1>8, <1>9, <1>10, <1>11, <1>12, <1>13, <1>14, <1>15, <1>16

----------------------------------------------------------------------------
(* What a task holds                                                       *)

\* The cursors read for a pass are those of the store.
LEMMA StatesRead ==
    ASSUME SourceInv, ReadSourceStates
    PROVE  \/ TaskThrows
           \/ durable' = [s \in todo |-> NextSeq(s)] /\ UNCHANGED <<todo, storeVars>> /\ step' = "next"
<1>1. CASE Backwards(SourceState(todo).watermark)
  BY <1>1 DEF ReadSourceStates
<1>2. CASE ~Backwards(SourceState(todo).watermark)
  <2>1. /\ durable' = [s \in todo |-> IF s \in DOMAIN SourceState(todo).sessions
                                      THEN SourceState(todo).sessions[s].next_seq ELSE 0]
        /\ UNCHANGED <<todo, storeVars>> /\ step' = "next"
    BY <1>2 DEF ReadSourceStates, TaskIs, outside
  <2>2. SourceState(todo).sessions = [s \in todo \cap DOMAIN sessions |-> sessions[s]]
    BY DEF SourceState
  <2>3. durable' = [s \in todo |-> NextSeq(s)]
    BY <2>1, <2>2 DEF NextSeq
  <2> QED BY <2>1, <2>3
<1> QED BY <1>1, <1>2

LEMMA PassStep ==
    ASSUME SourceInv, Next
    PROVE  PassShape'
<1>1. /\ PassShape /\ DOMAIN durable \subseteq Session /\ todo \subseteq Session
      /\ log_length \in [Session -> 0..MaxEvents] /\ MaxEvents \in Nat
      /\ \A s \in Session : NextSeq(s) <= log_length[s]
  BY Bounds DEF SourceInv, SourceTypeOK, IndexShape
<1>2. \A s \in Session : NextSeq(s) \in Nat /\ NextSeq(s)' \in Nat /\ NextSeq(s) <= NextSeq(s)'
  BY CursorsMove
<1>3. \A s \in Session : NextSeq(s) \in 0..MaxEvents
  BY <1>1, <1>2
<1>4. \/ durable' = durable
      \/ durable' = NoCursors
      \/ durable' = [s \in todo |-> NextSeq(s)]
  <2>1. durable' = durable \/ durable' = NoCursors \/ ReadSourceStates
    BY DEF Next, AppendEvent, Notify, NoticeIgnored, NoticeOverflows, NoticeBuffered, Overflow,
        RecordFailure, DisposedNotice, SourceStep, Start, Subscribe, BeginCorpus, ListSessions,
        NextSession, PassOver, ReadSession, SendBatch, WatermarkExhausted, BatchAcknowledged,
        BatchRefused, DrainMore, DrainEmpty, GoLive, EndDrain, NextTask, StopsAtAssert,
        AssertActive, Restart, CallFails, ReceiptLost, Close, OrphanApplied, OrphanExpires, Rest,
        TaskThrows, TaskIs, TaskOver, PassForgotten, dshVars, outside, status, inbox, pass,
        taskVars, sourceVars, vars
  <2>2. TaskThrows => durable' = NoCursors
    BY DEF TaskThrows, PassForgotten
  <2> QED BY <2>1, <2>2, StatesRead
<1>5. \A s \in DOMAIN durable' : durable'[s] \in 0..MaxEvents /\ durable'[s] <= NextSeq(s)'
  <2>1. CASE durable' = durable
    BY <1>1, <1>2, <2>1 DEF PassShape
  <2>2. CASE durable' = NoCursors
    BY <2>2 DEF NoCursors
  <2>3. CASE durable' = [s \in todo |-> NextSeq(s)]
    <3>1. DOMAIN durable' = todo /\ \A s \in todo : durable'[s] = NextSeq(s)
      BY <2>3
    <3> QED BY <1>1, <1>2, <1>3, <3>1
  <2> QED BY <1>4, <2>1, <2>2, <2>3
<1>6. step' \in {"next", "read", "commit", "await"} => todo' \subseteq DOMAIN durable'
  <2>1. \/ step' \notin {"next", "read", "commit", "await"}
        \/ step \in {"next", "read", "commit", "await"} /\ todo' \subseteq todo /\ durable' = durable
        \/ ReadSourceStates
    BY DEF Next, AppendEvent, Notify, NoticeIgnored, NoticeOverflows, NoticeBuffered, Overflow,
        RecordFailure, DisposedNotice, SourceStep, Start, Subscribe, BeginCorpus, ListSessions,
        NextSession, PassOver, ReadSession, SendBatch, WatermarkExhausted, BatchAcknowledged,
        BatchRefused, DrainMore, DrainEmpty, GoLive, EndDrain, NextTask, StopsAtAssert,
        AssertActive, Restart, CallFails, ReceiptLost, Close, OrphanApplied, OrphanExpires, Rest,
        TaskThrows, TaskIs, TaskOver, PassForgotten, dshVars, outside, status, inbox, pass,
        taskVars, sourceVars, vars
  <2>2. ReadSourceStates =>
            step' = "idle" \/ (todo' = todo /\ durable' = [s \in todo |-> NextSeq(s)])
    BY StatesRead DEF TaskThrows, TaskOver, TaskIs
  <2> QED BY <1>1, <2>1, <2>2 DEF PassShape
<1> QED BY <1>5, <1>6, InboxTyped DEF PassShape

\* A run stays a run as the logs grow.
LEMMA RunStays ==
    ASSUME SourceInv, Next, NEW b, NEW s \in Session, NEW from \in 0..MaxEvents,
           NEW to \in 0..MaxEvents, RunOf(b, s, from, to)
    PROVE  to <= log_length'[s] /\ from < to /\ \E w \in 1..MaxInteger : b = BatchOf(s, from, to, w)
<1>1. log_length[s] \in 0..MaxEvents /\ log_length'[s] \in 0..MaxEvents /\ MaxEvents \in Nat
  BY LogsGrow, Bounds DEF SourceInv, SourceTypeOK
<1>2. log_length[s] <= log_length'[s]
  BY LogsGrow
<1> QED BY <1>1, <1>2 DEF RunOf

LEMMA HandStays ==
    ASSUME SourceInv, Next, UNCHANGED <<step, doing, request>>
    PROVE  HandShape'
<1>1. HandShape
  BY DEF SourceInv
<1>2. CASE step \notin {"read", "commit", "await"}
  BY <1>2 DEF HandShape
<1>3. CASE step \in {"read", "commit", "await"}
  <2>1. doing \in [session : Session, from : 0..MaxEvents, to : 0..MaxEvents]
    BY <1>1, <1>3 DEF HandShape
  <2> DEFINE s == doing.session
  <2>2. s \in Session /\ doing.from \in 0..MaxEvents /\ doing.to \in 0..MaxEvents
    BY <2>1
  <2>3. /\ log_length[s] \in Nat /\ log_length'[s] \in Nat /\ log_length[s] <= log_length'[s]
        /\ MaxEvents \in Nat
    BY <2>2, LogsGrow, Bounds DEF SourceInv, SourceTypeOK
  <2>5. step = "read" => doing.from <= NextSeq(s)'
    <3>1. PICK t \in Session : t = doing.session /\ t = doing'.session
      BY <2>2
    <3>2. step = "read" => doing.from <= NextSeq(t)
      BY <1>1, <3>1 DEF HandShape
    <3>3. NextSeq(t) \in Nat /\ NextSeq(t)' \in Nat /\ NextSeq(t) <= NextSeq(t)'
      BY CursorsMove
    <3>4. step = "read" => doing.from <= NextSeq(t)'
      BY <2>2, <2>3, <3>2, <3>3
    <3> QED BY <3>1, <3>4 DEF NextSeq
  <2>6. step \in {"commit", "await"} => doing.to <= log_length'[s]
    BY <1>1, <2>2, <2>3 DEF HandShape
  <2>7. ASSUME step = "await"
        PROVE  /\ request \in Batches /\ doing.from <= doing.to
               /\ \E from \in 0..MaxEvents :
                     /\ doing.from <= log_length'[s] /\ from < doing.from
                     /\ \E w \in 1..MaxInteger : request = BatchOf(s, from, doing.from, w)
    <3>1. PICK from \in 0..MaxEvents : RunOf(request, s, from, doing.from)
      BY <1>1, <2>7 DEF HandShape
    <3>2. /\ doing.from <= log_length'[s] /\ from < doing.from
          /\ \E w \in 1..MaxInteger : request = BatchOf(s, from, doing.from, w)
      BY <2>2, <3>1, RunStays
    <3>3. request \in Batches /\ doing.from <= doing.to
      BY <1>1, <2>7 DEF HandShape
    <3> QED BY <3>2, <3>3
  <2>8. step = "commit" => doing.from < doing.to
    BY <1>1 DEF HandShape
  <2>9. (step = "await")' => \E from \in 0..MaxEvents : RunOf(request, doing.session, from, doing.from)'
    BY <2>7 DEF RunOf, BatchOf, Projected
  <2> QED BY <2>1, <2>2, <2>5, <2>6, <2>7, <2>8, <2>9 DEF HandShape, NextSeq
<1> QED BY <1>2, <1>3

LEMMA HandStep ==
    ASSUME SourceInv, Next
    PROVE  HandShape'
<1>1. /\ HandShape /\ PassShape /\ todo \subseteq Session /\ MaxEvents \in Nat
      /\ log_length \in [Session -> 0..MaxEvents]
      /\ watermark \in 0..MaxInteger /\ MaxInteger \in Nat
      /\ MaxChunk \in Nat \ {0}
  BY Bounds DEF SourceInv, SourceTypeOK
<1>2. CASE step' \notin {"read", "commit", "await"}
  BY <1>2 DEF HandShape
<1>3. CASE UNCHANGED <<step, doing, request>>
  BY <1>3, HandStays
<1>4. ASSUME NEW s \in Session, NextSession(s)
      PROVE  HandShape'
  <2>1. /\ step = "next" /\ s \in todo /\ step' = "read"
        /\ doing' = [session |-> s, from |-> durable[s], to |-> durable[s]]
        /\ UNCHANGED storeVars
    BY <1>4 DEF NextSession, TaskIs, outside
  <2>2. durable[s] \in 0..MaxEvents /\ durable[s] <= NextSeq(s)
    BY <1>1, <2>1 DEF PassShape
  <2>3. /\ doing' \in [session : Session, from : 0..MaxEvents, to : 0..MaxEvents]
        /\ doing'.session = s /\ doing'.from = durable[s]
    BY <2>1, <2>2
  <2>4. (doing.from <= NextSeq(doing.session))'
    BY <2>1, <2>2, <2>3 DEF NextSeq, storeVars
  <2> QED BY <2>1, <2>3, <2>4 DEF HandShape
<1>5. CASE ReadSession /\ step' = "commit"
  <2> DEFINE to == ProjectedLength(doing.session)
  <2>1. /\ step = "read" /\ doing' = [doing EXCEPT !.to = to] /\ doing.from < to
        /\ UNCHANGED log_length
    BY <1>5 DEF ReadSession, TaskThrows, TaskOver, TaskIs, outside, dshVars
  <2>2. doing \in [session : Session, from : 0..MaxEvents, to : 0..MaxEvents]
    BY <1>1, <2>1 DEF HandShape
  <2>3. to \in 0..MaxEvents /\ to <= log_length[doing.session]
    BY <1>1, <2>2 DEF ProjectedLength
  <2> HIDE DEF to
  <2>4. /\ doing' \in [session : Session, from : 0..MaxEvents, to : 0..MaxEvents]
        /\ doing'.session = doing.session /\ doing'.from = doing.from /\ doing'.to = to
    BY <2>1, <2>2, <2>3
  <2> QED BY <1>5, <2>1, <2>3, <2>4 DEF HandShape
<1>6. CASE SendBatch
  <2>1. PICK n \in 1..MaxChunk :
            /\ doing.from + n <= doing.to
            /\ request' = BatchOf(doing.session, doing.from, doing.from + n, watermark + 1)
            /\ doing' = [doing EXCEPT !.from = @ + n]
    BY <1>6 DEF SendBatch
  <2>2. step = "commit" /\ step' = "await" /\ watermark + 1 <= MaxInteger /\ UNCHANGED log_length
    BY <1>6 DEF SendBatch, TaskIs, outside, dshVars
  <2>3. /\ doing \in [session : Session, from : 0..MaxEvents, to : 0..MaxEvents]
        /\ doing.to <= log_length[doing.session]
    BY <1>1, <2>2 DEF HandShape
  <2> DEFINE s == doing.session
             from == doing.from
             to == doing.from + n
  <2>4. /\ s \in Session /\ from \in 0..MaxEvents /\ doing.to \in 0..MaxEvents
        /\ log_length[s] \in 0..MaxEvents
    BY <1>1, <2>3
  <2>5. to \in 0..MaxEvents /\ from < to /\ to - from <= MaxChunk /\ to <= doing.to
    BY <1>1, <2>1, <2>4
  <2>6. watermark + 1 \in 1..MaxInteger
    BY <1>1, <2>2
  <2>7. request' = BatchOf(s, from, to, watermark + 1)
    BY <2>1
  <2>8. /\ doing' \in [session : Session, from : 0..MaxEvents, to : 0..MaxEvents]
        /\ doing'.session = s /\ doing'.from = to /\ doing'.to = doing.to
    BY <2>1, <2>3, <2>5
  <2> HIDE DEF s, from, to
  <2>9. request' \in Batches
    BY <2>4, <2>5, <2>6, <2>7, ProjectionAssumption
  <2>10. doing.to <= log_length[s]
    BY <2>3 DEF s
  <2>11. to <= log_length[s]
    BY <1>1, <2>4, <2>5, <2>10
  <2>12. \E f \in 0..MaxEvents : RunOf(request, doing.session, f, doing.from)'
    <3>1. request' = BatchOf(doing'.session, from, doing'.from, watermark + 1)
      BY <2>7, <2>8
    <3>2. \E w \in 1..MaxInteger : request' = BatchOf(doing'.session, from, doing'.from, w)
      BY <2>6, <3>1
    <3>3. from < doing'.from /\ doing'.from <= log_length'[doing'.session]
      BY <2>2, <2>5, <2>8, <2>11
    <3>4. from \in 0..MaxEvents
      BY <2>4
    <3>5. \E f \in 0..MaxEvents : /\ f < doing'.from /\ doing'.from <= log_length'[doing'.session]
                                  /\ \E w \in 1..MaxInteger :
                                        request' = BatchOf(doing'.session, f, doing'.from, w)
      BY <3>2, <3>3, <3>4
    <3> QED BY <3>5 DEF RunOf, BatchOf, Projected
  <2> QED BY <2>2, <2>5, <2>8, <2>9, <2>10, <2>12 DEF HandShape
<1>7. CASE BatchAcknowledged /\ step' = "commit"
  <2>1. /\ step = "await" /\ UNCHANGED <<doing, log_length>> /\ doing.from < doing.to
    BY <1>7 DEF BatchAcknowledged, TaskIs, dshVars, pass
  <2> QED BY <1>1, <1>7, <2>1 DEF HandShape
<1>8. \/ step' \notin {"read", "commit", "await"} \/ UNCHANGED <<step, doing, request>>
      \/ (\E s \in Session : NextSession(s)) \/ (ReadSession /\ step' = "commit")
      \/ SendBatch \/ (BatchAcknowledged /\ step' = "commit")
  BY DEF Next, AppendEvent, Notify, NoticeIgnored, NoticeOverflows, NoticeBuffered, Overflow,
      RecordFailure, DisposedNotice, SourceStep, Start, Subscribe, BeginCorpus, ListSessions,
      ReadSourceStates, PassOver, ReadSession, WatermarkExhausted, BatchAcknowledged, BatchRefused,
      DrainMore, DrainEmpty, GoLive, EndDrain, NextTask, StopsAtAssert, AssertActive, Restart,
      CallFails, ReceiptLost, Close, OrphanApplied, OrphanExpires, Rest, TaskThrows, TaskIs,
      TaskOver, PassForgotten, dshVars, outside, status, inbox, pass, taskVars, sourceVars, vars
<1> QED BY <1>2, <1>3, <1>4, <1>5, <1>6, <1>7, <1>8

----------------------------------------------------------------------------
(* What the index holds                                                    *)

LEMMA DocumentsAreProjected ==
    ASSUME SourceInv, Next
    PROVE  \A d \in documents' : d = Projected(d.session, d.seq)
<1>1. \A d \in documents : d = Projected(d.session, d.seq)
  BY DEF SourceInv, IndexShape
<1>2. CASE UNCHANGED storeVars
  BY <1>1, <1>2 DEF storeVars
<1>3. ASSUME NEW b \in Batches, UnderWay(b), ApplyBatch(b)
      PROVE  \A d \in documents' : d = Projected(d.session, d.seq)
  <2>1. PICK s \in Session, from \in 0..MaxEvents, to \in 0..MaxEvents : RunOf(b, s, from, to)
    BY <1>3 DEF UnderWay
  <2>2. \A d \in b.documents : d = Projected(d.session, d.seq)
    BY <2>1, RunFacts
  <2>3. \A d \in documents' : d \in documents \/ d \in b.documents
    BY <1>3 DEF ApplyBatch, CommitBatch, Commit, Inserted, ReplayBatch, RefuseBatch, storeVars
  <2> QED BY <1>1, <2>2, <2>3
<1> QED BY <1>2, <1>3, Arrivals

LEMMA OrphansAreRuns ==
    ASSUME SourceInv, Next, NEW b \in orphans'
    PROVE  UnderWay(b)'
<1>1. UnderWay(b)
  <2>1. orphans' \subseteq orphans \/ (step = "await" /\ orphans' = orphans \cup {request})
    BY DEF Next, AppendEvent, Notify, NoticeIgnored, NoticeOverflows, NoticeBuffered, Overflow,
        RecordFailure, DisposedNotice, SourceStep, Start, Subscribe, BeginCorpus, ListSessions,
        ReadSourceStates, NextSession, PassOver, ReadSession, SendBatch, WatermarkExhausted,
        BatchAcknowledged, BatchRefused, DrainMore, DrainEmpty, GoLive, EndDrain, NextTask,
        StopsAtAssert, AssertActive, Restart, CallFails, ReceiptLost, Close, OrphanApplied,
        OrphanExpires, Rest, TaskThrows, TaskIs, TaskOver, PassForgotten, dshVars, outside, status,
        inbox, pass, taskVars, sourceVars, vars
  <2>2. \A c \in orphans : UnderWay(c)
    BY DEF SourceInv, IndexShape
  <2>3. ASSUME step = "await" PROVE UnderWay(request)
    <3>1. /\ doing \in [session : Session, from : 0..MaxEvents, to : 0..MaxEvents]
          /\ \E from \in 0..MaxEvents : RunOf(request, doing.session, from, doing.from)
      BY <2>3 DEF SourceInv, HandShape
    <3> QED BY <3>1 DEF UnderWay
  <2> QED BY <2>1, <2>2, <2>3
<1>2. PICK s \in Session, from \in 0..MaxEvents, to \in 0..MaxEvents : RunOf(b, s, from, to)
  BY <1>1 DEF UnderWay
<1>3. to <= log_length'[s] /\ from < to /\ \E w \in 1..MaxInteger : b = BatchOf(s, from, to, w)
  BY <1>2, RunStays
<1>4. RunOf(b, s, from, to)'
  BY <1>3 DEF RunOf
<1> QED BY <1>4 DEF UnderWay

LEMMA IndexStep ==
    ASSUME SourceInv, Next
    PROVE  IndexShape'
<1>1. \A d \in documents' : d = Projected(d.session, d.seq)
  BY DocumentsAreProjected
<1>2. \A s \in Session : NextSeq(s)' <= log_length'[s]
  BY CursorsMove
<1>3. \A b \in orphans' : UnderWay(b)'
  BY OrphansAreRuns
<1>4. watermark' <= meta'.watermark
  BY WatermarkMoves
<1>5. \A d \in documents' : (d = Projected(d.session, d.seq))'
  BY <1>1 DEF Projected
<1> QED BY <1>2, <1>3, <1>4, <1>5 DEF IndexShape

----------------------------------------------------------------------------
(* Nothing is forgotten                                                    *)

\* A task that throws leaves the source paused.
LEMMA ThrowsPause ==
    ASSUME SourceInv, TaskThrows
    PROVE  paused' /\ step' = "idle" /\ todo' = {} /\ phase' # "live"
<1>1. paused \in BOOLEAN /\ (paused => phase # "live")
  BY DEF SourceInv, SourceTypeOK, ControlShape
<1>2. step' = "idle" /\ todo' = {}
  BY DEF TaskThrows, TaskOver, TaskIs, PassForgotten
<1>3. CASE paused
  BY <1>1, <1>2, <1>3 DEF TaskThrows, status
<1>4. CASE ~paused
  BY <1>2, <1>4 DEF TaskThrows, RecordFailure
<1> QED BY <1>2, <1>3, <1>4

LEMMA FollowingStays ==
    ASSUME SourceInv, Next, Following'
    PROVE  Following \/ ListSessions
<1>1. /\ ControlShape /\ paused \in BOOLEAN
  BY DEF SourceInv, SourceTypeOK
<1>2. ~TaskThrows /\ ~Restart /\ ~Close /\ ~Overflow
  <2>1. ~TaskThrows
    BY ThrowsPause DEF Following
  <2>2. ~Close /\ ~Overflow
    BY DEF Close, Overflow, RecordFailure, Following
  <2>3. ~Restart
    BY DEF Restart, TaskOver, TaskIs, Following
  <2> QED BY <2>1, <2>2, <2>3
<1>3. CASE UNCHANGED <<status, task, step>>
  BY <1>3 DEF Following, status
<1>4. CASE Start \/ Subscribe \/ BeginCorpus
  BY <1>1, <1>4 DEF Following, ControlShape, Start, Subscribe, BeginCorpus, TaskIs
<1>5. CASE step \notin {"idle", "subscribe", "begin", "list"} /\ UNCHANGED <<paused, task>>
           /\ (phase' = "live" => phase = "live" \/ task = "corpus")
  BY <1>1, <1>5 DEF Following, ControlShape
<1>6. CASE phase = "live" /\ UNCHANGED paused
  BY <1>1, <1>6 DEF Following, ControlShape
<1>7. CASE GoLive \/ EndDrain
  BY <1>1, <1>7 DEF Following, ControlShape, GoLive, AssertActive, EndDrain, NextTask, TaskOver,
                    TaskIs, status
<1>8. \/ UNCHANGED <<status, task, step>> \/ Start \/ Subscribe \/ BeginCorpus \/ ListSessions
      \/ (step \notin {"idle", "subscribe", "begin", "list"} /\ UNCHANGED <<paused, task>>
          /\ (phase' = "live" => phase = "live" \/ task = "corpus"))
      \/ (phase = "live" /\ UNCHANGED paused) \/ GoLive \/ EndDrain
  BY <1>2 DEF Next, AppendEvent, Notify, NoticeIgnored, NoticeOverflows, NoticeBuffered, RecordFailure,
      DisposedNotice, SourceStep, ReadSourceStates, NextSession, PassOver, ReadSession, SendBatch,
      WatermarkExhausted, BatchAcknowledged, BatchRefused, DrainMore, DrainEmpty, NextTask,
      StopsAtAssert, AssertActive, CallFails, ReceiptLost, OrphanApplied, OrphanExpires, Rest,
      TaskIs, TaskOver, PassForgotten, dshVars, outside, status, inbox, pass, taskVars, sourceVars,
      vars
<1> QED BY <1>3, <1>4, <1>5, <1>6, <1>7, <1>8

\* The listing expects every session that has a log.
LEMMA ListingExpects ==
    ASSUME SourceInv, Next, ListSessions, NEW s \in Indexable
    PROVE  NextSeq(s)' = log_length'[s] \/ Expected(s)'
<1>1. s \in Session /\ log_length \in [Session -> 0..MaxEvents] /\ MaxEvents \in Nat
  BY Bounds DEF SourceInv, SourceTypeOK
<1>2. log_length' = log_length /\ todo' = {t \in Session : log_length[t] > 0}
  BY DEF ListSessions, outside, dshVars
<1>3. NextSeq(s)' \in Nat /\ NextSeq(s)' <= log_length'[s]
  BY <1>1, CursorsMove
<1>4. CASE log_length[s] > 0
  BY <1>1, <1>2, <1>4 DEF Expected
<1>5. CASE ~(log_length[s] > 0)
  BY <1>1, <1>2, <1>3, <1>5
<1> QED BY <1>4, <1>5

\* A notification reaches the buffer, and the buffer a pass.
LEMMA AnnouncedStays ==
    ASSUME SourceInv, Next, Following, ~paused', NEW s \in Session,
           s \in notices \/ s \in buffered \/ s \in todo
    PROVE  Expected(s)'
<1>1. /\ ControlShape /\ subscribed /\ ~paused
  BY DEF SourceInv, ControlShape, Following
<1>2. ~TaskThrows /\ ~Restart /\ ~ListSessions /\ ~Overflow
  <2>1. ~TaskThrows
    BY ThrowsPause
  <2>2. ~Restart /\ ~Overflow
    BY <1>1 DEF Restart, Overflow, RecordFailure
  <2>3. ~ListSessions
    BY <1>1 DEF Following, ControlShape, ListSessions
  <2> QED BY <2>1, <2>2, <2>3
<1>3. CASE s \in notices
  <2>1. s \in notices' \/ s \in buffered'
    BY <1>1, <1>2, <1>3 DEF Next, AppendEvent, Notify, NoticeIgnored, NoticeOverflows, NoticeBuffered, RecordFailure,
        DisposedNotice, SourceStep, Start, Subscribe, BeginCorpus, ReadSourceStates, NextSession,
        PassOver, ReadSession, SendBatch, WatermarkExhausted, BatchAcknowledged, BatchRefused,
        DrainMore, DrainEmpty, GoLive, EndDrain, NextTask, StopsAtAssert, AssertActive, CallFails,
        ReceiptLost, Close, OrphanApplied, OrphanExpires, Rest, TaskIs, TaskOver, PassForgotten,
        dshVars, outside, status, inbox, pass, taskVars, sourceVars, vars
  <2> QED BY <2>1 DEF Expected
<1>4. CASE s \in buffered
  <2>1. s \in buffered' \/ s \in todo'
    BY <1>2, <1>4 DEF Next, AppendEvent, Notify, NoticeIgnored, NoticeOverflows, NoticeBuffered, RecordFailure,
        DisposedNotice, SourceStep, Start, Subscribe, BeginCorpus, ReadSourceStates, NextSession,
        PassOver, ReadSession, SendBatch, WatermarkExhausted, BatchAcknowledged, BatchRefused,
        DrainMore, DrainEmpty, GoLive, EndDrain, NextTask, StopsAtAssert, AssertActive, CallFails,
        ReceiptLost, Close, OrphanApplied, OrphanExpires, Rest, TaskIs, TaskOver, PassForgotten,
        dshVars, outside, status, inbox, pass, taskVars, sourceVars, vars
  <2> QED BY <2>1 DEF Expected
<1>5. CASE s \in todo
  <2>1. step \notin {"drain"} /\ (step = "next" => todo # {})
    BY <1>5 DEF SourceInv, NothingForgotten
  <2>2. s \in todo' \/ NextSession(s)
    BY <1>2, <1>5, <2>1 DEF Next, AppendEvent, Notify, NoticeIgnored, NoticeOverflows, NoticeBuffered, RecordFailure,
        DisposedNotice, SourceStep, Start, Subscribe, BeginCorpus, ReadSourceStates, NextSession,
        PassOver, ReadSession, SendBatch, WatermarkExhausted, BatchAcknowledged, BatchRefused,
        DrainMore, DrainEmpty, GoLive, EndDrain, NextTask, StopsAtAssert, AssertActive, CallFails,
        ReceiptLost, Close, OrphanApplied, OrphanExpires, Rest, TaskIs, TaskOver, PassForgotten,
        dshVars, outside, status, inbox, pass, taskVars, sourceVars, vars
  <2>3. NextSession(s) => doing'.session = s /\ step' = "read"
    BY DEF NextSession, TaskIs
  <2> QED BY <2>2, <2>3 DEF Expected
<1> QED BY <1>3, <1>4, <1>5

\* A session in hand is let go at the end of its log.
LEMMA HandledStays ==
    ASSUME SourceInv, Next, Following, ~paused', NEW s \in Indexable,
           doing.session = s, log_length'[s] = log_length[s],
           step = "read" \/ (step \in {"commit", "await"} /\ doing.to = log_length[s])
    PROVE  NextSeq(s)' = log_length'[s] \/ Expected(s)'
<1>1. /\ s \in Session /\ ~TaskThrows /\ HandShape
      /\ log_length \in [Session -> 0..MaxEvents] /\ MaxEvents \in Nat
      /\ doing \in [session : Session, from : 0..MaxEvents, to : 0..MaxEvents]
  BY ThrowsPause, Bounds DEF SourceInv, SourceTypeOK, HandShape
<1>2. /\ NextSeq(s) \in Nat /\ NextSeq(s)' \in Nat /\ NextSeq(s) <= NextSeq(s)'
      /\ NextSeq(s)' <= log_length[s] /\ log_length[s] \in Nat
  BY <1>1, CursorsMove
<1>3. CASE UNCHANGED <<step, doing>>
  BY <1>3 DEF Expected
<1>4. CASE ReadSession
  <2> DEFINE to == ProjectedLength(doing.session)
  <2>1. to = log_length[s]
    BY DEF ProjectedLength
  <2>2. /\ step = "read" /\ ~(to < doing.from) /\ doing' = [doing EXCEPT !.to = to]
        /\ step' = IF doing.from < to THEN "commit" ELSE "next"
    BY <1>1, <1>4 DEF ReadSession, TaskIs
  <2> HIDE DEF to
  <2>3. CASE doing.from < to
    <3>1. doing'.session = s /\ doing'.to = to /\ step' = "commit"
      BY <1>1, <2>2, <2>3
    <3> QED BY <2>1, <3>1 DEF Expected
  <2>4. CASE ~(doing.from < to)
    <3>1. doing.from = log_length[s]
      BY <1>1, <2>1, <2>2, <2>4
    <3>2. doing.from <= NextSeq(s)
      BY <1>1, <2>2 DEF HandShape
    <3> QED BY <1>2, <3>1, <3>2
  <2> QED BY <2>3, <2>4
<1>5. CASE SendBatch
  <2>1. PICK n \in 1..MaxChunk : doing' = [doing EXCEPT !.from = @ + n]
    BY <1>5 DEF SendBatch
  <2>2. step = "commit" /\ step' = "await"
    BY <1>5 DEF SendBatch, TaskIs
  <2>3. doing'.session = s /\ doing'.to = doing.to
    BY <1>1, <2>1
  <2> QED BY <2>2, <2>3 DEF Expected
<1>6. CASE BatchAcknowledged
  <2>1. /\ step = "await" /\ ~Refused(request) /\ ApplyBatch(request) /\ doing' = doing
        /\ step' = IF doing.from < doing.to THEN "commit" ELSE "next"
    BY <1>6 DEF BatchAcknowledged, Acknowledged, TaskIs, pass
  <2>2. CASE doing.from < doing.to
    BY <2>1, <2>2 DEF Expected
  <2>3. CASE ~(doing.from < doing.to)
    <3>1. /\ request \in Batches /\ doing.from <= doing.to
          /\ \E from \in 0..MaxEvents : RunOf(request, s, from, doing.from)
      BY <1>1, <2>1 DEF HandShape
    <3>2. doing.from <= NextSeq(s)'
      BY <1>1, <2>1, <3>1, ApplyEffect DEF SourceInv
    <3>3. doing.from = log_length[s]
      BY <1>1, <2>1, <2>3, <3>1
    <3> QED BY <1>2, <3>2, <3>3
  <2> QED BY <2>2, <2>3
<1>7. UNCHANGED <<step, doing>> \/ ReadSession \/ SendBatch \/ BatchAcknowledged
  <2>1. ~Restart /\ phase # "idle"
    BY DEF Following, Restart, SourceInv, ControlShape
  <2>2. phase = "live" /\ task = "none" => step = "idle"
    BY DEF SourceInv, ControlShape
  <2> QED BY <1>1, <2>1, <2>2 DEF Next, AppendEvent, Notify, NoticeIgnored, NoticeOverflows, NoticeBuffered, Overflow,
        RecordFailure, DisposedNotice, SourceStep, Start, Subscribe, BeginCorpus, ListSessions,
        ReadSourceStates, NextSession, PassOver, WatermarkExhausted, BatchRefused, DrainMore,
        DrainEmpty, GoLive, EndDrain, NextTask, StopsAtAssert, AssertActive, CallFails, ReceiptLost,
        Close, OrphanApplied, OrphanExpires, Rest, TaskIs, TaskOver, PassForgotten, dshVars,
        outside, status, inbox, pass, taskVars, sourceVars, vars
<1> QED BY <1>3, <1>4, <1>5, <1>6, <1>7

LEMMA ForgottenStep ==
    ASSUME SourceInv, Next
    PROVE  NothingForgotten'
<1>1. ASSUME Following', NEW s \in Indexable
      PROVE  NextSeq(s)' = log_length'[s] \/ Expected(s)'
  <2>1. CASE ListSessions
    BY <1>1, <2>1, ListingExpects
  <2>2. CASE ~ListSessions
    <3>1. Following /\ ~paused' /\ s \in Session
      BY <1>1, <2>2, FollowingStays, Bounds DEF Following
    <3>2. /\ NextSeq(s) \in Nat /\ NextSeq(s)' \in Nat /\ NextSeq(s) <= NextSeq(s)'
          /\ NextSeq(s)' <= log_length'[s]
      BY <3>1, CursorsMove
    <3>3. log_length'[s] \in Nat /\ (log_length'[s] # log_length[s] => s \in notices')
      BY <3>1, LogsGrow, Bounds
    <3>4. NextSeq(s) = log_length[s] \/ Expected(s)
      BY <3>1 DEF SourceInv, NothingForgotten
    <3>5. CASE log_length'[s] # log_length[s]
      BY <3>3, <3>5 DEF Expected
    <3>6. CASE log_length'[s] = log_length[s] /\ NextSeq(s) = log_length[s]
      BY <3>2, <3>3, <3>6
    <3>7. CASE s \in notices \/ s \in buffered \/ s \in todo
      BY <3>1, <3>7, AnnouncedStays
    <3>8. CASE /\ log_length'[s] = log_length[s] /\ doing.session = s
               /\ step = "read" \/ (step \in {"commit", "await"} /\ doing.to = log_length[s])
      BY <3>1, <3>8, HandledStays
    <3> QED BY <3>4, <3>5, <3>6, <3>7, <3>8 DEF Expected
  <2> QED BY <2>1, <2>2
<1>2. step' \in {"idle", "drain", "drained", "subscribe", "begin", "list"} => todo' = {}
  <2>1. /\ step \in {"idle", "drain", "drained", "subscribe", "begin", "list"} => todo = {}
        /\ phase = "idle" \/ task = "none" => step = "idle"
    BY DEF SourceInv, NothingForgotten, ControlShape
  <2> QED BY <2>1 DEF Next, AppendEvent, Notify, NoticeIgnored, NoticeOverflows, NoticeBuffered, Overflow,
        RecordFailure, DisposedNotice, SourceStep, Start, Subscribe, BeginCorpus, ListSessions,
        ReadSourceStates, NextSession, PassOver, ReadSession, SendBatch, WatermarkExhausted,
        BatchAcknowledged, BatchRefused, DrainMore, DrainEmpty, GoLive, EndDrain, NextTask,
        StopsAtAssert, AssertActive, Restart, CallFails, ReceiptLost, Close, OrphanApplied,
        OrphanExpires, Rest, TaskThrows, TaskIs, TaskOver, PassForgotten, dshVars, outside, status,
        inbox, pass, taskVars, sourceVars, vars
<1>3. phase' = "live" /\ task' = "none" => buffered' = {}
  <2>1. phase = "live" /\ task = "none" => buffered = {}
    BY DEF SourceInv, NothingForgotten
  <2>2. TaskThrows => phase' # "live"
    BY ThrowsPause
  <2> QED BY <2>1, <2>2 DEF Next, AppendEvent, Notify, NoticeIgnored, NoticeOverflows, NoticeBuffered, Overflow,
        RecordFailure, DisposedNotice, SourceStep, Start, Subscribe, BeginCorpus, ListSessions,
        ReadSourceStates, NextSession, PassOver, ReadSession, SendBatch, WatermarkExhausted,
        BatchAcknowledged, BatchRefused, DrainMore, DrainEmpty, GoLive, EndDrain, NextTask,
        StopsAtAssert, AssertActive, Restart, CallFails, ReceiptLost, Close, OrphanApplied,
        OrphanExpires, Rest, TaskIs, TaskOver, PassForgotten, dshVars, outside, status, inbox, pass,
        taskVars, sourceVars, vars
<1> QED BY <1>1, <1>2, <1>3 DEF NothingForgotten

----------------------------------------------------------------------------
(* The invariant                                                           *)

LEMMA HandTyped ==
    ASSUME SourceInv, Next
    PROVE  /\ doing' = NoSession
              \/ doing' \in [session : Session, from : 0..MaxEvents, to : 0..MaxEvents]
           /\ request' \in Batches \cup {None}
<1>1. /\ doing = NoSession \/ doing \in [session : Session, from : 0..MaxEvents, to : 0..MaxEvents]
      /\ request \in Batches \cup {None}
      /\ HandShape /\ log_length \in [Session -> 0..MaxEvents] /\ MaxEvents \in Nat
  BY Bounds DEF SourceInv, SourceTypeOK
<1>2. HandShape'
  BY HandStep
<1>3. step' \in {"read", "commit", "await"} \/ doing' \in {doing, NoSession}
      \/ (step = "read" /\ doing' = [doing EXCEPT !.to = ProjectedLength(doing.session)])
  BY DEF Next, AppendEvent, Notify, NoticeIgnored, NoticeOverflows, NoticeBuffered, Overflow,
      RecordFailure, DisposedNotice, SourceStep, Start, Subscribe, BeginCorpus, ListSessions,
      ReadSourceStates, NextSession, PassOver, ReadSession, SendBatch, WatermarkExhausted,
      BatchAcknowledged, BatchRefused, DrainMore, DrainEmpty, GoLive, EndDrain, NextTask,
      StopsAtAssert, AssertActive, Restart, CallFails, ReceiptLost, Close, OrphanApplied,
      OrphanExpires, Rest, TaskThrows, TaskIs, TaskOver, PassForgotten, dshVars, outside, status,
      inbox, pass, taskVars, sourceVars, vars
<1>4. ASSUME step = "read"
      PROVE  [doing EXCEPT !.to = ProjectedLength(doing.session)]
                 \in [session : Session, from : 0..MaxEvents, to : 0..MaxEvents]
  <2>1. doing \in [session : Session, from : 0..MaxEvents, to : 0..MaxEvents]
    BY <1>1, <1>4 DEF HandShape
  <2>2. ProjectedLength(doing.session) \in 0..MaxEvents
    BY <1>1, <2>1 DEF ProjectedLength
  <2> QED BY <2>1, <2>2
<1>5. step' = "await" \/ request' \in {request, None}
  BY DEF Next, AppendEvent, Notify, NoticeIgnored, NoticeOverflows, NoticeBuffered, Overflow,
      RecordFailure, DisposedNotice, SourceStep, Start, Subscribe, BeginCorpus, ListSessions,
      ReadSourceStates, NextSession, PassOver, ReadSession, SendBatch, WatermarkExhausted,
      BatchAcknowledged, BatchRefused, DrainMore, DrainEmpty, GoLive, EndDrain, NextTask,
      StopsAtAssert, AssertActive, Restart, CallFails, ReceiptLost, Close, OrphanApplied,
      OrphanExpires, Rest, TaskThrows, TaskIs, TaskOver, PassForgotten, dshVars, outside, status,
      inbox, pass, taskVars, sourceVars, vars
<1>6. request' \in Batches \cup {None}
  BY <1>1, <1>2, <1>5 DEF HandShape
<1>7. doing' = NoSession \/ doing' \in [session : Session, from : 0..MaxEvents, to : 0..MaxEvents]
  BY <1>1, <1>2, <1>3, <1>4 DEF HandShape, NoSession
<1> QED BY <1>6, <1>7

LEMMA TypeStep ==
    ASSUME SourceInv, Next
    PROVE  SourceTypeOK'
<1>1. StoreTypeOK'
  BY StoreInvStays DEF StoreInv
<1>2. log_length' \in [Session -> 0..MaxEvents] /\ notices' \subseteq Session
  BY LogsGrow
<1>3. watermark' \in 0..MaxInteger
  BY WatermarkMoves
<1>4. /\ (doing = NoSession)'
         \/ (doing \in [session : Session, from : 0..MaxEvents, to : 0..MaxEvents])'
      /\ request' \in Batches \cup {None}
  BY HandTyped DEF NoSession
<1> QED
  BY <1>1, <1>2, <1>3, <1>4, OutsideTyped, ControlTyped, InboxTyped, PassTyped DEF SourceTypeOK

LEMMA InitSourceInv == Init => SourceInv
<1> SUFFICES ASSUME Init PROVE SourceInv
  OBVIOUS
<1>1. StoreInv
  BY StoreInitInv DEF Init
<1>2. /\ MaxInteger \in Nat \ {0} /\ MaxEvents \in Nat /\ MaxTroubles \in Nat /\ MaxBuffered \in Nat
      /\ Indexable \subseteq Session
  BY Bounds
<1>3. /\ sessions = [s \in {} |-> {}] /\ documents = {} /\ meta = [generation |-> 0, watermark |-> 0]
      /\ log_length = [s \in Session |-> 0] /\ watermark = 0 /\ orphans = {}
  BY DEF Init, StoreInit
<1>4. \A s \in Session : NextSeq(s) = 0 /\ log_length[s] = 0
  BY <1>3 DEF NextSeq
<1>5. IsFiniteSet({}) /\ Cardinality({}) = 0
  BY FS_EmptySet
<1>6. SourceTypeOK
  <2>1. StoreTypeOK
    BY <1>1 DEF StoreInv
  <2>2. log_length \in [Session -> 0..MaxEvents] /\ watermark \in 0..MaxInteger
        /\ troubles \in 0..MaxTroubles
    BY <1>2, <1>3 DEF Init
  <2>3. /\ buffered \subseteq Session /\ Cardinality(buffered) <= MaxBuffered
        /\ disposed \subseteq Session /\ Cardinality(disposed) <= MaxBuffered
    BY <1>2, <1>5 DEF Init
  <2>4. todo \subseteq Session /\ DOMAIN durable \subseteq Session
    BY DEF Init, NoCursors
  <2>5. paused \in BOOLEAN /\ subscribed \in BOOLEAN
    BY DEF Init
  <2>6. /\ notices \subseteq Session /\ orphans \subseteq Batches
        /\ phase = "idle" /\ task = "none" /\ step = "idle" /\ doing = NoSession
        /\ request \in Batches \cup {None}
    BY DEF Init
  <2> QED BY <2>1, <2>2, <2>3, <2>4, <2>5, <2>6 DEF SourceTypeOK
<1>7. ControlShape
  BY DEF ControlShape, Init
<1>8. PassShape /\ HandShape
  BY <1>5 DEF PassShape, HandShape, Init, NoCursors
<1>9. IndexShape
  BY <1>3, <1>4 DEF IndexShape
<1>10. NothingForgotten
  BY DEF NothingForgotten, Following, Init
<1> QED BY <1>1, <1>6, <1>7, <1>8, <1>9, <1>10 DEF SourceInv

LEMMA SourceStepInv == SourceInv /\ [Next]_vars => SourceInv'
<1> SUFFICES ASSUME SourceInv, [Next]_vars PROVE SourceInv'
  OBVIOUS
<1>1. CASE Next
  BY <1>1, StoreInvStays, TypeStep, ControlStep, PassStep, HandStep, IndexStep, ForgottenStep
  DEF SourceInv
<1>2. CASE UNCHANGED vars
  <2>1. /\ UNCHANGED <<storeVars, log_length, notices, troubles, orphans, phase, paused, subscribed>>
        /\ UNCHANGED <<buffered, disposed, watermark, task, step, todo, durable, doing, request>>
    BY <1>2 DEF vars, outside, dshVars, sourceVars, status, inbox, taskVars, pass
  <2>2. StoreInv'
    BY <2>1, StoreStepInv DEF SourceInv
  <2>3. UNCHANGED <<sessions, documents, meta>>
    BY <2>1 DEF storeVars
  <2>4. SourceTypeOK' /\ ControlShape'
    BY <2>1, <2>2 DEF SourceInv, SourceTypeOK, ControlShape, StoreInv
  <2>5. PassShape' /\ HandShape'
    BY <2>1, <2>3 DEF SourceInv, PassShape, HandShape, NextSeq, RunOf
  <2>6. IndexShape' /\ NothingForgotten'
    BY <2>1, <2>3
    DEF SourceInv, IndexShape, NothingForgotten, Following, Expected, NextSeq, UnderWay, RunOf
  <2> QED BY <2>2, <2>4, <2>5, <2>6 DEF SourceInv
<1> QED BY <1>1, <1>2

\* The inductive invariant: what is under way are runs of the logs, what was read
\* of a cursor or a log is not ahead of it, and no announced event is forgotten.
THEOREM SourceInvariant == Spec => []SourceInv
<1> QED BY InitSourceInv, SourceStepInv, PTL DEF Spec

----------------------------------------------------------------------------
(* The theorems                                                            *)

\* Every variable keeps its type: neither #buffered nor #disposed outgrows its
\* bound (#addBounded), and every batch sent is one the store may be given.
THEOREM SourceTypeCorrect == Spec => []SourceTypeOK
<1>1. SourceInv => SourceTypeOK
  BY DEF SourceInv
<1> QED BY <1>1, SourceInvariant, PTL

\* What the daemon holds of a session is the projection of a beginning of its log,
\* up to the cursor, whatever batches were retried, replayed or orphaned.
THEOREM IndexHoldsPrefixes == Spec => []IndexIsPrefix
<1>1. ASSUME SourceInv, NEW s \in Session
      PROVE  OfSession(documents, s) = {Projected(s, n) : n \in 0..NextSeq(s) - 1}
  <2>1. /\ CursorCountsDocuments /\ StoreTypeOK /\ documents \subseteq Document
        /\ \A d \in documents : d = Projected(d.session, d.seq)
    BY <1>1 DEF SourceInv, StoreInv, StoreTypeOK, IndexShape
  <2>2. ASSUME NEW d \in documents, d.session = s
        PROVE  d \in {Projected(s, n) : n \in 0..NextSeq(s) - 1}
    <3>1. s \in DOMAIN sessions /\ d.seq < sessions[s].next_seq /\ d = Projected(s, d.seq)
      BY <2>1, <2>2 DEF CursorCountsDocuments
    <3>2. d.seq \in Nat /\ NextSeq(s) \in Nat /\ NextSeq(s) = sessions[s].next_seq
      BY <2>1, <3>1, NextSeqType, Bounds DEF Document, NextSeq
    <3>3. d.seq \in 0..NextSeq(s) - 1
      BY <3>1, <3>2
    <3> QED BY <3>1, <3>3
  <2>3. ASSUME NEW n \in 0..NextSeq(s) - 1
        PROVE  Projected(s, n) \in OfSession(documents, s)
    <3>1. NextSeq(s) \in Nat /\ NextSeq(s) # 0
      BY <2>1, <2>3, NextSeqType, Bounds
    <3>2. s \in DOMAIN sessions /\ NextSeq(s) = sessions[s].next_seq
      BY <3>1 DEF NextSeq
    <3>3. PICK d \in documents : d.session = s /\ d.seq = n
      BY <2>1, <2>3, <3>2 DEF CursorCountsDocuments
    <3> QED BY <2>1, <3>3 DEF OfSession
  <2>4. \A d \in OfSession(documents, s) : d \in {Projected(s, n) : n \in 0..NextSeq(s) - 1}
    BY <2>2 DEF OfSession
  <2> QED BY <2>3, <2>4
<1>2. SourceInv => IndexIsPrefix
  BY <1>1 DEF IndexIsPrefix
<1> QED BY <1>2, SourceInvariant, PTL

\* A live source that is idle, with no notification on its way, has indexed every
\* indexable session to the end of its log.
THEOREM LiveSourceIsCaughtUp == Spec => []LiveMeansCaughtUp
<1>1. ASSUME SourceInv, Quiet, NEW s \in Indexable
      PROVE  NextSeq(s) = log_length[s]
  <2>1. phase = "live" /\ task = "none" /\ notices = {}
    BY <1>1 DEF Quiet
  <2>2. step = "idle" /\ Following /\ buffered = {} /\ todo = {}
    BY <1>1, <2>1 DEF SourceInv, ControlShape, NothingForgotten, Following
  <2>3. ~Expected(s)
    BY <2>1, <2>2 DEF Expected
  <2> QED BY <1>1, <2>2, <2>3 DEF SourceInv, NothingForgotten
<1>2. SourceInv => LiveMeansCaughtUp
  BY <1>1 DEF LiveMeansCaughtUp, CaughtUp
<1> QED BY <1>2, SourceInvariant, PTL

\* The source's watermark is one the daemon has committed (#observeWatermark).
THEOREM WatermarkIsCommitted == Spec => []WatermarkCommitted
<1>1. SourceInv => WatermarkCommitted
  BY DEF SourceInv, IndexShape, WatermarkCommitted
<1> QED BY <1>1, SourceInvariant, PTL

\* A source that failed or is closing never claims to be live, although the task
\* it was running goes on and assigns the phase.
THEOREM FailedSourceIsNotLive == Spec => []FailedIsNotLive
<1>1. SourceInv => FailedIsNotLive
  BY DEF SourceInv, ControlShape, FailedIsNotLive
<1> QED BY <1>1, SourceInvariant, PTL

\* A committed batch moves the mirror on by the events it brings.
LEMMA MirrorAdvances ==
    ASSUME SourceInv, NEW b \in Batches, UnderWay(b), ApplyBatch(b), UNCHANGED log_length
    PROVE  \/ \E s \in Session : Mirror!Advance(s)
           \/ UNCHANGED Mirror!mirrorVars
<1> DEFINE indexed == [s \in Session |-> NextSeq(s)]
           after == [s \in Session |-> NextSeq(s)']
<1>1. PICK s \in Session, from \in 0..MaxEvents, to \in 0..MaxEvents : RunOf(b, s, from, to)
  BY DEF UnderWay
<1>2. /\ \A t \in Session : t # s => NextSeq(t)' = NextSeq(t)
      /\ NextSeq(s) <= NextSeq(s)'
      /\ NextSeq(s)' = NextSeq(s) \/ NextSeq(s)' <= to
  BY <1>1, ApplyEffect DEF SourceInv
<1>3. to <= log_length[s] /\ to \in Nat /\ log_length[s] \in Nat
  BY <1>1, Bounds DEF RunOf, SourceInv, SourceTypeOK
<1>4. NextSeq(s) \in Nat /\ NextSeq(s)' \in Nat
  <2>1. StoreTypeOK /\ StoreTypeOK'
    BY StoreStays DEF SourceInv, StoreInv
  <2>2. NextSeq(s) \in 0..MaxInteger
    BY <2>1, NextSeqType
  <2>3. NextSeq(s)' \in 0..MaxInteger
    BY <2>1, MaxIntegerAssumption DEF StoreTypeOK, SessionRow, NextSeq
  <2> QED BY <2>2, <2>3, Bounds
<1>5. CASE NextSeq(s)' = NextSeq(s)
  <2>1. after = indexed
    BY <1>2, <1>5
  <2> QED BY <2>1 DEF Mirror!mirrorVars
<1>6. CASE NextSeq(s)' # NextSeq(s)
  <2>1. NextSeq(s)' \in NextSeq(s) + 1..log_length[s]
    BY <1>2, <1>3, <1>4, <1>6
  <2>2. after = [indexed EXCEPT ![s] = NextSeq(s)']
    BY <1>2
  <2> QED BY <2>1, <2>2 DEF Mirror!Advance
<1> QED BY <1>5, <1>6

\* Indexing implements IndexMirror: per session the cursor only grows, one batch at
\* a time, and never runs ahead of the log.
THEOREM IndexingMirrorsLogs == Spec => MirrorsLogs
<1>1. Init => Mirror!MirrorInit
  BY DEF Init, StoreInit, NextSeq, Mirror!MirrorInit
<1>2. ASSUME SourceInv, [Next]_vars
      PROVE  [Mirror!MirrorNext]_(Mirror!mirrorVars)
  <2>1. CASE UNCHANGED vars
    BY <2>1 DEF vars, outside, storeVars, dshVars, NextSeq, Mirror!mirrorVars
  <2>2. ASSUME NEW s \in Session, AppendEvent(s)
        PROVE  Mirror!Grow(s)
    BY <2>2 DEF AppendEvent, storeVars, NextSeq, Mirror!Grow
  <2>3. CASE Next /\ UNCHANGED storeVars /\ ~(\E s \in Session : AppendEvent(s))
    <3>1. UNCHANGED log_length
      BY <2>3 DEF Next, Notify, NoticeIgnored, NoticeOverflows, NoticeBuffered, Overflow, RecordFailure,
          DisposedNotice, SourceStep, Start, Subscribe, BeginCorpus, ListSessions, ReadSourceStates,
          NextSession, PassOver, ReadSession, SendBatch, WatermarkExhausted, BatchAcknowledged,
          BatchRefused, DrainMore, DrainEmpty, GoLive, EndDrain, NextTask, StopsAtAssert,
          AssertActive, Restart, CallFails, ReceiptLost, Close, OrphanApplied, OrphanExpires, Rest,
          TaskThrows, TaskIs, TaskOver, PassForgotten, dshVars, outside, status, inbox, pass,
          taskVars, sourceVars, vars
    <3> QED BY <2>3, <3>1 DEF storeVars, NextSeq, Mirror!mirrorVars
  <2>4. ASSUME NEW b \in Batches, UnderWay(b), ApplyBatch(b), UNCHANGED dshVars
        PROVE  (\E s \in Session : Mirror!Advance(s)) \/ UNCHANGED Mirror!mirrorVars
    BY <1>2, <2>4, MirrorAdvances DEF dshVars
  <2> QED BY <1>2, <2>1, <2>2, <2>3, <2>4, Arrivals DEF Mirror!MirrorNext
<1> QED BY <1>1, <1>2, SourceInvariant, PTL DEF Spec, MirrorsLogs, Mirror!MirrorSpec

=============================================================================
