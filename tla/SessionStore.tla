---------------------------- MODULE SessionStore ----------------------------
(***************************************************************************)
(* The storage core of the session index: the tables `sessions',           *)
(* `documents', `index_meta' and `ingest_batches' of one SQLite database,  *)
(* and the one operation that changes them, SessionIndex::apply_batch.     *)
(*                                                                         *)
(* apply_batch runs in one immediate transaction on the writer's only      *)
(* connection, so it is one action; an early return drops the transaction  *)
(* and leaves every table alone.  A batch is a set of documents: the code  *)
(* takes a list, but it only accepts lists whose documents are contiguous  *)
(* and increasing per session, and the order between sessions has no       *)
(* effect on what is committed.                                            *)
(***************************************************************************)
EXTENDS Integers, FiniteSets

CONSTANTS
    Session,            \* session ids
    Workspace,          \* workspace ids
    Content,            \* time, type, surface, scope terms, body, fingerprint
    Revision,           \* source revisions
    Key,                \* idempotency keys
    Fingerprint,        \* payload fingerprints
    MaxInteger,         \* i64::MAX, the SQLite integer range
    MaxBatchDocuments,  \* MAX_BATCH_DOCUMENTS
    Batches             \* the mutation batches callers may submit

Document == [session : Session, seq : 0..MaxInteger, workspace : Workspace,
             revision : Revision, content : Content]

\* A u64 watermark may exceed the SQLite range by any amount; one value past it
\* stands for all of them.
Batch == [key : Key, fingerprint : Fingerprint, watermark : 0..MaxInteger + 1,
          documents : SUBSET Document]

ASSUME MaxIntegerAssumption == MaxInteger \in Nat \ {0}
ASSUME MaxBatchAssumption == MaxBatchDocuments \in Nat \ {0}
ASSUME BatchesAssumption == /\ Batches \subseteq Batch
                            /\ \A b \in Batches : IsFiniteSet(b.documents)

VARIABLES
    sessions,   \* session id -> row of `sessions'; its domain is the rows that exist
    documents,  \* the rows of `documents'
    meta,       \* the single row of `index_meta'
    ingest,     \* idempotency key -> row of `ingest_batches'
    accepted    \* history: idempotency key -> the batch committed under it

storeVars == <<sessions, documents, meta, ingest, accepted>>

SessionRow == [next_seq : 0..MaxInteger, workspace : Workspace,
               header_revision : Revision]

IngestRow == [fingerprint : Fingerprint, watermark : 1..MaxInteger,
              generation : 1..MaxInteger, inserted : Nat, replayed : Nat]

----------------------------------------------------------------------------
(* Reading the tables.                                                     *)

\* The cursor of a session as the transaction sees it; a session without a row
\* starts at 0.
NextSeq(s) == IF s \in DOMAIN sessions THEN sessions[s].next_seq ELSE 0

StoredDocumentMatches(d) == d \in documents

\* What source_state_v1 returns for a set of session ids: one snapshot of the
\* metadata and of the rows that exist.
SourceState(ids) ==
    [generation |-> meta.generation,
     watermark  |-> meta.watermark,
     sessions   |-> [s \in ids \cap DOMAIN sessions |-> sessions[s]]]

----------------------------------------------------------------------------
(* validate_batch and validate_document                                    *)

ContiguousPerSession(docs) ==
    \A d, e \in docs : d.session = e.session =>
        /\ d.seq = e.seq => d = e
        /\ \A n \in d.seq..e.seq :
              \E f \in docs : f.session = d.session /\ f.seq = n

ValidBatch(b) ==
    /\ b.watermark > 0
    /\ Cardinality(b.documents) \in 1..MaxBatchDocuments
    /\ ContiguousPerSession(b.documents)

----------------------------------------------------------------------------
(* replay_receipt: a batch whose key is stored is either an exact replay or *)
(* a conflict; it is never applied again.                                  *)

IsKnownKey(b) == b.key \in DOMAIN ingest

IsExactReplay(b) ==
    LET row == ingest[b.key] IN
    /\ row.fingerprint = b.fingerprint
    /\ row.watermark = b.watermark
    /\ row.inserted + row.replayed = Cardinality(b.documents)
    /\ \A d \in b.documents : StoredDocumentMatches(d)

Receipt(row, replayed) ==
    [generation |-> row.generation, watermark |-> row.watermark,
     inserted |-> row.inserted, replayed |-> row.replayed,
     batch_replayed |-> replayed]

----------------------------------------------------------------------------
(* The per-document loop of apply_batch, as the conditions under which it  *)
(* runs to its end and the rows it leaves behind.                          *)

OfSession(docs, s) == {d \in docs : d.session = s}

Inserted(b) == {d \in b.documents : d.seq >= NextSeq(d.session)}

Replayed(b) == b.documents \ Inserted(b)

\* Mutant: the workspace of the session's row is not looked at.
WorkspaceIgnored(b, d) == TRUE

\* A document is compared with the workspace of the session's row; the first
\* document of a new session is the one that creates that row.
WorkspaceFits(b, d) ==
    IF d.session \in DOMAIN sessions
    THEN d.workspace = sessions[d.session].workspace
    ELSE \A e \in OfSession(b.documents, d.session) :
            e.seq = 0 => d.workspace = e.workspace

\* Mutant: a run may start past the cursor.
GapAllowed(b, d) == TRUE

NoSequenceGap(b, d) ==
    \E e \in OfSession(b.documents, d.session) : e.seq <= NextSeq(d.session)

\* Mutant: the sequence number is checked and the cursor is not.
SequenceInRange(d) == d.seq <= MaxInteger

\* The cursor after a document, seq + 1, has to stay in the SQLite range.
CursorInRange(d) == d.seq + 1 <= MaxInteger

DocumentsFit(b) ==
    \A d \in b.documents :
        /\ WorkspaceFits(b, d)
        /\ NoSequenceGap(b, d)
        /\ d.seq < NextSeq(d.session) => StoredDocumentMatches(d)
        /\ d.seq >= NextSeq(d.session) => CursorInRange(d)

\* The last document inserted for a session: the row keeps its cursor and revision.
LastInserted(b, s) ==
    CHOOSE d \in OfSession(Inserted(b), s) :
        \A e \in OfSession(Inserted(b), s) : e.seq <= d.seq

\* Mutant: the cursor skips one sequence number.
SessionAfterSkip(b, s) ==
    LET last == LastInserted(b, s) IN
    [next_seq |-> last.seq + 2, workspace |-> last.workspace,
     header_revision |-> last.revision]

SessionAfterInsert(b, s) ==
    LET last == LastInserted(b, s) IN
    [next_seq |-> last.seq + 1, workspace |-> last.workspace,
     header_revision |-> last.revision]

Touched(b) == {d.session : d \in Inserted(b)}

SessionsAfter(b) ==
    [s \in DOMAIN sessions \cup Touched(b) |->
        IF s \in Touched(b) THEN SessionAfterInsert(b, s) ELSE sessions[s]]

\* Mutant: a second batch may reuse the watermark.
WatermarkReused(b) == b.watermark >= meta.watermark

WatermarkAdvances(b) == b.watermark > meta.watermark

\* The generation and the watermark are written back as SQLite integers.
MetadataInRange(b) == b.watermark <= MaxInteger /\ meta.generation + 1 <= MaxInteger

IngestRowFor(b) ==
    [fingerprint |-> b.fingerprint, watermark |-> b.watermark,
     generation |-> meta.generation + 1,
     inserted |-> Cardinality(Inserted(b)), replayed |-> Cardinality(Replayed(b))]

----------------------------------------------------------------------------
(* apply_batch                                                             *)

\* The batches apply_batch applies, as opposed to replaying or refusing them.
Commits(b) ==
    /\ ValidBatch(b)
    /\ ~ IsKnownKey(b)
    /\ WatermarkAdvances(b)
    /\ DocumentsFit(b)
    /\ MetadataInRange(b)

Commit(b) ==
    /\ sessions' = SessionsAfter(b)
    /\ documents' = documents \cup Inserted(b)
    /\ meta' = [generation |-> meta.generation + 1, watermark |-> b.watermark]
    /\ ingest' = [k \in DOMAIN ingest \cup {b.key} |->
                    IF k = b.key THEN IngestRowFor(b) ELSE ingest[k]]
    /\ accepted' = [k \in DOMAIN accepted \cup {b.key} |->
                      IF k = b.key THEN b ELSE accepted[k]]

\* Mutant: the watermark is checked before the idempotency key.
ReplaysIfAhead(b) ==
    ValidBatch(b) /\ WatermarkAdvances(b) /\ IsKnownKey(b) /\ IsExactReplay(b)

\* A replay rolls back and returns the stored receipt.
Replays(b) == ValidBatch(b) /\ IsKnownKey(b) /\ IsExactReplay(b)

Refused(b) == ~ Commits(b) /\ ~ Replays(b)

\* What the caller is told: the receipt of the commit, the stored receipt, or an
\* error of any kind.
Outcome(b) ==
    IF Commits(b) THEN Receipt(IngestRowFor(b), FALSE)
    ELSE IF Replays(b) THEN Receipt(ingest[b.key], TRUE)
    ELSE [error |-> TRUE]

CommitBatch(b) == Commits(b) /\ Commit(b)
ReplayBatch(b) == Replays(b) /\ UNCHANGED storeVars
\* Every early return drops the transaction: no table changes.
RefuseBatch(b) == Refused(b) /\ UNCHANGED storeVars

ApplyBatch(b) == CommitBatch(b) \/ ReplayBatch(b) \/ RefuseBatch(b)

\* SessionIndex::create: the empty schema and its metadata row.
StoreInit ==
    /\ sessions = [s \in {} |-> {}]
    /\ documents = {}
    /\ meta = [generation |-> 0, watermark |-> 0]
    /\ ingest = [k \in {} |-> {}]
    /\ accepted = [k \in {} |-> {}]

StoreNext == \E b \in Batches : CommitBatch(b) \/ ReplayBatch(b) \/ RefuseBatch(b)

StoreSpec == StoreInit /\ [][StoreNext]_storeVars

----------------------------------------------------------------------------
(* What makes the store correct.                                           *)

\* Every table keeps its type: cursors, watermarks and generations stay in the SQLite
\* range, and the committed batches are exactly those with a receipt.
StoreTypeOK ==
    /\ DOMAIN sessions \subseteq Session
    /\ sessions \in [DOMAIN sessions -> SessionRow]
    /\ documents \subseteq Document
    /\ meta \in [generation : 0..MaxInteger, watermark : 0..MaxInteger]
    /\ DOMAIN ingest \subseteq Key
    /\ ingest \in [DOMAIN ingest -> IngestRow]
    /\ DOMAIN accepted = DOMAIN ingest
    /\ accepted \in [DOMAIN accepted -> Batches]

\* The cursor of a session counts its documents exactly: one row of `documents'
\* for every sequence number below next_seq, none at or above it, all in the
\* workspace of the session's row, and the header revision is that of the last
\* document.  A source that resumes at next_seq neither skips an event nor sends
\* one twice.
CursorCountsDocuments ==
    /\ \A d \in documents :
          /\ d.session \in DOMAIN sessions
          /\ d.seq < sessions[d.session].next_seq
          /\ d.workspace = sessions[d.session].workspace
          /\ d.seq + 1 = sessions[d.session].next_seq
                => d.revision = sessions[d.session].header_revision
    /\ \A d, e \in documents : d.session = e.session /\ d.seq = e.seq => d = e
    /\ \A s \in DOMAIN sessions :
          /\ sessions[s].next_seq > 0
          /\ \A n \in 0..(sessions[s].next_seq - 1) :
                \E d \in documents : d.session = s /\ d.seq = n

\* A caller that lost the answer to a committed batch can send the batch again at
\* any later time, whatever was committed in between: replay_receipt recognises
\* it and answers with the receipt of the first commit.
AcceptedBatchReplays ==
    \A k \in DOMAIN accepted :
        /\ Replays(accepted[k])
        /\ ingest[k].generation <= meta.generation
        /\ ingest[k].watermark <= meta.watermark

\* Every generation is the commit of one batch, under its own watermark: two
\* committed batches share neither, and they are ordered the same way by both.
\* The checked addition on the generation can therefore never overflow before
\* the watermark runs out.
GenerationsOrderWatermarks ==
    /\ meta.generation <= meta.watermark
    /\ \A k, l \in DOMAIN ingest :
          k # l => \/ /\ ingest[k].generation < ingest[l].generation
                       /\ ingest[k].watermark < ingest[l].watermark
                    \/ /\ ingest[l].generation < ingest[k].generation
                       /\ ingest[l].watermark < ingest[k].watermark

\* What a commit may never do: lose or rewrite a document, move a cursor back,
\* move a session to another workspace, forget a receipt, or change any table
\* without moving the generation by one and the watermark forward.
AppendOnly ==
    [][ /\ documents \subseteq documents'
        /\ \A s \in DOMAIN sessions :
              /\ s \in DOMAIN sessions'
              /\ sessions[s].next_seq <= sessions'[s].next_seq
              /\ sessions[s].workspace = sessions'[s].workspace
        /\ \A k \in DOMAIN ingest : k \in DOMAIN ingest' /\ ingest'[k] = ingest[k]
        /\ meta'.generation = meta.generation + 1
        /\ meta'.watermark > meta.watermark ]_storeVars
=============================================================================
