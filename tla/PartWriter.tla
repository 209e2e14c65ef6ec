----------------------------- MODULE PartWriter -----------------------------
(***************************************************************************)
(* The data-part writer of MergeTree and its two-phase finalisation        *)
(* (src/Storages/MergeTree/MergedBlockOutputStream.cpp).                   *)
(*                                                                         *)
(*   write / writeWithPermutation  -> Write, WriteFail                     *)
(*   MergedBlockOutputStream::cancel -> StreamCancel                       *)
(*   finalizePartAsync + finalizePartOnDisk -> FinalizePartAsync           *)
(*   Finalizer::finish + Impl::finish -> Finish                            *)
(*   Finalizer::cancel, ~Finalizer + Impl::cancel -> Cancel                *)
(*   the caller committing the part's storage transaction -> CommitPart    *)
(*                                                                         *)
(* Every file of the part is a write buffer whose life is tracked in buf:  *)
(* "none" (not created), "open" (column streams being written),            *)
(* "prefinal" (preFinalize()d, held for the commit decision), "final",     *)
(* "cancelled", and "abandoned" (destroyed while neither finalized nor     *)
(* cancelled, as happens to a local vector of buffers when an exception    *)
(* unwinds the frame that owns it).  The storage transaction keeps the     *)
(* finalized files of the current transaction in staged, the removals it  *)
(* has recorded in removing, and what earlier commits made durable in      *)
(* disk.  Column data (.bin/.mrk) is abstracted to one file per column.    *)
(***************************************************************************)
EXTENDS Naturals, Sequences, FiniteSets

CONSTANTS
    Columns,     \* the columns of the part; each names its data file
    MaxRows,     \* bound on rows_count
    BatchSizes,  \* row counts of the non-empty blocks the pipeline delivers
    Configs      \* the part settings a run may start from (see Config)

\* The hashed files are written by write_hashed_file and get a checksum;
\* the plain ones by write_plain_file and get none.
HashedFiles == {"uuid.txt", "partition.dat", "minmax.idx", "source_parts_set",
                "count.txt", "ttl.txt", "serialization.json"}
PlainFiles  == {"columns.txt", "columns_substreams.txt", "metadata_version.txt",
                "default_compression_codec.txt", "checksums.txt"}
AuxFiles    == HashedFiles \cup PlainFiles
Files       == Columns \cup AuxFiles

\* The step of finalizePartOnDisk that throws LOGICAL_ERROR.
LogicalError == "LOGICAL_ERROR"

\* What the part and the stream were created with.  isProjection:
\* new_part->isProjectionPart(); customPartitioning: format_version >=
\* MERGE_TREE_DATA_MIN_FORMAT_VERSION_WITH_CUSTOM_PARTITIONING; partitionKey:
\* partition.store() returns a file; minmaxInit: minmax_idx->initialized;
\* uuid: uuid != Nil; sourceParts: getSourcePartsSet() non-empty; ttl:
\* ttl_infos non-empty; serInfos: serialization infos non-empty; codec:
\* default_codec != nullptr; resetColumns: reset_columns.
Config == [isProjection: BOOLEAN, customPartitioning: BOOLEAN,
           partitionKey: BOOLEAN, minmaxInit: BOOLEAN, uuid: BOOLEAN,
           sourceParts: BOOLEAN, ttl: BOOLEAN, serInfos: BOOLEAN,
           codec: BOOLEAN, resetColumns: BOOLEAN]

ASSUME ConstantsAssumption ==
    /\ IsFiniteSet(Columns)
    /\ Columns \cap AuxFiles = {}
    /\ LogicalError \notin Files
    /\ MaxRows \in Nat
    /\ BatchSizes \subseteq 1..MaxRows
    /\ Configs \subseteq Config /\ Configs # {}

BufStates == {"none", "open", "prefinal", "final", "cancelled", "abandoned"}
Settled   == {"final", "cancelled", "abandoned"}

VARIABLES
    cfg,          \* the Config this part is written with
    rows_count,   \* MergedBlockOutputStream::rows_count
    nonDefault,   \* columns new_serialization_infos saw a non-default value in
    stage,        \* the stream: "writing", "failed", "prepared", "cancelled"
    handle,       \* the Finalizer: "none", "live", "finished", "failed", "cancelled"
    buf,          \* file -> state of its write buffer
    checksums,    \* files named in the part's checksums
    columnsList,  \* the part's columns after setColumns
    toRemove,     \* files_to_remove_after_finish
    held,         \* written_files, owned by Finalizer::Impl
    staged,       \* files written in the open storage transaction
    removing,     \* files the open storage transaction will remove
    disk,         \* files made durable by committed transactions
    committed     \* the caller committed the part's transaction

vars == <<cfg, rows_count, nonDefault, stage, handle, buf, checksums,
          columnsList, toRemove, held, staged, removing, disk, committed>>

-----------------------------------------------------------------------------
Opt(b, f) == IF b THEN <<f>> ELSE <<>>

\* The files finalizePartOnDisk writes, in its order, up to and including
\* the LOGICAL_ERROR it throws for an uninitialised min-max index of a
\* non-empty part or for a missing codec.
Plan(c, rows, cols) ==
    LET onDisk == ~c.isProjection
        custom == onDisk /\ c.customPartitioning
        minmax == IF c.minmaxInit THEN <<"minmax.idx">>
                  ELSE Opt(rows # 0, LogicalError)
    IN     Opt(onDisk /\ c.uuid, "uuid.txt")
        \o Opt(custom /\ c.partitionKey, "partition.dat")
        \o (IF custom THEN minmax ELSE <<>>)
        \o Opt(custom /\ c.sourceParts, "source_parts_set")
        \o <<"count.txt">>
        \o Opt(c.ttl, "ttl.txt")
        \o Opt(c.serInfos, "serialization.json")
        \o <<"columns.txt">>
        \o Opt(cols # {}, "columns_substreams.txt")
        \o <<"metadata_version.txt">>
        \o <<IF c.codec THEN "default_compression_codec.txt" ELSE LogicalError>>
        \o <<"checksums.txt">>

\* The first k steps of a plan, as a set.
Steps(p, k) == {p[i] : i \in 1..k}

\* Mutant: finalizePartOnDisk without its LOGICAL_ERROR checks.
ThrowsNever(p) == FALSE

\* A plan throws LOGICAL_ERROR at one of its steps.
Throws(p) == LogicalError \in Steps(p, Len(p))

\* The index of the throwing step of a plan, Len(p) + 1 when none throws.
ErrorIndex(p) ==
    IF Throws(p)
    THEN CHOOSE i \in 1..Len(p) : p[i] = LogicalError /\ LogicalError \notin Steps(p, i - 1)
    ELSE Len(p) + 1

\* Columns that saw only default values (removeEmptyColumnsFromPart).
EmptyColumns == Columns \ nonDefault

\* The plan of the part once finalizePartAsync has run.
PartPlan == Plan(cfg, rows_count, columnsList)

\* buf with the files of S set to state s.
SetBuf(S, s) == [f \in Files |-> IF f \in S THEN s ELSE buf[f]]

-----------------------------------------------------------------------------
Init ==
    /\ cfg \in Configs
    /\ rows_count = 0
    /\ nonDefault = {}
    /\ stage = "writing"
    /\ handle = "none"
    \* the constructor creates the writer, which opens every column stream
    /\ buf = [f \in Files |-> IF f \in Columns THEN "open" ELSE "none"]
    /\ checksums = {}
    /\ columnsList = Columns
    /\ toRemove = {}
    /\ held = {}
    /\ staged = {}
    /\ removing = {}
    /\ disk = {}
    /\ committed = FALSE

\* writeImpl for a non-empty block (an empty one returns before any change):
\* the columns are serialized, new_serialization_infos.add(block) records
\* which columns got non-default values, and rows_count grows.
Write(n) ==
    /\ stage = "writing"
    /\ rows_count + n <= MaxRows
    /\ \E nd \in SUBSET Columns :
          nonDefault' = IF cfg.resetColumns THEN nonDefault \cup nd ELSE nonDefault
    /\ rows_count' = rows_count + n
    /\ UNCHANGED <<cfg, stage, handle, buf, checksums, columnsList, toRemove,
                   held, staged, removing, disk, committed>>

\* writer->write throws (an I/O error): the exception reaches the caller.
WriteFail ==
    /\ stage = "writing"
    /\ stage' = "failed"
    /\ UNCHANGED <<cfg, rows_count, nonDefault, handle, buf, checksums,
                   columnsList, toRemove, held, staged, removing, disk, committed>>

\* MergedBlockOutputStream::cancel: writer->cancel() cancels the column
\* streams that are not finalized.  The caller calls it instead of
\* finalizing, or after an exception, before a Finalizer exists or after
\* its finish failed.
StreamCancel ==
    /\ \/ stage \in {"writing", "failed"}
       \/ handle = "failed"
    /\ \E c \in Columns : buf[c] \in {"open", "prefinal"}
    /\ buf' = SetBuf({c \in Columns : buf[c] \in {"open", "prefinal"}}, "cancelled")
    /\ stage' = IF stage = "writing" THEN "cancelled" ELSE stage
    /\ UNCHANGED <<cfg, rows_count, nonDefault, handle, checksums, columnsList,
                   toRemove, held, staged, removing, disk, committed>>

\* finalizePartAsync.  fillChecksums preFinalizes the column streams and
\* names their files; with reset_columns the all-default columns leave the
\* column list and the checksums and their files are scheduled for removal;
\* finalizePartOnDisk writes the files of Plan.  Either every step
\* succeeds and a live Finalizer holds the written files, or step k throws
\* (an I/O error, or the LOGICAL_ERROR of Plan) and the local written_files
\* vector is destroyed with the buffers written so far in it.  k = 0 is a
\* failure of fillChecksums itself.
FinalizePartAsync ==
    /\ stage = "writing"
    /\ LET removed == IF cfg.resetColumns THEN EmptyColumns ELSE {}
           cols    == Columns \ removed
           p       == Plan(cfg, rows_count, cols)
       IN \/ /\ ~Throws(p)
             /\ buf' = SetBuf(Columns \cup Steps(p, Len(p)), "prefinal")
             /\ checksums' = cols \cup (Steps(p, Len(p)) \cap HashedFiles)
             /\ columnsList' = cols
             /\ toRemove' = removed
             /\ held' = Steps(p, Len(p))
             /\ stage' = "prepared"
             /\ handle' = "live"
          \/ /\ \E k \in 0..IF Throws(p) THEN ErrorIndex(p) ELSE Len(p) :
                  buf' = IF k = 0 THEN buf
                         ELSE [f \in Files |->
                                 CASE f \in Columns     -> "prefinal"
                                   [] f \in Steps(p, k) -> "abandoned"
                                   [] OTHER             -> buf[f]]
             /\ stage' = "failed"
             /\ UNCHANGED <<handle, checksums, columnsList, toRemove, held>>
    /\ UNCHANGED <<cfg, rows_count, nonDefault, staged, removing, disk, committed>>

\* Mutant: Finalizer::finish does not reset impl, so the destructor still
\* cancels after finish.
HasImplAfterFinish == handle \in {"live", "finished"}

HasImpl == handle = "live"

\* Mutant: the removals run in the write transaction, which does not see
\* the files it has just written.
RemoveInSameTransaction(done) ==
    /\ staged' = staged \cup done
    /\ removing' = {f \in toRemove : f \in disk}
    /\ UNCHANGED disk

\* The removal phase of Impl::finish after the files in done are
\* finalized.  With files to remove, the write transaction is committed,
\* a new one begun, and removeFile records the removals, which see the
\* committed files; otherwise the writes stay in the open transaction.
RemoveAfterFinish(done) ==
    IF toRemove = {}
    THEN /\ staged' = staged \cup done
         /\ UNCHANGED <<removing, disk>>
    ELSE /\ disk' = (disk \cup staged \cup done) \ removing
         /\ staged' = {}
         /\ removing' = {f \in toRemove : f \in disk'}

\* Mutant: Impl::cancel forgets writer.cancel().
CancelledFilesNoWriter == {f \in held : buf[f] \notin Settled}

\* The buffers Impl::cancel cancels: the writer's column streams
\* (writer.cancel()) and every held file (file->cancel()).
CancelledFiles == {f \in Columns \cup held : buf[f] \notin Settled}

\* Finalizer::finish moves impl out and resets it, then Impl::finish runs:
\* writer.finish(sync) finalizes the column streams, every held file is
\* finalized (and synced), and, when files are to be removed, the write
\* transaction is committed and a new one begun before removeFile is called
\* for each, because a transaction does not see its own writes.  An I/O
\* error at step j (0: writer.finish, i: the i-th held file of the plan,
\* Len + 1: committing the write transaction) escapes after impl is gone:
\* what was finalized stays written, the rest of the held buffers are
\* destroyed with the moved-out Impl.
Finish ==
    /\ HasImpl
    /\ LET p    == PartPlan
           done == Columns \cup held
       IN \/ /\ buf' = SetBuf(done, "final")
             /\ RemoveAfterFinish(done)
             /\ handle' = "finished"
          \/ /\ \E j \in 0..Len(p) + 1 :
                  LET fin == IF j = 0 THEN {} ELSE Columns \cup (held \cap Steps(p, j - 1))
                  IN  /\ buf' = [f \in Files |->
                                   CASE f \in fin  -> "final"
                                     [] f \in held -> "abandoned"
                                     [] OTHER      -> buf[f]]
                      /\ staged' = staged \cup fin
             /\ handle' = "failed"
             /\ UNCHANGED <<removing, disk>>
    /\ UNCHANGED <<cfg, rows_count, nonDefault, stage, checksums, columnsList,
                   toRemove, held, committed>>

\* Finalizer::cancel, which ~Finalizer calls when impl is still set: impl is
\* moved out and Impl::cancel cancels the writer's column streams and every
\* held file.  Once impl is gone (after finish or cancel) both are no-ops.
Cancel ==
    /\ HasImpl
    /\ buf' = SetBuf(CancelledFiles, "cancelled")
    /\ handle' = "cancelled"
    /\ UNCHANGED <<cfg, rows_count, nonDefault, stage, checksums, columnsList,
                   toRemove, held, staged, removing, disk, committed>>

\* The caller commits the part's storage transaction after finish.
CommitPart ==
    /\ handle = "finished"
    /\ ~committed
    /\ disk' = (disk \cup staged) \ removing
    /\ staged' = {}
    /\ removing' = {}
    /\ committed' = TRUE
    /\ UNCHANGED <<cfg, rows_count, nonDefault, stage, handle, buf, checksums,
                   columnsList, toRemove, held>>

Next ==
    \/ \E n \in BatchSizes : Write(n)
    \/ WriteFail
    \/ StreamCancel
    \/ FinalizePartAsync
    \/ Finish
    \/ Cancel
    \/ CommitPart

\* ~Finalizer runs on every path out of the scope that owns the handle, so
\* a live handle that is never finished is eventually cancelled.
Spec == Init /\ [][Next]_vars /\ WF_vars(Cancel)

-----------------------------------------------------------------------------
(***************************************************************************)
(* Properties.                                                             *)
(***************************************************************************)
HandleStates == {"none", "live", "finished", "failed", "cancelled"}

TypeOK ==
    /\ cfg \in Config
    /\ rows_count \in 0..MaxRows
    /\ nonDefault \subseteq Columns
    /\ stage \in {"writing", "failed", "prepared", "cancelled"}
    /\ handle \in HandleStates
    /\ buf \in [Files -> BufStates]
    /\ checksums \subseteq Files
    /\ columnsList \subseteq Columns
    /\ toRemove \subseteq Columns
    /\ held \subseteq AuxFiles
    /\ staged \subseteq Files
    /\ removing \subseteq Files
    /\ disk \subseteq Files
    /\ committed \in BOOLEAN

\* Spec 8.2 on the committed part: every file its checksums name is on disk,
\* and every file on disk other than the plain metadata files is named.
\* It depends on fillChecksums, removeEmptyColumnsFromPart and
\* Impl::finish agreeing on the pruned columns, and on the removals running
\* in a transaction begun after the writes were committed.
CommittedPartConsistent ==
    committed => disk \ PlainFiles = checksums

\* Once the Finalizer has been finished or cancelled, no buffer of the part
\* is left open or pre-finalized: every column stream and every file
\* finalizePartOnDisk wrote was handed to Impl and settled by it.
ReleasedHandleSettlesBuffers ==
    handle \in {"finished", "cancelled"} =>
        \A f \in Files : buf[f] \notin {"open", "prefinal"}

\* A settled buffer never changes state again (a finalized file is never
\* cancelled, a cancelled one never finalized), and a Finalizer that was
\* finished, failed or cancelled stays so: finish and cancel move impl out
\* before acting, so neither can act twice nor after the other.
SettledStep ==
    /\ \A f \in Files : buf[f] \in Settled => buf'[f] = buf[f]
    /\ handle \in {"finished", "failed", "cancelled"} => handle' = handle

SettledStaysSettled == [][SettledStep]_vars

FA == INSTANCE FinalizerAbstract
        WITH Hashed <- Columns \cup HashedFiles, Plain <- PlainFiles,
             h <- handle, sums <- checksums,
             visible <- IF committed THEN disk ELSE {}

ImplementsFinalizer == FA!ASpec

\* Spec section 7: after the handle is used, either every file of the part
\* remains or none of the newly written ones does.  Finalizer::finish
\* resets impl before Impl::finish runs, so when that throws half way a
\* later cancel() or the destructor does nothing.
NoPartialFileSet ==
    handle \in {"finished", "failed", "cancelled"} =>
        \/ staged \cup disk = {}
        \/ Columns \cup held \subseteq staged \cup disk

\* Spec 8.7: finalizing a part whose min-max index is enabled (custom
\* partitioning) but was never initialized is rejected with a fatal error.
\* finalizePartOnDisk throws only when rows_count is non-zero.
MinMaxRequired ==
    (handle # "none" /\ ~cfg.isProjection /\ cfg.customPartitioning)
        => cfg.minmaxInit

\* Spec sections 3 and 6: checksums.txt names every file written for the
\* part.  write_plain_file adds no checksum for columns.txt,
\* columns_substreams.txt, metadata_version.txt or the codec file.
ChecksumsListAllFiles ==
    committed => disk \subseteq checksums \cup {"checksums.txt"}

=============================================================================
