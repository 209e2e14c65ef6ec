-------------------------- MODULE PartWriterProofs --------------------------
(***************************************************************************)
(* Proofs about the part writer of PartWriter.tla for every value of the   *)
(* constants allowed by ConstantsAssumption.                               *)
(***************************************************************************)
EXTENDS PartWriter, SequenceTheorems, TLAPS

\* The steps finalizePartOnDisk may take: file names and its LOGICAL_ERROR.
PlanStep == AuxFiles \cup {LogicalError}

\* Opt yields a sequence of the set its element is drawn from.
LEMMA OptType ==
    ASSUME NEW S, NEW b \in BOOLEAN, NEW f \in S
    PROVE  Opt(b, f) \in Seq(S)
BY DEF Opt

\* Every plan of finalizePartOnDisk is a sequence of file names and
\* LOGICAL_ERROR steps.
LEMMA PlanType ==
    ASSUME NEW c \in Config, NEW rows \in Nat, NEW cols
    PROVE  Plan(c, rows, cols) \in Seq(PlanStep)
<1> DEFINE S == PlanStep
           onDisk == ~c.isProjection
           custom == onDisk /\ c.customPartitioning
           minmax == IF c.minmaxInit THEN <<"minmax.idx">> ELSE Opt(rows # 0, LogicalError)
           p1 == Opt(onDisk /\ c.uuid, "uuid.txt")
           p2 == Opt(custom /\ c.partitionKey, "partition.dat")
           p3 == IF custom THEN minmax ELSE <<>>
           p4 == Opt(custom /\ c.sourceParts, "source_parts_set")
           p5 == Opt(c.ttl, "ttl.txt")
           p6 == Opt(c.serInfos, "serialization.json")
           p7 == Opt(cols # {}, "columns_substreams.txt")
           p8 == <<IF c.codec THEN "default_compression_codec.txt" ELSE LogicalError>>
<1>1. c.isProjection \in BOOLEAN /\ c.customPartitioning \in BOOLEAN
      /\ c.partitionKey \in BOOLEAN /\ c.minmaxInit \in BOOLEAN /\ c.uuid \in BOOLEAN
      /\ c.sourceParts \in BOOLEAN /\ c.ttl \in BOOLEAN /\ c.serInfos \in BOOLEAN
      /\ c.codec \in BOOLEAN
  BY DEF Config
<1>2. /\ "uuid.txt" \in S /\ "partition.dat" \in S /\ "minmax.idx" \in S
      /\ "source_parts_set" \in S /\ "count.txt" \in S /\ "ttl.txt" \in S
      /\ "serialization.json" \in S /\ "columns.txt" \in S
      /\ "columns_substreams.txt" \in S /\ "metadata_version.txt" \in S
      /\ "default_compression_codec.txt" \in S /\ "checksums.txt" \in S
      /\ LogicalError \in S
  BY DEF PlanStep, AuxFiles, HashedFiles, PlainFiles
<1>3. /\ p1 \in Seq(S) /\ p2 \in Seq(S) /\ p4 \in Seq(S) /\ p5 \in Seq(S)
      /\ p6 \in Seq(S) /\ p7 \in Seq(S)
  BY <1>1, <1>2, OptType
<1>4. p3 \in Seq(S)
  <2>1. Opt(rows # 0, LogicalError) \in Seq(S)
    BY <1>2, OptType
  <2>2. minmax \in Seq(S)
    BY <1>2, <2>1 DEF minmax
  <2>3. <<>> \in Seq(S)
    OBVIOUS
  <2>4. QED
    BY <2>2, <2>3 DEF p3
<1>5. /\ p8 \in Seq(S) /\ <<"count.txt">> \in Seq(S) /\ <<"columns.txt">> \in Seq(S)
      /\ <<"metadata_version.txt">> \in Seq(S) /\ <<"checksums.txt">> \in Seq(S)
  BY <1>1, <1>2
<1>6. ASSUME NEW s1 \in Seq(S), NEW s2 \in Seq(S) PROVE s1 \o s2 \in Seq(S)
  BY ConcatProperties
<1>7. Plan(c, rows, cols)
        = p1 \o p2 \o p3 \o p4 \o <<"count.txt">> \o p5 \o p6 \o <<"columns.txt">>
          \o p7 \o <<"metadata_version.txt">> \o p8 \o <<"checksums.txt">>
  BY DEF Plan
<1>8. QED
  BY <1>3, <1>4, <1>5, <1>6, <1>7

\* A plan that does not throw names only files of the part.
LEMMA PlanFiles ==
    ASSUME NEW c \in Config, NEW rows \in Nat, NEW cols,
           ~Throws(Plan(c, rows, cols))
    PROVE  Steps(Plan(c, rows, cols), Len(Plan(c, rows, cols))) \subseteq AuxFiles
<1> DEFINE p == Plan(c, rows, cols)
<1>1. p \in Seq(PlanStep)
  BY PlanType
<1>2. \A i \in 1..Len(p) : p[i] \in PlanStep /\ p[i] # LogicalError
  BY <1>1 DEF Throws, Steps
<1>3. QED
  BY <1>2 DEF Steps, PlanStep

\* The inductive strengthening of CommittedPartConsistent.  Once
\* finalizePartAsync has produced a Finalizer the checksums are fixed and
\* agree with the files it holds and those scheduled for removal; nothing
\* reaches the storage transaction before finish; after a successful
\* finish the transaction holds exactly the part's files and the removals
\* of the pruned columns.
IInv ==
    /\ TypeOK
    /\ stage = "writing" => handle = "none"
    /\ handle # "none" =>
          checksums = (Columns \ toRemove) \cup (held \cap HashedFiles)
    /\ handle \in {"none", "live", "cancelled"} =>
          staged = {} /\ disk = {} /\ removing = {}
    /\ handle = "finished" /\ ~committed =>
          disk \cup staged = Columns \cup held /\ removing = toRemove
    /\ committed => handle = "finished" /\ CommittedPartConsistent

\* The inductive strengthening of ReleasedHandleSettlesBuffers and of the
\* step property SettledStaysSettled.  While the stream is writing no buffer
\* has been settled and no Finalizer exists; a live Finalizer holds every
\* column stream and every file it wrote pre-finalized; and a buffer still
\* open or pre-finalized is one Impl will settle (a column stream or a held
\* file), so finish or cancel leaves none behind.
InitBuf == [f \in Files |-> IF f \in Columns THEN "open" ELSE "none"]
Pending == {"open", "prefinal"}

SInv ==
    /\ TypeOK
    /\ stage = "writing" => handle = "none" /\ buf = InitBuf
    /\ handle # "none" => stage = "prepared"
    /\ handle = "live" => \A f \in Columns \cup held : buf[f] = "prefinal"
    /\ \A f \in Files : buf[f] \in Pending => f \in Columns \cup held
    /\ ReleasedHandleSettlesBuffers

\* The initial states are well typed.
LEMMA InitTypeOK == Init => TypeOK
<1> SUFFICES ASSUME Init PROVE TypeOK
  OBVIOUS
<1>1. buf \in [Files -> BufStates]
  BY DEF Init, BufStates
<1>2. cfg \in Config /\ rows_count \in 0..MaxRows
  BY ConstantsAssumption DEF Init
<1>3. QED
  BY <1>1, <1>2 DEF Init, TypeOK, HandleStates

\* Every step keeps the state well typed.
LEMMA TypeOKInductive == TypeOK /\ [Next]_vars => TypeOK'
<1> SUFFICES ASSUME TypeOK, [Next]_vars PROVE TypeOK'
  OBVIOUS
<1> USE ConstantsAssumption
<1>1. ASSUME NEW n \in BatchSizes, Write(n) PROVE TypeOK'
  BY <1>1 DEF Write, TypeOK, HandleStates, BufStates
<1>2. CASE WriteFail
  BY <1>2 DEF WriteFail, TypeOK, HandleStates, BufStates
<1>3. CASE StreamCancel
  BY <1>3 DEF StreamCancel, TypeOK, HandleStates, BufStates, SetBuf
<1>4. CASE FinalizePartAsync
  <2> DEFINE removed == IF cfg.resetColumns THEN EmptyColumns ELSE {}
             cols    == Columns \ removed
             p       == Plan(cfg, rows_count, cols)
  <2>1. removed \subseteq Columns /\ cols \subseteq Columns
    BY DEF EmptyColumns
  <2>2. p \in Seq(PlanStep)
    BY PlanType DEF TypeOK, HandleStates, BufStates
  <2>3. CASE ~Throws(p)
    <3>1. Steps(p, Len(p)) \subseteq AuxFiles
      BY <2>3, PlanFiles DEF TypeOK, HandleStates, BufStates
    <3>2. QED
      BY <1>4, <2>1, <2>3, <3>1 DEF FinalizePartAsync, TypeOK, HandleStates, BufStates, SetBuf, Files
  <2>4. CASE Throws(p)
    BY <1>4, <2>4 DEF FinalizePartAsync, TypeOK, HandleStates, BufStates
  <2>5. QED
    BY <2>3, <2>4
<1>5. CASE Finish
  <2> DEFINE done == Columns \cup held
  <2>1. done \subseteq Files
    BY DEF TypeOK, HandleStates, BufStates, Files
  <2>2. RemoveAfterFinish(done) => (staged' \subseteq Files /\ removing' \subseteq Files
                                    /\ disk' \subseteq Files)
    BY <2>1 DEF RemoveAfterFinish, TypeOK, HandleStates, BufStates
  <2>3. QED
    BY <1>5, <2>1, <2>2 DEF Finish, TypeOK, HandleStates, BufStates, SetBuf, Files
<1>6. CASE Cancel
  BY <1>6 DEF Cancel, TypeOK, HandleStates, BufStates, SetBuf
<1>7. CASE CommitPart
  BY <1>7 DEF CommitPart, TypeOK, HandleStates, BufStates
<1>8. CASE UNCHANGED vars
  BY <1>8 DEF vars, TypeOK, HandleStates, BufStates
<1>9. QED
  BY <1>1, <1>2, <1>3, <1>4, <1>5, <1>6, <1>7, <1>8 DEF Next

\* Every state a behaviour of the part writer reaches is well typed.
THEOREM TypeCorrect == Spec => []TypeOK
<1>1. QED
  BY InitTypeOK, TypeOKInductive, PTL DEF Spec

\* IInv holds initially and is preserved by every step.
LEMMA IInvInductive == IInv /\ [Next]_vars => IInv'
<1> SUFFICES ASSUME IInv, [Next]_vars PROVE IInv'
  OBVIOUS
<1> USE ConstantsAssumption
<1>0. TypeOK'
  BY TypeOKInductive DEF IInv
<1>1. ASSUME NEW n \in BatchSizes, Write(n) PROVE IInv'
  BY <1>0, <1>1 DEF Write, IInv, CommittedPartConsistent
<1>2. CASE WriteFail
  BY <1>0, <1>2 DEF WriteFail, IInv, CommittedPartConsistent
<1>3. CASE StreamCancel
  BY <1>0, <1>3 DEF StreamCancel, IInv, CommittedPartConsistent
<1>4. CASE FinalizePartAsync
  <2>1. handle = "none" /\ ~committed
    BY <1>4 DEF FinalizePartAsync, IInv
  <2>2. QED
    BY <1>0, <1>4, <2>1 DEF FinalizePartAsync, IInv, CommittedPartConsistent, TypeOK
<1>5. CASE Finish
  <2> DEFINE done == Columns \cup held
  <2>1. handle = "live" /\ staged = {} /\ disk = {} /\ removing = {} /\ ~committed
    BY <1>5 DEF Finish, HasImpl, IInv
  <2>2. toRemove \subseteq Columns
    BY DEF IInv, TypeOK
  <2>3. CASE handle' = "finished"
    <3>1. RemoveAfterFinish(done)
      BY <1>5, <2>3 DEF Finish
    <3>2. disk' \cup staged' = done /\ removing' = toRemove
      BY <2>1, <2>2, <3>1 DEF RemoveAfterFinish
    <3>3. QED
      BY <1>0, <1>5, <2>1, <2>3, <3>2 DEF Finish, IInv
  <2>4. CASE handle' # "finished"
    BY <1>0, <1>5, <2>1, <2>4 DEF Finish, IInv
  <2>5. QED
    BY <2>3, <2>4
<1>6. CASE Cancel
  BY <1>0, <1>6 DEF Cancel, HasImpl, IInv, CommittedPartConsistent
<1>7. CASE CommitPart
  <2>1. handle = "finished" /\ ~committed
    BY <1>7 DEF CommitPart
  <2>2. disk \cup staged = Columns \cup held /\ removing = toRemove
        /\ checksums = (Columns \ toRemove) \cup (held \cap HashedFiles)
    BY <2>1 DEF IInv
  <2>3. /\ held \subseteq HashedFiles \cup PlainFiles
        /\ toRemove \subseteq Columns
        /\ Columns \cap PlainFiles = {}
        /\ Columns \cap held = {}
        /\ HashedFiles \cap PlainFiles = {}
    BY DEF IInv, TypeOK, AuxFiles, HashedFiles, PlainFiles
  <2>4. disk' \ PlainFiles = checksums'
    BY <1>7, <2>2, <2>3 DEF CommitPart
  <2>5. QED
    BY <1>0, <1>7, <2>1, <2>4 DEF CommitPart, IInv, CommittedPartConsistent
<1>8. CASE UNCHANGED vars
  BY <1>0, <1>8 DEF vars, IInv, CommittedPartConsistent
<1>9. QED
  BY <1>1, <1>2, <1>3, <1>4, <1>5, <1>6, <1>7, <1>8 DEF Next

\* IInv holds in every reachable state: the checksums agree with the files
\* of a Finalizer from finalizePartAsync on, the storage transaction stays
\* empty until a successful Impl::finish, and a commit follows only a
\* successful finish.
THEOREM IInvHolds == Spec => []IInv
<1>1. Init => IInv
  BY InitTypeOK DEF Init, IInv, CommittedPartConsistent
<1>2. QED
  BY <1>1, IInvInductive, PTL DEF Spec

\* The committed part is consistent with its checksums (spec 8.2) for every
\* set of columns and every part configuration: pruned column files are
\* removed after the write transaction commits, and every other
\* non-plain file is named.
THEOREM CommittedPartConsistentHolds == Spec => []CommittedPartConsistent
<1>1. IInv => CommittedPartConsistent
  BY DEF IInv, CommittedPartConsistent
<1>2. QED
  BY <1>1, IInvHolds, PTL

-----------------------------------------------------------------------------
(***************************************************************************)
(* Refinement: the writer implements FinalizerAbstract under the mapping    *)
(* FA of PartWriter.tla.  Every step is a step of the abstract handle or    *)
(* leaves the handle, the checksums and what readers see unchanged; the     *)
(* caller's commit publishes exactly the checksummed files plus plain      *)
(* files, which is CommittedPartConsistent in the state after the commit.   *)
(***************************************************************************)

\* The initial state is an initial state of the abstract handle.
LEMMA InitRefines == Init => FA!AInit
BY DEF Init, FA!AInit

\* Every step of the writer from a state of IInv is an abstract step or a
\* stutter.
LEMMA NextRefines == IInv /\ [Next]_vars => [FA!ANext]_FA!avars
<1> SUFFICES ASSUME IInv, [Next]_vars PROVE [FA!ANext]_FA!avars
  OBVIOUS
<1> USE ConstantsAssumption
<1> DEFINE vis == IF committed THEN disk ELSE {}
<1>0. IInv'
  BY IInvInductive
<1>1. ASSUME NEW n \in BatchSizes, Write(n) PROVE UNCHANGED FA!avars
  BY <1>1 DEF Write, FA!avars
<1>2. CASE WriteFail
  BY <1>2 DEF WriteFail, FA!avars
<1>3. CASE StreamCancel
  BY <1>3 DEF StreamCancel, FA!avars
<1>4. CASE FinalizePartAsync
  <2> DEFINE removed == IF cfg.resetColumns THEN EmptyColumns ELSE {}
             cols    == Columns \ removed
             p       == Plan(cfg, rows_count, cols)
  <2>1. handle = "none" /\ UNCHANGED <<committed, disk>>
    BY <1>4 DEF FinalizePartAsync, IInv
  <2>2. CASE UNCHANGED <<handle, checksums>>
    BY <2>1, <2>2 DEF FA!avars
  <2>3. CASE ~UNCHANGED <<handle, checksums>>
    <3>1. handle' = "live" /\ checksums' = cols \cup (Steps(p, Len(p)) \cap HashedFiles)
      BY <1>4, <2>3 DEF FinalizePartAsync
    <3>2. checksums' \subseteq Columns \cup HashedFiles
      BY <3>1
    <3>3. QED
      BY <2>1, <3>1, <3>2 DEF FA!ANext, FA!APrepare
  <2>4. QED
    BY <2>2, <2>3
<1>5. CASE Finish
  <2>1. handle = "live" /\ ~committed /\ ~committed'
    BY <1>5 DEF Finish, HasImpl, IInv
  <2>2. handle' \in {"finished", "failed"} /\ UNCHANGED checksums
    BY <1>5 DEF Finish
  <2>3. QED
    BY <2>1, <2>2 DEF FA!ANext, FA!AFinish
<1>6. CASE Cancel
  <2>1. handle = "live" /\ ~committed /\ ~committed'
    BY <1>6 DEF Cancel, HasImpl, IInv
  <2>2. QED
    BY <1>6, <2>1 DEF Cancel, FA!ANext, FA!ACancel
<1>7. CASE CommitPart
  <2>1. handle = "finished" /\ ~committed /\ committed' /\ UNCHANGED <<handle, checksums>>
    BY <1>7 DEF CommitPart
  <2>2. disk' \ PlainFiles = checksums'
    BY <1>0, <2>1 DEF IInv, CommittedPartConsistent
  <2>3. disk' = checksums \cup (disk' \cap PlainFiles)
    BY <2>1, <2>2
  <2>4. QED
    BY <2>1, <2>3 DEF FA!ANext, FA!APublish
<1>8. CASE UNCHANGED vars
  BY <1>8 DEF vars, FA!avars
<1>9. QED
  BY <1>1, <1>2, <1>3, <1>4, <1>5, <1>6, <1>7, <1>8 DEF Next

\* The part writer implements the abstract commit handle for every set of
\* columns and every configuration: the Finalizer is used once, and readers
\* see nothing until a finished part is committed whole.
THEOREM Refinement == Spec => ImplementsFinalizer
<1>1. Init => IInv
  BY InitTypeOK DEF Init, IInv, CommittedPartConsistent
<1>2. QED
  BY <1>1, InitRefines, NextRefines, IInvInductive, PTL
     DEF Spec, ImplementsFinalizer, FA!ASpec

-----------------------------------------------------------------------------
(***************************************************************************)
(* Buffers are settled once: SInv is inductive, and every step from a state *)
(* of SInv leaves settled buffers and a released Finalizer alone.          *)
(***************************************************************************)

\* SInv holds in every initial state.
LEMMA InitSInv == Init => SInv
BY InitTypeOK DEF Init, SInv, InitBuf, Pending, ReleasedHandleSettlesBuffers

\* SInv is preserved by every step.
LEMMA SInvInductive == SInv /\ [Next]_vars => SInv'
<1> SUFFICES ASSUME SInv, [Next]_vars PROVE SInv'
  OBVIOUS
<1> USE ConstantsAssumption
<1>0. TypeOK'
  BY TypeOKInductive DEF SInv
<1>1. ASSUME NEW n \in BatchSizes, Write(n) PROVE SInv'
  BY <1>0, <1>1 DEF Write, SInv, ReleasedHandleSettlesBuffers
<1>2. CASE WriteFail
  BY <1>0, <1>2 DEF WriteFail, SInv, ReleasedHandleSettlesBuffers
<1>3. CASE StreamCancel
  <2>1. handle # "live"
    BY <1>3 DEF StreamCancel, SInv
  <2>2. \A f \in Files : buf'[f] \in Pending => buf[f] \in Pending /\ buf'[f] = buf[f]
    BY <1>3 DEF StreamCancel, SetBuf, Pending
  <2>3. QED
    BY <1>0, <1>3, <2>1, <2>2 DEF StreamCancel, SInv, ReleasedHandleSettlesBuffers, Pending
<1>4. CASE FinalizePartAsync
  <2> DEFINE removed == IF cfg.resetColumns THEN EmptyColumns ELSE {}
             cols    == Columns \ removed
             p       == Plan(cfg, rows_count, cols)
  <2>1. handle = "none" /\ buf = InitBuf
    BY <1>4 DEF FinalizePartAsync, SInv
  <2>2. CASE handle' = "live"
    <3>1. /\ ~Throws(p)
          /\ buf' = SetBuf(Columns \cup Steps(p, Len(p)), "prefinal")
          /\ held' = Steps(p, Len(p))
          /\ stage' = "prepared"
      BY <1>4, <2>1, <2>2 DEF FinalizePartAsync
    <3>2. Steps(p, Len(p)) \subseteq Files
      BY <3>1, PlanFiles DEF TypeOK, Files, SInv
    <3>3. \A f \in Files : buf'[f] \in Pending => f \in Columns \cup held'
      BY <2>1, <3>1 DEF SetBuf, InitBuf, Pending
    <3>4. \A f \in Columns \cup held' : buf'[f] = "prefinal"
      BY <3>1, <3>2 DEF SetBuf, Files
    <3>5. QED
      BY <1>0, <2>2, <3>1, <3>3, <3>4 DEF SInv, ReleasedHandleSettlesBuffers
  <2>3. CASE handle' # "live"
    <3>1. handle' = "none" /\ stage' = "failed" /\ held' = held
      BY <1>4, <2>1, <2>3 DEF FinalizePartAsync
    <3>2. \A f \in Files : buf'[f] \in Pending => f \in Columns
      BY <1>4, <2>1, <2>3 DEF FinalizePartAsync, InitBuf, Pending
    <3>3. QED
      BY <1>0, <3>1, <3>2 DEF SInv, ReleasedHandleSettlesBuffers
  <2>4. QED
    BY <2>2, <2>3
<1>5. CASE Finish
  <2> DEFINE done == Columns \cup held
  <2>1. handle = "live" /\ stage = "prepared" /\ UNCHANGED <<stage, held>>
    BY <1>5 DEF Finish, HasImpl, SInv
  <2>2. CASE handle' = "finished"
    <3>1. buf' = SetBuf(done, "final")
      BY <1>5, <2>2 DEF Finish
    <3>2. \A f \in Files : buf'[f] \notin Pending
      BY <3>1 DEF SetBuf, SInv, Pending
    <3>3. QED
      BY <1>0, <2>1, <2>2, <3>2 DEF SInv, ReleasedHandleSettlesBuffers, Pending
  <2>3. CASE handle' # "finished"
    <3>1. handle' = "failed"
      BY <1>5, <2>3 DEF Finish
    <3>2. \A f \in Files : buf'[f] \in Pending => buf[f] \in Pending
      BY <1>5, <2>3 DEF Finish, Pending
    <3>3. QED
      BY <1>0, <2>1, <3>1, <3>2 DEF SInv, ReleasedHandleSettlesBuffers
  <2>4. QED
    BY <2>2, <2>3
<1>6. CASE Cancel
  <2>1. handle = "live" /\ handle' = "cancelled" /\ UNCHANGED <<stage, held>>
    BY <1>6 DEF Cancel, HasImpl, SInv
  <2>2. buf' = SetBuf(CancelledFiles, "cancelled")
    BY <1>6 DEF Cancel
  <2>3. \A f \in Files : buf'[f] \notin Pending
    BY <2>2 DEF SetBuf, CancelledFiles, SInv, Pending, Settled
  <2>4. QED
    BY <1>0, <2>1, <2>3 DEF SInv, ReleasedHandleSettlesBuffers, Pending
<1>7. CASE CommitPart
  BY <1>0, <1>7 DEF CommitPart, SInv, ReleasedHandleSettlesBuffers
<1>8. CASE UNCHANGED vars
  BY <1>0, <1>8 DEF vars, SInv, ReleasedHandleSettlesBuffers
<1>9. QED
  BY <1>1, <1>2, <1>3, <1>4, <1>5, <1>6, <1>7, <1>8 DEF Next

\* SInv holds in every reachable state: before finalizePartAsync no
\* Finalizer exists and every column stream is open, a live Finalizer
\* holds all its streams pre-finalized, and only the streams Impl will
\* settle can be pending.
THEOREM SInvHolds == Spec => []SInv
BY InitSInv, SInvInductive, PTL DEF Spec

\* Once the Finalizer is finished or cancelled, no write buffer of the part
\* is left open or pre-finalized, for every set of columns and every
\* configuration: Impl settles every column stream and every held file.
THEOREM ReleasedHandleSettlesBuffersHolds == Spec => []ReleasedHandleSettlesBuffers
<1>1. SInv => ReleasedHandleSettlesBuffers
  BY DEF SInv
<1>2. QED
  BY <1>1, SInvHolds, PTL

\* Every step from a state of SInv leaves settled buffers and a released
\* Finalizer unchanged.
LEMMA SettledStepHolds == SInv /\ [Next]_vars => [SettledStep]_vars
<1> SUFFICES ASSUME SInv, [Next]_vars PROVE [SettledStep]_vars
  OBVIOUS
<1>1. ASSUME NEW n \in BatchSizes, Write(n) PROVE SettledStep
  BY <1>1 DEF Write, SettledStep
<1>2. CASE WriteFail
  BY <1>2 DEF WriteFail, SettledStep
<1>3. CASE StreamCancel
  BY <1>3 DEF StreamCancel, SettledStep, SetBuf, Settled
<1>4. CASE FinalizePartAsync
  <2>1. handle = "none" /\ buf = InitBuf
    BY <1>4 DEF FinalizePartAsync, SInv
  <2>2. \A f \in Files : buf[f] \notin Settled
    BY <2>1 DEF InitBuf, Settled
  <2>3. QED
    BY <2>1, <2>2 DEF SettledStep
<1>5. CASE Finish
  <2>1. handle = "live" /\ \A f \in Columns \cup held : buf[f] = "prefinal"
    BY <1>5 DEF Finish, HasImpl, SInv
  <2>2. \A f \in Files : buf[f] \in Settled => buf'[f] = buf[f]
    BY <1>5, <2>1 DEF Finish, SetBuf, Settled
  <2>3. QED
    BY <2>1, <2>2 DEF SettledStep
<1>6. CASE Cancel
  BY <1>6 DEF Cancel, HasImpl, SettledStep, SetBuf, CancelledFiles
<1>7. CASE CommitPart
  BY <1>7 DEF CommitPart, SettledStep
<1>8. CASE UNCHANGED vars
  BY <1>8 DEF vars
<1>9. QED
  BY <1>1, <1>2, <1>3, <1>4, <1>5, <1>6, <1>7, <1>8 DEF Next

\* A settled buffer never changes state again and a released Finalizer stays
\* released, for every set of columns and every configuration: finish and
\* cancel act only on a live Finalizer, whose buffers are all pre-finalized.
THEOREM SettledStaysSettledHolds == Spec => SettledStaysSettled
<1>1. QED
  BY InitSInv, SInvInductive, SettledStepHolds, PTL DEF Spec, SettledStaysSettled
=============================================================================
