------------------------------ MODULE TTLCalc ------------------------------
(***************************************************************************)
(* TTL bookkeeping of a part being rewritten (TTLCalcTransform in          *)
(* src/Processors/Transforms/TTLCalcTransform.cpp).                        *)
(*                                                                         *)
(* The constructor creates one TTLUpdateInfoAlgorithm per TTL rule of the  *)
(* metadata snapshot (rows, rows-where, group-by, column, move,            *)
(* recompression), each keyed by its result column and given the part's   *)
(* old TTL info for that key.  consume() runs every algorithm over each    *)
(* block; generate() runs them over an empty block once the input is       *)
(* exhausted; when prepare() reports Finished, finalize() clears the       *)
(* part's ttl_infos and lets every algorithm store its bounds.             *)
(*                                                                         *)
(* TTLUpdateInfoAlgorithm and TTLInfo are not in the repository; they are  *)
(* modelled from the spec (section 4.3): an algorithm starts from the old  *)
(* bounds unless force is set, and TTLInfo::update keeps the least         *)
(* non-zero and the greatest timestamp, 0 meaning "no timestamp".          *)
(***************************************************************************)
EXTENDS Naturals, Sequences

CONSTANTS
    Rules,          \* result-column keys of the TTL rules in the metadata
    StaleKeys,      \* keys in the part's old ttl_infos with no rule any more
    MaxTime,        \* timestamps are 0..MaxTime, 0 meaning none
    MaxBlockRows,   \* bound on the matching rows of one block, per rule
    MaxBlocks       \* bound on the number of blocks consumed

ASSUME TTLConstantsAssumption ==
    /\ Rules \cap StaleKeys = {}
    /\ MaxTime \in Nat
    /\ MaxBlockRows \in Nat
    /\ MaxBlocks \in Nat

Keys == Rules \cup StaleKeys
Time == 0..MaxTime

\* TTLInfo: the least and greatest timestamp seen, 0 when none.
Info == [min : Time, max : Time]
EmptyInfo == [min |-> 0, max |-> 0]

\* The TTL infos a part can carry: no bound, or 0 < min <= max.
ValidInfo == {i \in Info : (i.min = 0 /\ i.max = 0) \/ (0 < i.min /\ i.min <= i.max)}

VARIABLES
    phase,      \* "consuming", "generated" (generate() returned nothing), "finished"
    force,      \* the force flag of the constructor
    oldInfo,    \* the part's ttl_infos when the transform was created
    algo,       \* rule -> new_ttl_info of its TTLUpdateInfoAlgorithm
    partInfo,   \* data_part->ttl_infos: a function on the keys it holds
    blocks,     \* number of blocks consumed
    seen        \* rule -> timestamps of every matching row consumed (history)

vars == <<phase, force, oldInfo, algo, partInfo, blocks, seen>>

-----------------------------------------------------------------------------
\* A TTLInfo::update that forgets that 0 means "no timestamp".
UpdateZeroAsTime(i, t) ==
    [min |-> IF i.min = 0 \/ t < i.min THEN t ELSE i.min,
     max |-> IF t > i.max THEN t ELSE i.max]

\* TTLInfo::update for one row.
Update(i, t) ==
    [min |-> IF t # 0 /\ (i.min = 0 \/ t < i.min) THEN t ELSE i.min,
     max |-> IF t > i.max THEN t ELSE i.max]

\* TTLUpdateInfoAlgorithm::execute: update with every matching row of the
\* block, in order.
Execute(i, rows) ==
    LET acc[k \in 0..Len(rows)] == IF k = 0 THEN i ELSE Update(acc[k - 1], rows[k])
    IN  acc[Len(rows)]

\* The bounds an algorithm starts from: the constructor reads the key from a
\* copy of the part's infos, where a missing key reads as an empty info.
Seed(r) == IF force \/ r \notin DOMAIN oldInfo THEN EmptyInfo ELSE oldInfo[r]

\* The part's infos as loaded: any valid bounds for any subset of the keys.
PartInfos == UNION {[D -> ValidInfo] : D \in SUBSET Keys}

\* The matching rows a block may have for one rule.
RowSeqs == UNION {[1..n -> Time] : n \in 0..MaxBlockRows}

Range(s) == {s[i] : i \in DOMAIN s}

-----------------------------------------------------------------------------
\* The constructor: one algorithm per rule, seeded from the old infos.
Init ==
    /\ phase = "consuming"
    /\ force \in BOOLEAN
    /\ oldInfo \in PartInfos
    /\ algo = [r \in Rules |-> Seed(r)]
    /\ partInfo = oldInfo
    /\ blocks = 0
    /\ seen = [r \in Rules |-> {}]

\* consume(): every algorithm executes on the block; what is passed on
\* downstream does not change the bookkeeping.
Consume ==
    /\ phase = "consuming"
    /\ blocks < MaxBlocks
    /\ \E rows \in [Rules -> RowSeqs] :
          /\ algo' = [r \in Rules |-> Execute(algo[r], rows[r])]
          /\ seen' = [r \in Rules |-> seen[r] \cup Range(rows[r])]
    /\ blocks' = blocks + 1
    /\ UNCHANGED <<phase, force, oldInfo, partInfo>>

\* The input is exhausted: generate() executes every algorithm on an empty
\* block, which changes nothing, and returns no chunk.
Generate ==
    /\ phase = "consuming"
    /\ phase' = "generated"
    /\ UNCHANGED <<force, oldInfo, algo, partInfo, blocks, seen>>

\* A finalize() that merges into the old infos instead of clearing them.
FinalizeMerge ==
    partInfo' = [k \in DOMAIN partInfo \cup Rules |->
                    IF k \in Rules THEN algo[k] ELSE partInfo[k]]

\* finalize(): ttl_infos is cleared and every algorithm stores its bounds
\* under its key.
Finalize ==
    partInfo' = [r \in Rules |-> algo[r]]

\* prepare(): when the base prepare() reports Finished, finalize() runs.  It
\* does so after generate() has returned nothing, and also while blocks are
\* still coming if the downstream processor has finished its input.
Prepare ==
    /\ phase \in {"consuming", "generated"}
    /\ phase' = "finished"
    /\ Finalize
    /\ UNCHANGED <<force, oldInfo, algo, blocks, seen>>

Next == Consume \/ Generate \/ Prepare

Spec == Init /\ [][Next]_vars

-----------------------------------------------------------------------------
\* Type invariant; every bound the algorithms hold or store is a valid TTL
\* info (none, or 0 < min <= max), which TTLInfo::update must keep.
TypeOK ==
    /\ phase \in {"consuming", "generated", "finished"}
    /\ force \in BOOLEAN
    /\ oldInfo \in PartInfos
    /\ algo \in [Rules -> ValidInfo]
    /\ partInfo \in PartInfos
    /\ blocks \in 0..MaxBlocks
    /\ seen \in [Rules -> SUBSET Time]

\* The least non-zero and the greatest element of a set of timestamps,
\* 0 when there is none: the reference the row-by-row updates must match.
LeastSet(S) == IF S \ {0} = {} THEN 0
               ELSE CHOOSE x \in S \ {0} : \A y \in S \ {0} : x <= y
GreatestSet(S) == IF S = {} THEN 0 ELSE CHOOSE x \in S : \A y \in S : y <= x

Hull(i, S) == [min |-> LeastSet({i.min} \cup S), max |-> GreatestSet({i.max} \cup S)]

\* Once the transform has finished, the part's TTL info of every rule is the
\* hull of its seed (the old bounds, unless force) and every matching row's
\* timestamp consumed, whatever the blocks and the order of the rows, and
\* keys of rules no longer in the metadata are gone (spec 4.3, 8.4).
TTLBoundsExact ==
    phase = "finished" =>
        /\ DOMAIN partInfo = Rules
        /\ \A r \in Rules : partInfo[r] = Hull(Seed(r), seen[r])
=============================================================================
