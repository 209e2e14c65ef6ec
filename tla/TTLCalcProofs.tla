---------------------------- MODULE TTLCalcProofs ----------------------------
(***************************************************************************)
(* Proofs about the TTL bookkeeping (TTLCalc.tla).                         *)
(*                                                                         *)
(* TTLBoundsExact says that the stored bounds of a rule are the hull of    *)
(* its seed and of every matching timestamp consumed.  Its argument:       *)
(*   - the hull of a seed and no timestamps is the seed (HullOfNothing);   *)
(*   - one TTLInfo::update turns the hull of a set of timestamps into the  *)
(*     hull of that set and the row's timestamp (UpdateIsIncrementalHull); *)
(*   - so the row loop of execute() turns it into the hull of the set and  *)
(*     the block's rows (ExecuteIsHull): the loop is a recursive function  *)
(*     over 0..Len(rows), shown equal to the hulls of the prefixes by a    *)
(*     least index where they would differ, not by an induction rule;      *)
(*   - finalize stores exactly the algorithms' bounds under the rules'     *)
(*     keys and nothing else (StoredBoundsAreAlgorithmsHolds).             *)
(* IInv joins them into an inductive invariant, from which TypeCorrect and *)
(* TTLBoundsExactHolds follow for every value of the constants.            *)
(***************************************************************************)
EXTENDS TTLCalc, WellFoundedInduction, TLAPS

\* x is the least non-zero timestamp of T, or 0 when T has none.
IsLeastNonZero(x, T) ==
    IF T \ {0} = {} THEN x = 0
    ELSE x \in T \ {0} /\ \A y \in T \ {0} : x <= y

\* x is the greatest timestamp of T, or 0 when T is empty.
IsGreatest(x, T) ==
    IF T = {} THEN x = 0
    ELSE x \in T /\ \A y \in T : y <= x

-----------------------------------------------------------------------------
(* Least and greatest elements.                                            *)

\* Every non-empty set of naturals has a least element (well-foundedness
\* of < on Nat).
LEMMA NatHasLeast ==
  ASSUME NEW T \in SUBSET Nat, T # {}
  PROVE  \E x \in T : \A y \in T : x <= y
<1>1. \E x \in T : \A y \in T : ~(<<y, x>> \in OpToRel(<, Nat))
  BY NatLessThanWellFounded, WFMin
<1>2. PICK x \in T : \A y \in T : ~(<<y, x>> \in OpToRel(<, Nat))
  BY <1>1
<1>3. ASSUME NEW y \in T PROVE x <= y
  <2>1. <<y, x>> \in Nat \X Nat /\ <<y, x>>[1] = y /\ <<y, x>>[2] = x
    OBVIOUS
  <2>2. ~(y < x)
    BY <1>2, <2>1 DEF OpToRel
  <2>3. QED
    BY <2>2
<1>4. QED
  BY <1>3

\* Every non-empty set of timestamps has a greatest element: the least
\* distance to MaxTime.
LEMMA TimeHasGreatest ==
  ASSUME NEW T \in SUBSET Time, T # {}
  PROVE  \E x \in T : \A y \in T : y <= x
<1> DEFINE U == {MaxTime - y : y \in T}
<1>1. U \in SUBSET Nat /\ U # {}
  <2>1. \A y \in T : MaxTime - y \in Nat
    BY TTLConstantsAssumption DEF Time
  <2>2. PICK y0 \in T : TRUE
    OBVIOUS
  <2>3. MaxTime - y0 \in U
    OBVIOUS
  <2>4. QED
    BY <2>1, <2>3
<1>2. PICK u \in U : \A v \in U : u <= v
  BY <1>1, NatHasLeast
<1>3. PICK x \in T : u = MaxTime - x
  BY <1>2
<1>4. ASSUME NEW y \in T PROVE y <= x
  <2>1. MaxTime - y \in U
    OBVIOUS
  <2>2. MaxTime - x <= MaxTime - y
    BY <1>2, <1>3, <2>1
  <2>3. x \in Time /\ y \in Time
    OBVIOUS
  <2>4. QED
    BY <2>2, <2>3, TTLConstantsAssumption DEF Time
<1>5. QED
  BY <1>3, <1>4

\* LeastSet and GreatestSet return the least non-zero and the greatest
\* timestamp.
LEMMA LeastSetIsLeast ==
  ASSUME NEW T \in SUBSET Time
  PROVE  IsLeastNonZero(LeastSet(T), T)
<1>1. CASE T \ {0} = {}
  BY <1>1 DEF LeastSet, IsLeastNonZero
<1>2. CASE T \ {0} # {}
  <2>0. T \ {0} \in SUBSET Nat
    BY TTLConstantsAssumption DEF Time
  <2>1. \E x \in T \ {0} : \A y \in T \ {0} : x <= y
    BY <1>2, <2>0, NatHasLeast
  <2>2. QED
    BY <1>2, <2>1 DEF LeastSet, IsLeastNonZero
<1>3. QED
  BY <1>1, <1>2

LEMMA GreatestSetIsGreatest ==
  ASSUME NEW T \in SUBSET Time
  PROVE  IsGreatest(GreatestSet(T), T)
<1>1. CASE T = {}
  BY <1>1 DEF GreatestSet, IsGreatest
<1>2. CASE T # {}
  <2>1. \E x \in T : \A y \in T : y <= x
    BY <1>2, TimeHasGreatest
  <2>2. QED
    BY <1>2, <2>1 DEF GreatestSet, IsGreatest
<1>3. QED
  BY <1>1, <1>2

\* The least non-zero and the greatest element are unique.
LEMMA ExtremaUnique ==
  ASSUME NEW T \in SUBSET Time, NEW x, NEW z
  PROVE  /\ IsLeastNonZero(x, T) /\ IsLeastNonZero(z, T) => x = z
         /\ IsGreatest(x, T) /\ IsGreatest(z, T) => x = z
<1>1. T \subseteq Nat
  BY TTLConstantsAssumption DEF Time
<1>2. IsLeastNonZero(x, T) /\ IsLeastNonZero(z, T) => x = z
  <2>1. CASE T \ {0} = {}
    BY <2>1 DEF IsLeastNonZero
  <2>2. CASE T \ {0} # {}
    <3> SUFFICES ASSUME x \in T \ {0}, z \in T \ {0},
                        \A y \in T \ {0} : x <= y, \A y \in T \ {0} : z <= y
                 PROVE  x = z
      BY <2>2 DEF IsLeastNonZero
    <3>1. x \in Nat /\ z \in Nat /\ x <= z /\ z <= x
      BY <1>1
    <3>2. QED
      BY <3>1
  <2>3. QED
    BY <2>1, <2>2
<1>3. IsGreatest(x, T) /\ IsGreatest(z, T) => x = z
  <2>1. CASE T = {}
    BY <2>1 DEF IsGreatest
  <2>2. CASE T # {}
    <3> SUFFICES ASSUME x \in T, z \in T, \A y \in T : y <= x, \A y \in T : y <= z
                 PROVE  x = z
      BY <2>2 DEF IsGreatest
    <3>1. x \in Nat /\ z \in Nat /\ x <= z /\ z <= x
      BY <1>1
    <3>2. QED
      BY <3>1
  <2>3. QED
    BY <2>1, <2>2
<1>4. QED
  BY <1>2, <1>3

-----------------------------------------------------------------------------
(* TTLInfo::update.                                                        *)

\* TTLInfo::update keeps a TTL info valid: no bounds, or 0 < min <= max,
\* whatever the row's timestamp, 0 ("no TTL") included.
THEOREM UpdateKeepsValid ==
  ASSUME NEW i \in ValidInfo, NEW t \in Time
  PROVE  Update(i, t) \in ValidInfo
BY TTLConstantsAssumption DEF ValidInfo, Info, Time, Update

\* One update with the least non-zero and the greatest of sets Tm and TM
\* yields the least non-zero of Tm and t and the greatest of TM and t.
LEMMA UpdateExtendsBounds ==
  ASSUME NEW i \in Info, NEW Tm \in SUBSET Time, NEW TM \in SUBSET Time,
         IsLeastNonZero(i.min, Tm), IsGreatest(i.max, TM),
         NEW t \in Time
  PROVE  /\ IsLeastNonZero(Update(i, t).min, Tm \cup {t})
         /\ IsGreatest(Update(i, t).max, TM \cup {t})
<1>1. IsLeastNonZero(Update(i, t).min, Tm \cup {t})
  BY TTLConstantsAssumption DEF IsLeastNonZero, Update, Info, Time
<1>2. IsGreatest(Update(i, t).max, TM \cup {t})
  BY TTLConstantsAssumption DEF IsGreatest, Update, Info, Time
<1>3. QED
  BY <1>1, <1>2

\* The bounds of a seed and no timestamps are the seed: an algorithm that
\* has seen no row stores the old bounds (or none under force).
THEOREM HullOfNothing ==
  ASSUME NEW i \in ValidInfo
  PROVE  Hull(i, {}) = i
<1>1. IsLeastNonZero(i.min, {i.min}) /\ IsGreatest(i.max, {i.max})
  BY TTLConstantsAssumption DEF IsLeastNonZero, IsGreatest, ValidInfo, Info, Time
<1>2. {i.min} \in SUBSET Time /\ {i.max} \in SUBSET Time
  BY DEF ValidInfo, Info
<1>3. LeastSet({i.min}) = i.min /\ GreatestSet({i.max}) = i.max
  BY <1>1, <1>2, LeastSetIsLeast, GreatestSetIsGreatest, ExtremaUnique
<1>4. QED
  BY <1>3 DEF Hull, ValidInfo, Info

\* The row step of TTLBoundsExact: TTLInfo::update applied to the hull of a
\* seed and a set of timestamps is the hull of the seed and the set with
\* the row's timestamp, so updating row by row, in any order, computes the
\* hull of everything seen.
THEOREM UpdateIsIncrementalHull ==
  ASSUME NEW i \in Info, NEW S \in SUBSET Time, NEW t \in Time
  PROVE  Update(Hull(i, S), t) = Hull(i, S \cup {t})
<1> DEFINE Tm == {i.min} \cup S
           TM == {i.max} \cup S
<1>1. Tm \in SUBSET Time /\ TM \in SUBSET Time
  BY DEF Info
<1>2. IsLeastNonZero(LeastSet(Tm), Tm) /\ IsGreatest(GreatestSet(TM), TM)
  BY <1>1, LeastSetIsLeast, GreatestSetIsGreatest
<1>3. Hull(i, S) \in Info
  BY <1>1, <1>2 DEF Hull, Info, IsLeastNonZero, IsGreatest, Time
<1>4. /\ IsLeastNonZero(Update(Hull(i, S), t).min, Tm \cup {t})
      /\ IsGreatest(Update(Hull(i, S), t).max, TM \cup {t})
  <2>1. Hull(i, S).min = LeastSet(Tm) /\ Hull(i, S).max = GreatestSet(TM)
    BY DEF Hull
  <2>2. QED
    BY <1>1, <1>2, <1>3, <2>1, UpdateExtendsBounds
<1>5. /\ Tm \cup {t} = {i.min} \cup (S \cup {t})
      /\ TM \cup {t} = {i.max} \cup (S \cup {t})
      /\ Tm \cup {t} \in SUBSET Time /\ TM \cup {t} \in SUBSET Time
  <2>1. Tm \cup {t} = {i.min} \cup (S \cup {t}) /\ TM \cup {t} = {i.max} \cup (S \cup {t})
    OBVIOUS
  <2>2. Tm \cup {t} \in SUBSET Time /\ TM \cup {t} \in SUBSET Time
    BY <1>1
  <2>3. QED
    BY <2>1, <2>2
<1>6. /\ Update(Hull(i, S), t).min = LeastSet(Tm \cup {t})
      /\ Update(Hull(i, S), t).max = GreatestSet(TM \cup {t})
  BY <1>4, <1>5, LeastSetIsLeast, GreatestSetIsGreatest, ExtremaUnique
<1>7. QED
  BY <1>5, <1>6 DEF Update, Hull

\* The hull of valid bounds and any timestamps is valid bounds.
LEMMA HullValid ==
  ASSUME NEW i \in ValidInfo, NEW S \in SUBSET Time
  PROVE  Hull(i, S) \in ValidInfo
<1> DEFINE Tm == {i.min} \cup S
           TM == {i.max} \cup S
<1>1. Tm \in SUBSET Time /\ TM \in SUBSET Time
  BY DEF ValidInfo, Info
<1>2. IsLeastNonZero(LeastSet(Tm), Tm) /\ IsGreatest(GreatestSet(TM), TM)
  BY <1>1, LeastSetIsLeast, GreatestSetIsGreatest
<1>3. QED
  BY <1>1, <1>2, TTLConstantsAssumption
     DEF Hull, ValidInfo, Info, IsLeastNonZero, IsGreatest, Time

\* TTLUpdateInfoAlgorithm::execute, the loop over the matching rows of a
\* block, turns the hull of a set of timestamps into the hull of that set
\* and the block's rows.  The loop is the recursive function acc of
\* Execute; the proof names the hull of every prefix (g) and shows that
\* acc is g by taking a least index where they would differ.
LEMMA ExecuteIsHull ==
  ASSUME NEW i \in Info, NEW S \in SUBSET Time,
         NEW n \in Nat, NEW rows \in [1..n -> Time]
  PROVE  Execute(Hull(i, S), rows) = Hull(i, S \cup Range(rows))
<1> DEFINE Prefix(k) == {rows[j] : j \in 1..k}
           g == [k \in 0..n |-> Hull(i, S \cup Prefix(k))]
           IsAcc(f) == f = [k \in 0..Len(rows) |->
                              IF k = 0 THEN Hull(i, S) ELSE Update(f[k - 1], rows[k])]
           acc == CHOOSE f : IsAcc(f)
<1> HIDE DEF Prefix, g, IsAcc, acc
<1>1. Len(rows) = n
  BY DEF Time
<1>2. Execute(Hull(i, S), rows) = acc[n]
  BY <1>1 DEF Execute, acc, IsAcc
<1>3. ASSUME NEW k \in 1..n
      PROVE  Update(g[k - 1], rows[k]) = g[k]
  <2>1. S \cup Prefix(k - 1) \in SUBSET Time /\ rows[k] \in Time
    BY DEF Prefix
  <2>2. (S \cup Prefix(k - 1)) \cup {rows[k]} = S \cup Prefix(k)
    BY DEF Prefix
  <2>3. g[k - 1] = Hull(i, S \cup Prefix(k - 1)) /\ g[k] = Hull(i, S \cup Prefix(k))
    BY DEF g
  <2>4. QED
    BY <2>1, <2>2, <2>3, UpdateIsIncrementalHull
<1>4. IsAcc(g)
  <2>1. g[0] = Hull(i, S)
    <3>1. S \cup Prefix(0) = S
      BY DEF Prefix
    <3>2. g[0] = Hull(i, S \cup Prefix(0))
      BY DEF g
    <3>3. QED
      BY <3>1, <3>2
  <2>2. \A k \in 0..n : g[k] = IF k = 0 THEN Hull(i, S) ELSE Update(g[k - 1], rows[k])
    BY <1>3, <2>1
  <2>3. g = [k \in 0..n |-> g[k]]
    BY DEF g
  <2>4. QED
    BY <1>1, <2>2, <2>3 DEF IsAcc
<1>5. IsAcc(acc)
  BY <1>4 DEF acc
<1>6. ASSUME NEW f, IsAcc(f) PROVE f = g
  <2> DEFINE D == {k \in 0..n : f[k] # g[k]}
  <2>1. SUFFICES D = {}
    <3>1. f = [k \in 0..n |-> f[k]] /\ g = [k \in 0..n |-> g[k]]
      BY <1>1, <1>6 DEF IsAcc, g
    <3>2. QED
      BY <2>1, <3>1
  <2>2. SUFFICES ASSUME D # {} PROVE FALSE
    OBVIOUS
  <2>3. PICK k \in D : \A j \in D : k <= j
    <3>1. D \in SUBSET Nat
      OBVIOUS
    <3>2. QED
      BY <2>2, <3>1, NatHasLeast
  <2>4. CASE k = 0
    <3>1. f[0] = Hull(i, S)
      BY <1>1, <1>6 DEF IsAcc
    <3>2. QED
      BY <1>4, <2>3, <2>4, <3>1, <1>1 DEF IsAcc
  <2>5. CASE k # 0
    <3>1. k \in 1..n /\ k - 1 \notin D
      BY <2>3, <2>5
    <3>2. f[k - 1] = g[k - 1]
      BY <3>1
    <3>3. f[k] = Update(f[k - 1], rows[k])
      BY <1>1, <1>6, <3>1 DEF IsAcc
    <3>4. QED
      BY <1>3, <2>3, <3>1, <3>2, <3>3
  <2>6. QED
    BY <2>4, <2>5
<1>7. acc[n] = g[n]
  BY <1>5, <1>6
<1>8. Prefix(n) = Range(rows)
  BY DEF Prefix, Range
<1>9. QED
  BY <1>2, <1>7, <1>8 DEF g

-----------------------------------------------------------------------------
(* finalize().                                                             *)

\* Once prepare() has run finalize(), the part's ttl_infos are exactly the
\* bounds of the algorithms, one per rule, and the keys of rules no longer
\* in the metadata are gone.
StoredBoundsAreAlgorithms ==
    phase = "finished" => partInfo = [r \in Rules |-> algo[r]]

\* finalize() clears ttl_infos before the algorithms store their bounds, and
\* nothing changes the bounds or the infos after it: in every reachable
\* state of a finished transform the part's TTL infos are the algorithms'.
THEOREM StoredBoundsAreAlgorithmsHolds == Spec => []StoredBoundsAreAlgorithms
<1>1. Init => StoredBoundsAreAlgorithms
  BY DEF Init, StoredBoundsAreAlgorithms
<1>2. StoredBoundsAreAlgorithms /\ [Next]_vars => StoredBoundsAreAlgorithms'
  BY DEF StoredBoundsAreAlgorithms, Next, vars, Consume, Generate, Prepare, Finalize
<1>3. QED
  BY <1>1, <1>2, PTL DEF Spec

-----------------------------------------------------------------------------
(* TTLBoundsExact for every number of rules, blocks and rows.              *)

\* The inductive invariant: every algorithm holds the hull of its seed and
\* the timestamps it has consumed, and a finished transform has stored
\* exactly the algorithms' bounds.  TTLBoundsExact alone is not inductive:
\* it says nothing of algo before finalize().
IInv ==
    /\ TypeOK
    /\ \A r \in Rules : algo[r] = Hull(Seed(r), seen[r])
    /\ StoredBoundsAreAlgorithms

\* The constructor seeds every algorithm with valid bounds: the part's old
\* info for its key, or none.
LEMMA SeedValid ==
  ASSUME force \in BOOLEAN, oldInfo \in PartInfos, NEW r \in Rules
  PROVE  Seed(r) \in ValidInfo
<1>1. CASE force \/ r \notin DOMAIN oldInfo
  BY <1>1, TTLConstantsAssumption DEF Seed, EmptyInfo, ValidInfo, Info, Time
<1>2. CASE ~force /\ r \in DOMAIN oldInfo
  <2>1. PICK D \in SUBSET Keys : oldInfo \in [D -> ValidInfo]
    BY DEF PartInfos
  <2>2. QED
    BY <1>2, <2>1 DEF Seed
<1>3. QED
  BY <1>1, <1>2

LEMMA InitIInv == Init => IInv
<1> SUFFICES ASSUME Init PROVE IInv
  OBVIOUS
<1>1. TypeOK
  <2>1. \A r \in Rules : Seed(r) \in ValidInfo
    <3>1. oldInfo \in PartInfos /\ force \in BOOLEAN
      BY DEF Init
    <3>2. QED
      BY <3>1, SeedValid
  <2>2. QED
    BY <2>1, TTLConstantsAssumption DEF Init, TypeOK
<1>2. \A r \in Rules : algo[r] = Hull(Seed(r), seen[r])
  <2>1. \A r \in Rules : Seed(r) \in ValidInfo
    BY <1>1, SeedValid DEF TypeOK
  <2>2. QED
    BY <2>1, HullOfNothing DEF Init
<1>3. QED
  BY <1>1, <1>2 DEF IInv, Init, StoredBoundsAreAlgorithms

LEMMA IInvInductive == IInv /\ [Next]_vars => IInv'
<1> SUFFICES ASSUME IInv, [Next]_vars PROVE IInv'
  OBVIOUS
<1>0. TypeOK /\ \A r \in Rules : algo[r] = Hull(Seed(r), seen[r])
  BY DEF IInv
<1>1. CASE Consume
  <2>1. PICK rows \in [Rules -> RowSeqs] :
          /\ algo' = [r \in Rules |-> Execute(algo[r], rows[r])]
          /\ seen' = [r \in Rules |-> seen[r] \cup Range(rows[r])]
    BY <1>1 DEF Consume
  <2>2. ASSUME NEW r \in Rules
        PROVE  /\ seen'[r] \in SUBSET Time
               /\ algo'[r] = Hull(Seed(r)', seen'[r])
               /\ algo'[r] \in ValidInfo
    <3>1. PICK m \in 0..MaxBlockRows : rows[r] \in [1..m -> Time]
      BY <2>1 DEF RowSeqs
    <3>2. Seed(r) \in ValidInfo /\ seen[r] \in SUBSET Time
      BY <1>0, SeedValid DEF TypeOK
    <3>3. Range(rows[r]) \in SUBSET Time
      BY <3>1 DEF Range
    <3>4. algo'[r] = Hull(Seed(r), seen[r] \cup Range(rows[r]))
      <4>1. algo'[r] = Execute(Hull(Seed(r), seen[r]), rows[r])
        BY <1>0, <2>1
      <4>2. Seed(r) \in Info /\ m \in Nat
        BY <3>2, TTLConstantsAssumption DEF ValidInfo
      <4>3. QED
        BY <3>1, <3>2, <4>1, <4>2, ExecuteIsHull
    <3>5. Seed(r)' = Seed(r)
      BY <1>1 DEF Consume, Seed
    <3>6. QED
      BY <2>1, <3>2, <3>3, <3>4, <3>5, HullValid
  <2>3. TypeOK'
    <3>1. algo' \in [Rules -> ValidInfo] /\ seen' \in [Rules -> SUBSET Time]
      BY <2>1, <2>2
    <3>2. blocks' \in 0..MaxBlocks
      BY <1>0, <1>1, TTLConstantsAssumption DEF Consume, TypeOK
    <3>3. QED
      BY <1>0, <1>1, <3>1, <3>2 DEF Consume, TypeOK
  <2>4. StoredBoundsAreAlgorithms'
    BY <1>1 DEF Consume, StoredBoundsAreAlgorithms
  <2>5. QED
    BY <2>2, <2>3, <2>4 DEF IInv
<1>2. CASE Generate
  <2>1. \A r \in Rules : Seed(r)' = Seed(r)
    BY <1>2 DEF Generate, Seed
  <2>2. QED
    BY <1>0, <1>2 DEF IInv, TypeOK, Generate, StoredBoundsAreAlgorithms, Seed
<1>3. CASE Prepare
  <2>1. partInfo' \in PartInfos
    <3>1. partInfo' \in [Rules -> ValidInfo]
      BY <1>0, <1>3 DEF Prepare, Finalize, TypeOK
    <3>2. Rules \in SUBSET Keys
      BY DEF Keys
    <3>3. QED
      BY <3>1, <3>2 DEF PartInfos
  <2>2. QED
    BY <1>0, <1>3, <2>1 DEF IInv, TypeOK, Prepare, Finalize, StoredBoundsAreAlgorithms, Seed
<1>4. CASE UNCHANGED vars
  BY <1>4 DEF IInv, TypeOK, vars, StoredBoundsAreAlgorithms, Seed
<1>5. QED
  BY <1>1, <1>2, <1>3, <1>4 DEF Next

\* TTLUpdateInfoAlgorithm keeps a valid TTL info, and the part is only
\* given valid infos: TTLCalc's type invariant in every reachable state.
THEOREM TypeCorrect == Spec => []TypeOK
<1>1. IInv => TypeOK
  BY DEF IInv
<1>2. QED
  BY <1>1, InitIInv, IInvInductive, PTL DEF Spec

\* For every set of rules and stale keys, every bound on timestamps, block
\* count and rows per block: once finalize() has run, the part's TTL info
\* of every rule is the hull of its seed and every matching timestamp that
\* consume() saw, and no stale key is left (TTLBoundsExact).
THEOREM TTLBoundsExactHolds == Spec => []TTLBoundsExact
<1>1. IInv => TTLBoundsExact
  BY DEF IInv, StoredBoundsAreAlgorithms, TTLBoundsExact
<1>2. QED
  BY <1>1, InitIInv, IInvInductive, PTL DEF Spec
=============================================================================
