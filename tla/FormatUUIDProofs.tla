-------------------------- MODULE FormatUUIDProofs --------------------------
(***************************************************************************)
(* Proofs about formatUUID (FormatUUID.tla): for every UUID, not only the  *)
(* 2^16 that TLC enumerates, the four formatHex slices and the four dashes *)
(* write exactly the 36 positions of the array, and the text is the        *)
(* canonical one.                                                          *)
(***************************************************************************)
EXTENDS FormatUUID, FiniteSetTheorems, TLAPS

\* Every UUID: sixteen bytes.
Bytes == [0..15 -> 0..255]

-----------------------------------------------------------------------------
(* Lemmas about the operators the formatting is built from.                *)

\* writeHexByteLowercase writes the high nibble of a byte, then the low one.
LEMMA HexByteDigits ==
  ASSUME NEW B \in Bytes, NEW k \in 0..15, NEW e \in 0..1
  PROVE  WriteHexByteLowercase(B[k])[e + 1] = HexDigits[Nibble(B, 2 * k + e) + 1]
<1>1. B[k] \in 0..255 /\ (2 * k + e) % 2 = e /\ (2 * k + e) \div 2 = k
  BY DEF Bytes
<1>2. CASE e = 0
  BY <1>1, <1>2 DEF WriteHexByteLowercase, Nibble
<1>3. CASE e = 1
  BY <1>1, <1>3 DEF WriteHexByteLowercase, Nibble
<1>4. QED
  BY <1>2, <1>3

\* Adding an element that is not in a finite set adds one to its size.
LEMMA AddNewElement ==
  ASSUME NEW S, NEW x, IsFiniteSet(S), x \notin S
  PROVE  IsFiniteSet(S \cup {x}) /\ Cardinality(S \cup {x}) = Cardinality(S) + 1
<1>1. IsFiniteSet(S \cup {x})
      /\ Cardinality(S \cup {x}) = IF x \in S THEN Cardinality(S) ELSE Cardinality(S) + 1
  BY FS_AddElement
<1>2. QED
  BY <1>1

\* The sizes of the sets of dashes before a digit.
LEMMA DashCounts ==
  /\ IsFiniteSet({}) /\ Cardinality({}) = 0
  /\ IsFiniteSet({8}) /\ Cardinality({8}) = 1
  /\ IsFiniteSet({8, 13}) /\ Cardinality({8, 13}) = 2
  /\ IsFiniteSet({8, 13, 18}) /\ Cardinality({8, 13, 18}) = 3
  /\ IsFiniteSet({8, 13, 18, 23}) /\ Cardinality({8, 13, 18, 23}) = 4
<1>1. /\ IsFiniteSet({}) /\ Cardinality({}) = 0
      /\ IsFiniteSet({8}) /\ Cardinality({8}) = 1
  BY FS_EmptySet, FS_Singleton
<1>2. IsFiniteSet({8, 13}) /\ Cardinality({8, 13}) = 2
  <2>1. {8, 13} = {8} \cup {13} /\ 13 \notin {8}
    OBVIOUS
  <2>2. IsFiniteSet({8} \cup {13}) /\ Cardinality({8} \cup {13}) = Cardinality({8}) + 1
    BY <1>1, <2>1, AddNewElement
  <2>3. QED
    BY <1>1, <2>1, <2>2
<1>3. IsFiniteSet({8, 13, 18}) /\ Cardinality({8, 13, 18}) = 3
  <2>1. {8, 13, 18} = {8, 13} \cup {18} /\ 18 \notin {8, 13}
    OBVIOUS
  <2>2. IsFiniteSet({8, 13} \cup {18}) /\ Cardinality({8, 13} \cup {18}) = Cardinality({8, 13}) + 1
    BY <1>2, <2>1, AddNewElement
  <2>3. QED
    BY <1>2, <2>1, <2>2
<1>4. IsFiniteSet({8, 13, 18, 23}) /\ Cardinality({8, 13, 18, 23}) = 4
  <2>1. {8, 13, 18, 23} = {8, 13, 18} \cup {23} /\ 23 \notin {8, 13, 18}
    OBVIOUS
  <2>2. IsFiniteSet({8, 13, 18} \cup {23})
        /\ Cardinality({8, 13, 18} \cup {23}) = Cardinality({8, 13, 18}) + 1
    BY <1>3, <2>1, AddNewElement
  <2>3. QED
    BY <1>3, <2>1, <2>2
<1>5. QED
  BY <1>1, <1>2, <1>3, <1>4

\* The number of dashes before a position of a digit.
LEMMA DigitIndexValue ==
  ASSUME NEW p \in Positions \ DashPositions
  PROVE  DigitIndex(p) = p - (IF p < 8 THEN 0 ELSE IF p < 13 THEN 1
                              ELSE IF p < 18 THEN 2 ELSE IF p < 23 THEN 3 ELSE 4)
<1> DEFINE Before == {q \in DashPositions : q < p}
<1>5. Before = IF p < 8 THEN {} ELSE IF p < 13 THEN {8}
               ELSE IF p < 18 THEN {8, 13} ELSE IF p < 23 THEN {8, 13, 18}
               ELSE {8, 13, 18, 23}
  BY DEF DashPositions, Positions
<1>6. QED
  BY <1>5, DashCounts DEF DigitIndex

-----------------------------------------------------------------------------
(* formatUUID computes the canonical text.                                 *)

\* For every UUID, formatUUID writes the 36 positions of the array and
\* nothing else, and they hold the canonical 8-4-4-4-12 lower-case text:
\* the reverse iteration over the little-endian halves and the slice
\* offsets 8, 12, 14, 0, 2 put every byte's two digits in place.
LEMMA FormatUUIDCanonical ==
  ASSUME NEW B \in Bytes
  PROVE  FormatUUID(B) = Canonical(B)
<1> DEFINE src == Source(Memory(B))
           S1 == FormatHex(src, 8, 0, 4)
           S2 == FormatHex(src, 12, 9, 2)
           S3 == FormatHex(src, 14, 14, 2)
           S4 == FormatHex(src, 0, 19, 2)
           S5 == FormatHex(src, 2, 24, 6)
           M8 == Merge(Dash(23), S5)
           M7 == Merge(S4, M8)
           M6 == Merge(Dash(18), M7)
           M5 == Merge(S3, M6)
           M4 == Merge(Dash(13), M5)
           M3 == Merge(S2, M4)
           M2 == Merge(Dash(8), M3)
           M1 == Merge(S1, M2)
<1> HIDE DEF src, S1, S2, S3, S4, S5, M1, M2, M3, M4, M5, M6, M7, M8
<1>0. FormatUUID(B) = M1
  BY DEF FormatUUID, src, S1, S2, S3, S4, S5, M1, M2, M3, M4, M5, M6, M7, M8
<1>1. /\ DOMAIN S1 = 0..7  /\ DOMAIN S2 = 9..12 /\ DOMAIN S3 = 14..17
      /\ DOMAIN S4 = 19..22 /\ DOMAIN S5 = 24..35
      /\ DOMAIN Dash(8) = {8} /\ DOMAIN Dash(13) = {13}
      /\ DOMAIN Dash(18) = {18} /\ DOMAIN Dash(23) = {23}
      /\ Dash(8)[8] = "-" /\ Dash(13)[13] = "-"
      /\ Dash(18)[18] = "-" /\ Dash(23)[23] = "-"
  BY DEF S1, S2, S3, S4, S5, FormatHex, Dash
\* The byte each slice reads: src[from + j] is Memory(B)[15 - from - j].
<1>2. \A j \in 0..3 : src[8 + j] = B[j]
  BY DEF src, Source, Memory, Bytes
<1>3. \A j \in 0..1 : src[12 + j] = B[4 + j] /\ src[14 + j] = B[6 + j]
                      /\ src[j] = B[8 + j]
  <2>1. \A j \in 0..1 : src[12 + j] = B[4 + j]
    BY DEF src, Source, Memory, Bytes
  <2>2. \A j \in 0..1 : src[14 + j] = B[6 + j]
    BY DEF src, Source, Memory, Bytes
  <2>3. \A j \in 0..1 : src[j] = B[8 + j]
    BY DEF src, Source, Memory, Bytes
  <2>4. QED
    BY <2>1, <2>2, <2>3
<1>4. \A j \in 0..5 : src[2 + j] = B[10 + j]
  BY DEF src, Source, Memory, Bytes
\* The merged slices, position by position.
<1> DEFINE Piece(p) ==
      IF p \in DashPositions THEN "-"
      ELSE IF p < 8 THEN S1[p] ELSE IF p < 13 THEN S2[p]
      ELSE IF p < 18 THEN S3[p] ELSE IF p < 23 THEN S4[p] ELSE S5[p]
<1> HIDE DEF Piece
<1>5. DOMAIN M1 = Positions /\ \A p \in Positions : M1[p] = Piece(p)
  <2>1. DOMAIN M8 = 23..35 /\ \A p \in 23..35 : M8[p] = Piece(p)
    <3>0. DOMAIN Dash(23) = {23} /\ DOMAIN S5 = 24..35
      BY <1>1
    <3>1. DOMAIN M8 = 23..35
      BY <3>0 DEF M8, Merge
    <3>2. ASSUME NEW p \in {23} PROVE M8[p] = Piece(p)
      <4>1. M8[p] = Dash(23)[p]
        BY <3>0 DEF M8, Merge
      <4>2. QED
        BY <1>1, <4>1 DEF Piece, DashPositions
    <3>3. ASSUME NEW p \in 24..35 PROVE M8[p] = Piece(p)
      <4>1. M8[p] = S5[p]
        BY <3>0 DEF M8, Merge
      <4>2. QED
        BY <4>1 DEF Piece, DashPositions
    <3>4. QED
      BY <3>1, <3>2, <3>3
  <2>2. DOMAIN M7 = 19..35 /\ \A p \in 19..35 : M7[p] = Piece(p)
    <3>0. DOMAIN S4 = 19..22 /\ DOMAIN M8 = 23..35
      BY <1>1, <2>1
    <3>1. DOMAIN M7 = 19..35
      BY <3>0 DEF M7, Merge
    <3>2. ASSUME NEW p \in 19..22 PROVE M7[p] = Piece(p)
      <4>1. M7[p] = S4[p]
        BY <3>0 DEF M7, Merge
      <4>2. QED
        BY <1>1, <4>1 DEF Piece, DashPositions
    <3>3. ASSUME NEW p \in 23..35 PROVE M7[p] = Piece(p)
      <4>1. M7[p] = M8[p]
        BY <3>0 DEF M7, Merge
      <4>2. QED
        BY <4>1, <2>1
    <3>4. QED
      BY <3>1, <3>2, <3>3
  <2>3. DOMAIN M6 = 18..35 /\ \A p \in 18..35 : M6[p] = Piece(p)
    <3>0. DOMAIN Dash(18) = {18} /\ DOMAIN M7 = 19..35
      BY <1>1, <2>2
    <3>1. DOMAIN M6 = 18..35
      BY <3>0 DEF M6, Merge
    <3>2. ASSUME NEW p \in {18} PROVE M6[p] = Piece(p)
      <4>1. M6[p] = Dash(18)[p]
        BY <3>0 DEF M6, Merge
      <4>2. QED
        BY <1>1, <4>1 DEF Piece, DashPositions
    <3>3. ASSUME NEW p \in 19..35 PROVE M6[p] = Piece(p)
      <4>1. M6[p] = M7[p]
        BY <3>0 DEF M6, Merge
      <4>2. QED
        BY <4>1, <2>2
    <3>4. QED
      BY <3>1, <3>2, <3>3
  <2>4. DOMAIN M5 = 14..35 /\ \A p \in 14..35 : M5[p] = Piece(p)
    <3>0. DOMAIN S3 = 14..17 /\ DOMAIN M6 = 18..35
      BY <1>1, <2>3
    <3>1. DOMAIN M5 = 14..35
      BY <3>0 DEF M5, Merge
    <3>2. ASSUME NEW p \in 14..17 PROVE M5[p] = Piece(p)
      <4>1. M5[p] = S3[p]
        BY <3>0 DEF M5, Merge
      <4>2. QED
        BY <1>1, <4>1 DEF Piece, DashPositions
    <3>3. ASSUME NEW p \in 18..35 PROVE M5[p] = Piece(p)
      <4>1. M5[p] = M6[p]
        BY <3>0 DEF M5, Merge
      <4>2. QED
        BY <4>1, <2>3
    <3>4. QED
      BY <3>1, <3>2, <3>3
  <2>5. DOMAIN M4 = 13..35 /\ \A p \in 13..35 : M4[p] = Piece(p)
    <3>0. DOMAIN Dash(13) = {13} /\ DOMAIN M5 = 14..35
      BY <1>1, <2>4
    <3>1. DOMAIN M4 = 13..35
      BY <3>0 DEF M4, Merge
    <3>2. ASSUME NEW p \in {13} PROVE M4[p] = Piece(p)
      <4>1. M4[p] = Dash(13)[p]
        BY <3>0 DEF M4, Merge
      <4>2. QED
        BY <1>1, <4>1 DEF Piece, DashPositions
    <3>3. ASSUME NEW p \in 14..35 PROVE M4[p] = Piece(p)
      <4>1. M4[p] = M5[p]
        BY <3>0 DEF M4, Merge
      <4>2. QED
        BY <4>1, <2>4
    <3>4. QED
      BY <3>1, <3>2, <3>3
  <2>6. DOMAIN M3 = 9..35 /\ \A p \in 9..35 : M3[p] = Piece(p)
    <3>0. DOMAIN S2 = 9..12 /\ DOMAIN M4 = 13..35
      BY <1>1, <2>5
    <3>1. DOMAIN M3 = 9..35
      BY <3>0 DEF M3, Merge
    <3>2. ASSUME NEW p \in 9..12 PROVE M3[p] = Piece(p)
      <4>1. M3[p] = S2[p]
        BY <3>0 DEF M3, Merge
      <4>2. QED
        BY <1>1, <4>1 DEF Piece, DashPositions
    <3>3. ASSUME NEW p \in 13..35 PROVE M3[p] = Piece(p)
      <4>1. M3[p] = M4[p]
        BY <3>0 DEF M3, Merge
      <4>2. QED
        BY <4>1, <2>5
    <3>4. QED
      BY <3>1, <3>2, <3>3
  <2>7. DOMAIN M2 = 8..35 /\ \A p \in 8..35 : M2[p] = Piece(p)
    <3>0. DOMAIN Dash(8) = {8} /\ DOMAIN M3 = 9..35
      BY <1>1, <2>6
    <3>1. DOMAIN M2 = 8..35
      BY <3>0 DEF M2, Merge
    <3>2. ASSUME NEW p \in {8} PROVE M2[p] = Piece(p)
      <4>1. M2[p] = Dash(8)[p]
        BY <3>0 DEF M2, Merge
      <4>2. QED
        BY <1>1, <4>1 DEF Piece, DashPositions
    <3>3. ASSUME NEW p \in 9..35 PROVE M2[p] = Piece(p)
      <4>1. M2[p] = M3[p]
        BY <3>0 DEF M2, Merge
      <4>2. QED
        BY <4>1, <2>6
    <3>4. QED
      BY <3>1, <3>2, <3>3
  <2>8. DOMAIN M1 = 0..35 /\ \A p \in 0..35 : M1[p] = Piece(p)
    <3>0. DOMAIN S1 = 0..7 /\ DOMAIN M2 = 8..35
      BY <1>1, <2>7
    <3>1. DOMAIN M1 = 0..35
      BY <3>0 DEF M1, Merge
    <3>2. ASSUME NEW p \in 0..7 PROVE M1[p] = Piece(p)
      <4>1. M1[p] = S1[p]
        BY <3>0 DEF M1, Merge
      <4>2. QED
        BY <1>1, <4>1 DEF Piece, DashPositions
    <3>3. ASSUME NEW p \in 8..35 PROVE M1[p] = Piece(p)
      <4>1. M1[p] = M2[p]
        BY <3>0 DEF M1, Merge
      <4>2. QED
        BY <4>1, <2>7
    <3>4. QED
      BY <3>1, <3>2, <3>3
  <2>9. QED
    BY <2>8 DEF Positions
<1>6. ASSUME NEW p \in Positions
      PROVE  M1[p] = Canonical(B)[p]
  <2>1. CASE p \in 0..7
    <3>1. M1[p] = S1[p]
      BY <2>1, <1>5 DEF Piece, DashPositions
    <3>2. S1[p] = WriteHexByteLowercase(B[p \div 2])[(p % 2) + 1]
      BY <2>1, <1>2 DEF FormatHex, S1, S2, S3, S4, S5
    <3>3. Canonical(B)[p] = HexDigits[Nibble(B, p) + 1]
      BY <2>1, DigitIndexValue DEF Canonical, DashPositions, Positions
    <3>4. QED
      BY <2>1, <3>1, <3>2, <3>3, HexByteDigits
  <2>2. CASE p \in 9..12
    <3>1. M1[p] = S2[p]
      BY <2>2, <1>5 DEF Piece, DashPositions
    <3>2. S2[p] = WriteHexByteLowercase(B[4 + (p - 9) \div 2])[((p - 9) % 2) + 1]
      BY <2>2, <1>3 DEF FormatHex, S1, S2, S3, S4, S5
    <3>3. Canonical(B)[p] = HexDigits[Nibble(B, p - 1) + 1]
      BY <2>2, DigitIndexValue DEF Canonical, DashPositions, Positions
    <3>4. QED
      BY <2>2, <3>1, <3>2, <3>3, HexByteDigits
  <2>3. CASE p \in 14..17
    <3>1. M1[p] = S3[p]
      BY <2>3, <1>5 DEF Piece, DashPositions
    <3>2. S3[p] = WriteHexByteLowercase(B[6 + (p - 14) \div 2])[((p - 14) % 2) + 1]
      BY <2>3, <1>3 DEF FormatHex, S1, S2, S3, S4, S5
    <3>3. Canonical(B)[p] = HexDigits[Nibble(B, p - 2) + 1]
      BY <2>3, DigitIndexValue DEF Canonical, DashPositions, Positions
    <3>4. QED
      BY <2>3, <3>1, <3>2, <3>3, HexByteDigits
  <2>4. CASE p \in 19..22
    <3>1. M1[p] = S4[p]
      BY <2>4, <1>5 DEF Piece, DashPositions
    <3>2. S4[p] = WriteHexByteLowercase(B[8 + (p - 19) \div 2])[((p - 19) % 2) + 1]
      BY <2>4, <1>3 DEF FormatHex, S1, S2, S3, S4, S5
    <3>3. Canonical(B)[p] = HexDigits[Nibble(B, p - 3) + 1]
      BY <2>4, DigitIndexValue DEF Canonical, DashPositions, Positions
    <3>4. QED
      BY <2>4, <3>1, <3>2, <3>3, HexByteDigits
  <2>5. CASE p \in 24..35
    <3>1. M1[p] = S5[p]
      BY <2>5, <1>5 DEF Piece, DashPositions
    <3>2. S5[p] = WriteHexByteLowercase(B[10 + (p - 24) \div 2])[((p - 24) % 2) + 1]
      BY <2>5, <1>4 DEF FormatHex, S1, S2, S3, S4, S5
    <3>3. Canonical(B)[p] = HexDigits[Nibble(B, p - 4) + 1]
      BY <2>5, DigitIndexValue DEF Canonical, DashPositions, Positions
    <3>4. QED
      BY <2>5, <3>1, <3>2, <3>3, HexByteDigits
  <2>6. CASE p \in DashPositions
    <3>1. M1[p] = "-"
      BY <2>6, <1>5 DEF Piece
    <3>2. QED
      BY <2>6, <3>1 DEF Canonical
  <2>7. QED
    BY <2>1, <2>2, <2>3, <2>4, <2>5, <2>6 DEF Positions, DashPositions
<1>7. QED
  <2>1. M1 = [p \in Positions |-> M1[p]]
    BY <1>5 DEF M1, Merge
  <2>2. Canonical(B) = [p \in Positions |-> Canonical(B)[p]]
    BY DEF Canonical
  <2>3. QED
    BY <1>0, <1>6, <2>1, <2>2
-----------------------------------------------------------------------------
(* The specification: formatUUID's result is what the type and the        *)
(* canonical text say, in every reachable state.                           *)

\* The inductive invariant: once formatUUID has run, dst is its result.
FInv ==
    /\ TypeOK
    /\ done => dst = FormatUUID(uuid)

\* The UUIDs of the specification are sixteen bytes.
LEMMA ByteValuesAreBytes == [0..15 -> ByteValues] \subseteq Bytes
BY FormatUUIDAssumption DEF Bytes

LEMMA InitFInv == Init => FInv
BY DEF Init, FInv, TypeOK

LEMMA FInvInductive == FInv /\ [Format]_vars => FInv'
<1> SUFFICES ASSUME FInv, [Format]_vars PROVE FInv'
  OBVIOUS
<1>1. CASE Format
  <2>1. uuid \in Bytes
    BY ByteValuesAreBytes DEF FInv, TypeOK
  <2>2. dst' = Canonical(uuid)
    BY <1>1, <2>1, FormatUUIDCanonical DEF Format
  <2>3. DOMAIN Canonical(uuid) = Positions
    BY DEF Canonical
  <2>4. QED
    BY <1>1, <2>1, <2>2, <2>3, FormatUUIDCanonical DEF Format, FInv, TypeOK
<1>2. CASE UNCHANGED vars
  BY <1>2 DEF vars, FInv, TypeOK
<1>3. QED
  BY <1>1, <1>2

\* formatUUID only writes positions of its std::array<char, 36>, for every
\* UUID.
THEOREM TypeCorrect == Spec => []TypeOK
<1>1. FInv => TypeOK
  BY DEF FInv
<1>2. QED
  BY <1>1, InitFInv, FInvInductive, PTL DEF Spec

\* For every UUID, the array formatUUID returns holds all 36 characters and
\* they are the canonical text of the UUID: no position is left
\* uninitialised and every byte's digits are in place.
THEOREM UUIDTextCanonicalHolds == Spec => []UUIDTextCanonical
<1>1. FInv => UUIDTextCanonical
  BY ByteValuesAreBytes, FormatUUIDCanonical DEF FInv, TypeOK, UUIDTextCanonical
<1>2. QED
  BY <1>1, InitFInv, FInvInductive, PTL DEF Spec
=============================================================================
