------------------------- MODULE WriteIPv4TextProofs -------------------------
(***************************************************************************)
(* Proofs about writeIPv4Text (WriteIPv4Text.tla) for every UInt32, the    *)
(* addresses of 128.0.0.0 and above included, which TLC cannot represent:  *)
(* every shift and mask gives an index inside the 256-entry table, so no   *)
(* read is undefined, and the dotted text reads back as the address.       *)
(***************************************************************************)
EXTENDS WriteIPv4Text, TLAPS

\* The text writeIPv4Text writes for an address, every index in the table.
TextOf(x) ==
    LET idx == OctetIndexes(x)
    IN  <<Entry(Dec(idx[1])), Dot, Entry(Dec(idx[2])), Dot,
          Entry(Dec(idx[3])), Dot, Entry(Dec(idx[4]))>>

-----------------------------------------------------------------------------
(* Lemmas about the operators.                                             *)

\* Every table entry is a decimal of one to three digits whose value is its
\* index.
LEMMA DecRoundTrip ==
  ASSUME NEW b \in 0..255
  PROVE  IsDecimal(Dec(b)) /\ DecValue(Dec(b)) = b
<1>1. CASE b < 10
  BY <1>1 DEF Dec, IsDecimal, DecValue
<1>2. CASE 10 <= b /\ b < 100
  BY <1>2 DEF Dec, IsDecimal, DecValue
<1>3. CASE 100 <= b
  BY <1>3 DEF Dec, IsDecimal, DecValue
<1>4. QED
  BY <1>1, <1>2, <1>3

\* For every UInt32 the four indexes are bytes, including the first, which
\* is not masked, and they are its base-256 digits.
LEMMA OctetIndexesAreDigits ==
  ASSUME NEW x \in Nat, x \div 2^16 < 2^16
  PROVE  LET idx == OctetIndexes(x)
         IN  /\ \A j \in 1..4 : idx[j] \in 0..255
             /\ idx[1] * 2^24 + idx[2] * 2^16 + idx[3] * 2^8 + idx[4] = x
<1>1. x \div 16777216 \in 0..255
  <2>1. x < 4294967296
    OBVIOUS
  <2>2. QED
    BY <2>1
<1>2. x = (x \div 16777216) * 16777216 + ((x \div 65536) % 256) * 65536
          + ((x \div 256) % 256) * 256 + (x % 256)
  OBVIOUS
<1>3. QED
  BY <1>1, <1>2 DEF OctetIndexes

-----------------------------------------------------------------------------
(* The invariants.                                                         *)

\* Before the call the buffer is empty; after it, it holds TextOf(ip).
IInv ==
    /\ TypeOK
    /\ text = IF done THEN TextOf(ip) ELSE <<>>

LEMMA TextOfIsTyped ==
  ASSUME NEW x \in IPs
  PROVE  TextOf(x) \in Seq(TableEntries \cup {Dot})
<1>1. \A j \in 1..4 : OctetIndexes(x)[j] \in 0..255
  BY WriteIPv4TextAssumption, OctetIndexesAreDigits
<1>2. \A j \in 1..4 : Entry(Dec(OctetIndexes(x)[j])) \in TableEntries
  BY <1>1 DEF TableEntries
<1>3. QED
  BY <1>2 DEF TextOf

LEMMA InitIInv == Init => IInv
<1> SUFFICES ASSUME Init PROVE IInv
  OBVIOUS
<1>1. text = <<>> /\ done = FALSE /\ ip \in IPs
  BY DEF Init
<1>2. <<>> \in Seq(TableEntries \cup {Dot})
  OBVIOUS
<1>3. QED
  BY <1>1, <1>2 DEF IInv, TypeOK

LEMMA IInvInductive == IInv /\ [Write]_vars => IInv'
<1> SUFFICES ASSUME IInv, [Write]_vars PROVE IInv'
  OBVIOUS
<1>1. CASE Write
  <2>1. \A j \in 1..4 : OctetIndexes(ip)[j] \in 0..255
    BY WriteIPv4TextAssumption, OctetIndexesAreDigits DEF IInv, TypeOK
  <2>2. text' = TextOf(ip)
    <3>1. \A j \in 1..4 : Lookup(OctetIndexes(ip)[j]) = {Entry(Dec(OctetIndexes(ip)[j]))}
      BY <2>1 DEF Lookup
    <3>2. text = <<>>
      BY <1>1 DEF Write, IInv
    <3>3. QED
      BY <1>1, <3>1, <3>2 DEF Write, TextOf
  <2>3. QED
    BY <1>1, <2>2, TextOfIsTyped DEF Write, IInv, TypeOK
<1>2. CASE UNCHANGED vars
  BY <1>2 DEF IInv, TypeOK, vars
<1>3. QED
  BY <1>1, <1>2

\* writeIPv4Text only writes entries of the table and dots.
THEOREM TypeCorrect == Spec => []TypeOK
<1>1. IInv => TypeOK
  BY DEF IInv
<1>2. QED
  BY <1>1, InitIInv, IInvInductive, PTL DEF Spec

\* For every UInt32 address, the text writeIPv4Text writes is four decimal
\* numbers of at most 255 between three dots whose base-256 value is the
\* address (IPv4TextExact).
THEOREM IPv4TextExactHolds == Spec => []IPv4TextExact
<1>1. IInv => IPv4TextExact
  <2> SUFFICES ASSUME IInv, done PROVE IPv4TextExact
    BY DEF IPv4TextExact
  <2> DEFINE idx == OctetIndexes(ip)
             v(j) == DecValue(text[j].digits)
  <2> HIDE DEF idx
  <2>1. /\ text = <<Entry(Dec(idx[1])), Dot, Entry(Dec(idx[2])), Dot,
                    Entry(Dec(idx[3])), Dot, Entry(Dec(idx[4]))>>
        /\ Len(text) = 7
    BY DEF IInv, TextOf, idx
  <2>2. \A j \in 1..4 : idx[j] \in 0..255
    BY WriteIPv4TextAssumption, OctetIndexesAreDigits DEF IInv, TypeOK, idx
  <2>3. idx[1] * 2^24 + idx[2] * 2^16 + idx[3] * 2^8 + idx[4] = ip
    BY WriteIPv4TextAssumption, OctetIndexesAreDigits DEF IInv, TypeOK, idx
  <2>4. \A j \in 1..4 : IsDecimal(Dec(idx[j])) /\ DecValue(Dec(idx[j])) = idx[j]
    BY <2>2, DecRoundTrip
  <2>5. \A j \in 1..4 : /\ ~text[2 * j - 1].sep
                        /\ text[2 * j - 1].digits = Dec(idx[j])
    BY <2>1 DEF Entry
  <2>6. \A j \in {2, 4, 6} : text[j] = Dot
    BY <2>1
  <2>7. /\ v(1) = idx[1] /\ v(3) = idx[2] /\ v(5) = idx[3] /\ v(7) = idx[4]
    <3>1. /\ text[1].digits = Dec(idx[1]) /\ text[3].digits = Dec(idx[2])
          /\ text[5].digits = Dec(idx[3]) /\ text[7].digits = Dec(idx[4])
      BY <2>5
    <3>2. QED
      BY <2>4, <3>1
  <2>8. \A j \in OctetPositions : /\ ~text[j].sep
                                   /\ IsDecimal(text[j].digits)
                                   /\ DecValue(text[j].digits) <= 255
    <3>1. \A j \in OctetPositions : \E k \in 1..4 : j = 2 * k - 1
      BY DEF OctetPositions
    <3>2. QED
      BY <2>2, <2>4, <2>5, <3>1
  <2>9. QED
    BY <2>1, <2>3, <2>6, <2>7, <2>8 DEF IPv4TextExact
<1>2. QED
  BY <1>1, InitIInv, IInvInductive, PTL DEF Spec
=============================================================================
