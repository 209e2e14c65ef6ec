----------------------------- MODULE FormatUUID -----------------------------
(***************************************************************************)
(* formatUUID (src/IO/WriteHelpers.cpp, lines 20-54): the 36 characters of *)
(* a UUID's text, written into an uninitialised std::array<char, 36>.      *)
(*                                                                         *)
(* A UUID is given by its 16 bytes in canonical order B[0..15] (the high   *)
(* 64 bits first, each half most significant byte first).  In memory the  *)
(* UInt128 keeps the high half in its first 64-bit item and every item is *)
(* little-endian (UUIDHelpers, not in the repository; the little-endian   *)
(* build).  formatUUID reads the bytes through a reverse iterator from the *)
(* end, and formats four slices of it with formatHex around four dashes.  *)
(***************************************************************************)
EXTENDS Naturals, Sequences, FiniteSets

CONSTANT ByteValues     \* the byte values a UUID's bytes range over

ASSUME FormatUUIDAssumption == ByteValues \subseteq 0..255 /\ ByteValues # {}

Positions == 0..35
HexDigits == <<"0", "1", "2", "3", "4", "5", "6", "7",
                "8", "9", "a", "b", "c", "d", "e", "f">>

\* The bytes of the UUID in memory (little-endian items, high half first).
Memory(B) == [i \in 0..15 |-> IF i < 8 THEN B[7 - i] ELSE B[23 - i]]

\* src: a reverse iterator starting at src_ptr + 16, so src[i] = src_ptr[15 - i].
ForwardSource(m) == m
Source(m) == [i \in 0..15 |-> m[15 - i]]

\* writeHexByteLowercase: high nibble first.
WriteHexByteLowercase(b) == <<HexDigits[(b \div 16) + 1], HexDigits[(b % 16) + 1]>>

\* formatHex(src + from, dst + at, n): dst[at + 2i], dst[at + 2i + 1] are the
\* two digits of src[from + i], for i < n.
FormatHex(src, from, at, n) ==
    [p \in at..(at + 2 * n - 1) |->
        WriteHexByteLowercase(src[from + (p - at) \div 2])[((p - at) % 2) + 1]]

Dash(p) == [q \in {p} |-> "-"]

\* Two partial functions with disjoint domains merged.
Merge(f, g) == [p \in DOMAIN f \cup DOMAIN g |-> IF p \in DOMAIN f THEN f[p] ELSE g[p]]

\* A formatUUID whose last slice starts one position late.
FormatUUIDOffByOne(B) ==
    LET src == Source(Memory(B))
    IN  Merge(FormatHex(src, 8, 0, 4),
        Merge(Dash(8),
        Merge(FormatHex(src, 12, 9, 2),
        Merge(Dash(13),
        Merge(FormatHex(src, 14, 14, 2),
        Merge(Dash(18),
        Merge(FormatHex(src, 0, 19, 2),
        Merge(Dash(23), FormatHex(src, 2, 25, 6)))))))))

\* formatUUID: the characters written, as a function of the positions
\* written (positions never written are left out).
FormatUUID(B) ==
    LET src == Source(Memory(B))
    IN  Merge(FormatHex(src, 8, 0, 4),
        Merge(Dash(8),
        Merge(FormatHex(src, 12, 9, 2),
        Merge(Dash(13),
        Merge(FormatHex(src, 14, 14, 2),
        Merge(Dash(18),
        Merge(FormatHex(src, 0, 19, 2),
        Merge(Dash(23), FormatHex(src, 2, 24, 6)))))))))

VARIABLES
    uuid,       \* the UUID's bytes in canonical order
    dst,        \* the characters formatUUID has written
    done

vars == <<uuid, dst, done>>

Init ==
    /\ uuid \in [0..15 -> ByteValues]
    /\ dst = [p \in {} |-> "?"]
    /\ done = FALSE

Format ==
    /\ ~done
    /\ dst' = FormatUUID(uuid)
    /\ done' = TRUE
    /\ UNCHANGED uuid

Spec == Init /\ [][Format]_vars

-----------------------------------------------------------------------------
\* The canonical text of a UUID, from its definition: the 32 hexadecimal
\* digits of the 128-bit value, most significant first, in groups of
\* 8-4-4-4-12 separated by dashes.
DashPositions == {8, 13, 18, 23}
DigitIndex(p) == p - Cardinality({q \in DashPositions : q < p})
Nibble(B, d) == IF d % 2 = 0 THEN B[d \div 2] \div 16 ELSE B[d \div 2] % 16
Canonical(B) ==
    [p \in Positions |-> IF p \in DashPositions THEN "-" ELSE HexDigits[Nibble(B, DigitIndex(p)) + 1]]

\* Type invariant: what is written is characters at positions of the array.
TypeOK ==
    /\ uuid \in [0..15 -> ByteValues]
    /\ DOMAIN dst \subseteq Positions
    /\ done \in BOOLEAN

\* formatUUID writes every one of the 36 characters (the array is not
\* initialised, so a position left out would be returned as garbage) and
\* they are the canonical text of the UUID: the reverse iteration over the
\* little-endian items and the four slice offsets put every byte's digits
\* in their place.
UUIDTextCanonical == done => dst = Canonical(uuid)
=============================================================================
