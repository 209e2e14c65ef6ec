---------------------------- MODULE WriteIPv4Text ----------------------------
(***************************************************************************)
(* writeIPv4Text (src/IO/WriteHelpers.cpp, lines 56-69): the dotted text   *)
(* of an IPv4 address, a UInt32.  Each octet is taken with a shift and a   *)
(* mask (the first one with a shift alone) and used as the index of        *)
(* one_byte_to_string_lookup_table, whose 256 entries hold the decimal     *)
(* text of 0..255 (not in the repository); the four texts are written with *)
(* a '.' between them.                                                     *)
(*                                                                         *)
(* A text is a sequence of pieces: a '.' or the decimal digits of a table  *)
(* entry, as numbers 0..9.  A read past the end of the table is undefined  *)
(* behaviour; it is modelled by the outcomes a build can give: the text of *)
(* another entry or nothing.                                               *)
(***************************************************************************)
EXTENDS Naturals, Sequences

CONSTANT IPs        \* the addresses written

\* The addresses are UInt32: below 2^32, written as 2^16 * 2^16 so that TLC,
\* whose integers are signed 32-bit, can evaluate the bound.
ASSUME WriteIPv4TextAssumption ==
    /\ IPs \subseteq Nat /\ IPs # {}
    /\ \A x \in IPs : x \div 2^16 < 2^16

\* The decimal digits of 0..255, most significant first, without leading
\* zeros: the strings of one_byte_to_string_lookup_table.
Dec(b) ==
    IF b < 10 THEN <<b>>
    ELSE IF b < 100 THEN <<b \div 10, b % 10>>
    ELSE <<b \div 100, (b \div 10) % 10, b % 10>>

\* A piece of the text: a '.', or the characters of a table entry.
Dot == [sep |-> TRUE, digits |-> <<>>]
Entry(d) == [sep |-> FALSE, digits |-> d]

TableEntries == {Entry(Dec(b)) : b \in 0..255}

\* What one_byte_to_string_lookup_table[idx] yields: the entry, or, past
\* the end, another entry's text or nothing.
Lookup(idx) == IF idx \in 0..255 THEN {Entry(Dec(idx))} ELSE {Entry(Dec(idx % 256)), Entry(<<>>)}

\* The octet indexes least significant first.
OctetIndexesReversed(ip) ==
    <<ip % 256, (ip \div 2^8) % 256, (ip \div 2^16) % 256, ip \div 2^24>>

\* The octet indexes with the second mask dropped.
OctetIndexesUnmasked(ip) ==
    <<ip \div 2^24, ip \div 2^16, (ip \div 2^8) % 256, ip % 256>>

\* idx = ip >> 24; (ip >> 16) & 0xFF; (ip >> 8) & 0xFF; ip & 0xFF.
OctetIndexes(ip) ==
    <<ip \div 2^24, (ip \div 2^16) % 256, (ip \div 2^8) % 256, ip % 256>>

VARIABLES
    ip,     \* the address
    text,   \* what writeIPv4Text has written to the buffer
    done

vars == <<ip, text, done>>

Init ==
    /\ ip \in IPs
    /\ text = <<>>
    /\ done = FALSE

\* writeIPv4Text: four table reads, with a '.' written after each of the
\* first three.
Write ==
    /\ ~done
    /\ LET idx == OctetIndexes(ip)
       IN  \E t \in Lookup(idx[1]) \X Lookup(idx[2]) \X Lookup(idx[3]) \X Lookup(idx[4]) :
              text' = text \o <<t[1], Dot, t[2], Dot, t[3], Dot, t[4]>>
    /\ done' = TRUE
    /\ UNCHANGED ip

Spec == Init /\ [][Write]_vars

-----------------------------------------------------------------------------
\* The value of a decimal text of one to three digits.
DecValue(s) ==
    IF Len(s) = 1 THEN s[1]
    ELSE IF Len(s) = 2 THEN 10 * s[1] + s[2]
    ELSE 100 * s[1] + 10 * s[2] + s[3]

\* One to three decimal digits, with no leading zero.
IsDecimal(s) ==
    /\ Len(s) \in 1..3
    /\ \A k \in 1..Len(s) : s[k] \in 0..9
    /\ Len(s) > 1 => s[1] # 0

OctetPositions == {1, 3, 5, 7}

\* Type invariant: the buffer holds table entries and dots.
TypeOK ==
    /\ ip \in IPs
    /\ text \in Seq(TableEntries \cup {Dot})
    /\ done \in BOOLEAN

\* The text read back as dotted decimal gives the address: four decimal
\* numbers of at most 255 between three dots, whose base-256 value is ip.
\* It fails if an octet's shift or mask is wrong, in which case an index
\* can also fall outside the 256-entry table.
IPv4TextExact ==
    done =>
        /\ Len(text) = 7
        /\ \A j \in {2, 4, 6} : text[j] = Dot
        /\ \A j \in OctetPositions :
              /\ ~text[j].sep
              /\ IsDecimal(text[j].digits)
              /\ DecValue(text[j].digits) <= 255
        /\ DecValue(text[1].digits) * 2^24 + DecValue(text[3].digits) * 2^16
             + DecValue(text[5].digits) * 2^8 + DecValue(text[7].digits) = ip
=============================================================================
